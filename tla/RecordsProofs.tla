---------------------------- MODULE RecordsProofs ----------------------------
(***************************************************************************)
(* What the console keeps of its own saves, states and play time keeps its *)
(* promises for every number of slots, rows, sessions and faults: the      *)
(* states half of a tick, the play-time buffer, the baseline's file, the   *)
(* rom index and the save scan.                                            *)
(***************************************************************************)
EXTENDS StateSync, PlaySessions, StateDb, RomIndex, SaveScan, FiniteSetTheorems, SequenceTheorems, WellFoundedInduction, TLAPS

-----------------------------------------------------------------------------
(* Sets of numbers.                                                         *)

(* A set of numbers that is not empty has a least one.                      *)
LEMMA LeastOf ==
    ASSUME NEW S \in SUBSET Nat, S # {}
    PROVE  Min(S) \in S /\ \A y \in S : Min(S) <= y
<1>1. PICK x \in S : \A y \in S : ~ (<<y, x>> \in OpToRel(<, Nat))
  BY NatLessThanWellFounded, WFMin, Zenon
<1>2. ASSUME NEW y \in S PROVE x <= y
  <2>1. ~ (y < x)
    <3> SUFFICES ASSUME y < x PROVE <<y, x>> \in OpToRel(<, Nat)
      BY <1>1
    <3>1. <<y, x>> \in Nat \X Nat /\ <<y, x>>[1] = y /\ <<y, x>>[2] = x
      OBVIOUS
    <3> QED  BY <3>1, Zenon DEF OpToRel
  <2> QED  BY <2>1
<1> QED  BY <1>1, <1>2 DEF Min

(* A finite one has a greatest: the one with the fewest above it.           *)
LEMMA GreatestOf ==
    ASSUME NEW S \in SUBSET Nat, S # {}, IsFiniteSet(S)
    PROVE  Max(S) \in S /\ \A y \in S : y <= Max(S)
<1>1. PICK above : above = [x \in S |-> {y \in S : y > x}]
  OBVIOUS
<1>2. \A x \in S : above[x] = {y \in S : y > x}
  BY <1>1
<1>3. \A x \in S : IsFiniteSet(above[x]) /\ Cardinality(above[x]) \in Nat
  <2>1. \A x \in S : above[x] \subseteq S
    BY <1>2
  <2> QED  BY <2>1, FS_Subset, FS_CardinalityType
<1>4. PICK counts : counts = {Cardinality(above[x]) : x \in S}
  OBVIOUS
<1>5. counts \in SUBSET Nat /\ counts # {}
  BY <1>3, <1>4
<1>6. Min(counts) \in counts /\ \A k \in counts : Min(counts) <= k
  BY <1>5, LeastOf
<1>7. PICK x \in S : Cardinality(above[x]) = Min(counts)
  BY <1>4, <1>6
<1>8. ASSUME NEW y \in S PROVE y <= x
  <2> SUFFICES ASSUME y > x PROVE FALSE
    BY <1>7
  <2>1. ASSUME NEW z \in above[y] PROVE z \in above[x]
    <3>1. z \in S /\ z > y /\ {x, y, z} \subseteq Nat
      BY <1>2, <2>1
    <3>2. z > x
      BY <3>1
    <3> QED  BY <1>2, <3>1, <3>2
  <2>2. y \in above[x] /\ y \notin above[y]
    <3>1. y \in Nat /\ ~ (y > y)
      OBVIOUS
    <3>2. above[x] = {z \in S : z > x} /\ above[y] = {z \in S : z > y}
      BY <1>2
    <3> QED  BY <3>1, <3>2
  <2>3. Cardinality(above[y]) <= Cardinality(above[x]) /\ Cardinality(above[y]) # Cardinality(above[x])
    BY <1>3, <2>1, <2>2, FS_Subset
  <2>4. Min(counts) <= Cardinality(above[y])
    BY <1>4, <1>6
  <2>5. PICK n, m \in Nat : n = Cardinality(above[x]) /\ m = Cardinality(above[y])
    BY <1>3
  <2>6. n = Min(counts) /\ m <= n /\ m # n /\ n <= m
    BY <1>7, <2>3, <2>4, <2>5, Zenon
  <2> QED  BY <2>6
<1> QED  BY <1>8 DEF Max

(* What a function takes a finite set to is finite.                         *)
LEMMA ImageOf ==
    ASSUME NEW S, IsFiniteSet(S), NEW f, f = [x \in S |-> f[x]]
    PROVE  IsFiniteSet({f[x] : x \in S})
<1>1. f \in Surjection(S, {f[x] : x \in S})
  BY DEF Surjection
<1> QED  BY <1>1, FS_Surjection

-----------------------------------------------------------------------------
(* The states half of a tick.                                               *)

ServerRow == [v : Versions, id : Nat, mark : Nat, ours : BOOLEAN]
OwnRow == [v : Versions, id : Nat, mark : Nat]
Run == [at : {"rest", "list", "slot", "post", "fetch", "backup", "compare", "commit", "record", "end"},
        scan : [Slots -> Versions], list : [Names -> ServerRow], todo : SUBSET Slots,
        slot : Slots, name : Names, got : Versions, copied : Versions,
        left : 0 .. kMaxStatePlacements, touched : SUBSET Names]

(* The slots are finitely many, and each has a name.                        *)
LEMMA SlotFacts ==
    /\ IsFiniteSet(Slots) /\ Names = 0 .. LastSlot + 1 /\ Slots \subseteq Names
    /\ 0 \in Slots /\ 0 \in Versions /\ Versions \subseteq Nat /\ IsFiniteSet(Names)
    /\ mapped \in BOOLEAN =>
         /\ \A s \in Slots : NameOf(s) \in Names
         /\ \A s, t \in Slots : NameOf(s) = NameOf(t) => s = t
<1>1. IsFiniteSet(Slots) /\ Cardinality(Slots) = LastSlot + 1
  BY StateSyncAssumption, FS_Interval DEF Slots
<1>2. Names = 0 .. LastSlot + 1
  BY <1>1 DEF Names
<1>3. Slots \subseteq Names /\ 0 \in Slots /\ 0 \in Versions /\ Versions \subseteq Nat
  BY <1>2, StateSyncAssumption DEF Slots, Versions
<1>4. IsFiniteSet(Names)
  BY <1>2, StateSyncAssumption, FS_Interval
<1>5. mapped \in BOOLEAN => \A s \in Slots : NameOf(s) \in Names
  BY <1>2, StateSyncAssumption DEF NameOf, Slots
<1>6. mapped \in BOOLEAN => \A s, t \in Slots : NameOf(s) = NameOf(t) => s = t
  BY StateSyncAssumption DEF NameOf, Slots
<1> QED  BY <1>1, <1>2, <1>3, <1>4, <1>5, <1>6

StatesTyped ==
    /\ slots \in [Slots -> Versions] /\ backed \subseteq Versions
    /\ had \subseteq Versions /\ blurred \subseteq Versions /\ unlisted \subseteq Versions
    /\ raced \in Versions
    /\ romm \in [Names -> ServerRow] /\ rows \in [Names -> OwnRow] /\ stateDb \in [Names -> OwnRow]
    /\ mapped \in BOOLEAN /\ run \in Run
    /\ writes \in 0 .. MaxWrites /\ mishaps \in 0 .. MaxMishaps

(* A mark is after every one there is.                                      *)
LEMMA LatestIsLater ==
    ASSUME StatesTyped
    PROVE  /\ Latest \in Nat
           /\ \A n \in Names : /\ romm[n].mark < Latest /\ rows[n].mark < Latest
                                 /\ stateDb[n].mark < Latest /\ run.list[n].mark < Latest
<1>1. PICK f : f = [n \in Names |-> {romm[n].mark, rows[n].mark, stateDb[n].mark, run.list[n].mark}]
  OBVIOUS
<1>2. \A n \in Names : f[n] = {romm[n].mark, rows[n].mark, stateDb[n].mark, run.list[n].mark}
  BY <1>1
<1>3. IsFiniteSet({f[n] : n \in Names})
  <2>1. f = [n \in Names |-> f[n]] /\ IsFiniteSet(Names)
    BY <1>1, SlotFacts
  <2> QED  BY <2>1, ImageOf
<1>4. ASSUME NEW T \in {f[n] : n \in Names} PROVE IsFiniteSet(T)
  <2>1. PICK n \in Names : T = (({romm[n].mark} \cup {rows[n].mark}) \cup {stateDb[n].mark}) \cup {run.list[n].mark}
    BY <1>2, <1>4
  <2> QED  BY <2>1, FS_Singleton, FS_Union
<1>5. Marks = {0} \cup UNION {f[n] : n \in Names}
  BY <1>2 DEF Marks
<1>6. IsFiniteSet(Marks)
  BY <1>3, <1>4, <1>5, FS_UNION, FS_Singleton, FS_Union
<1>7. \A n \in Names : /\ {romm[n].mark, rows[n].mark, stateDb[n].mark, run.list[n].mark} \subseteq Nat
                       /\ {romm[n].mark, rows[n].mark, stateDb[n].mark, run.list[n].mark} \subseteq Marks
  <2>1. \A n \in Names : /\ romm[n] \in ServerRow /\ rows[n] \in OwnRow /\ stateDb[n] \in OwnRow
                         /\ run.list[n] \in ServerRow
    BY DEF StatesTyped, Run
  <2> QED  BY <2>1 DEF Marks, ServerRow, OwnRow
<1>8. Marks \subseteq Nat /\ Marks # {}
  BY <1>7 DEF Marks
<1>9. Max(Marks) \in Nat /\ \A m \in Marks : m <= Max(Marks)
  BY <1>6, <1>8, GreatestOf
<1> QED  BY <1>7, <1>9 DEF Latest

-----------------------------------------------------------------------------
(* Its invariant.  A state of the server's is known when this console held  *)
(* it, or when nothing the server says could tell it from one it held.      *)

Known(v) == v \in had \cup blurred

Listed == run.at \in {"slot", "post", "fetch", "backup", "compare", "commit", "record"}
Busied == run.at \in {"post", "fetch", "backup", "compare", "commit", "record"}

SameRow(row, server) == row.id = server.id /\ row.mark = server.mark

\* A row of either baseline that still describes the server's describes a state
\* this console knows, and so does no row.
RowsAreKnown ==
    \A n \in Names :
        \/ romm[n].mark = 0 \/ SameRow(rows[n], romm[n]) \/ SameRow(stateDb[n], romm[n])
        => Known(romm[n].v)

\* What has changed at the server since the listing is known or another client's of
\* since then, and what a row describes of a listed state this run has not come to
\* is known.
ListIsKnown ==
    Listed => /\ \A n \in Names : romm[n] = run.list[n] \/ Known(romm[n].v) \/ romm[n].v \in unlisted
              /\ \A s \in run.todo : SameRow(rows[NameOf(s)], run.list[NameOf(s)])
                                        => Known(run.list[NameOf(s)].v)

\* The slot being dealt with, by how far it is.
SlotIsKnown ==
    /\ Busied => run.name = NameOf(run.slot)
    /\ run.at = "post" => Known(run.list[run.name].v)
    /\ run.at \in {"backup", "compare", "commit", "record"} =>
          \/ romm[run.name].v = run.got
          \/ Known(romm[run.name].v)
          \/ ~SameRow(run.list[run.name], romm[run.name])
    /\ run.at = "record" => run.got \in had
    /\ run.at \in {"compare", "commit"} => run.copied = 0 \/ run.copied \in backed
    /\ run.at = "commit" => slots[run.slot] \in {run.copied, raced}

StateInv == StatesTyped /\ 0 \in had /\ RowsAreKnown /\ ListIsKnown /\ SlotIsKnown

(* A run that starts, and one that is over.                                 *)
LEMMA RestIsRun == Rest \in Run /\ Rest.at = "rest"
<1>1. NoState \in ServerRow
  BY SlotFacts DEF NoState, ServerRow
<1>2. /\ [s \in Slots |-> 0] \in [Slots -> Versions] /\ [n \in Names |-> NoState] \in [Names -> ServerRow]
      /\ 0 \in Slots /\ 0 \in Names /\ 0 \in Versions /\ 0 \in 0 .. kMaxStatePlacements
  BY <1>1, SlotFacts, StateSyncAssumption
<1> QED  BY <1>2 DEF Rest, Run

(* The console starts with nothing on either side.                          *)
LEMMA StateInvInit == StateInit => StateInv
<1> SUFFICES ASSUME StateInit PROVE StateInv
  OBVIOUS
<1>1. NoState \in ServerRow /\ NoRow \in OwnRow /\ 0 \in Versions
  BY SlotFacts DEF NoState, ServerRow, NoRow, OwnRow
<1>2. /\ slots \in [Slots -> Versions] /\ romm \in [Names -> ServerRow] /\ rows \in [Names -> OwnRow]
      /\ stateDb = rows /\ run \in Run /\ had \subseteq Versions
  BY <1>1, RestIsRun DEF StateInit
<1>5. StatesTyped
  <2>3. mapped \in BOOLEAN
    BY Zenon DEF StateInit
  <2>1. mapped \in BOOLEAN /\ writes \in 0 .. MaxWrites /\ mishaps \in 0 .. MaxMishaps
    BY <2>3, StateSyncAssumption DEF StateInit
  <2>2. backed \subseteq Versions /\ blurred \subseteq Versions /\ unlisted \subseteq Versions /\ raced \in Versions
    BY <1>1 DEF StateInit
  <2> QED  BY <1>2, <2>1, <2>2 DEF StatesTyped
<1>3. RowsAreKnown
  BY DEF StateInit, RowsAreKnown, NoState, Known
<1>4. ListIsKnown /\ SlotIsKnown
  BY RestIsRun DEF StateInit, ListIsKnown, SlotIsKnown, Listed, Busied
<1> QED  BY <1>3, <1>4, <1>5 DEF StateInit, StateInv

(* The run as a record, and what moving on to the next slot leaves of it.   *)
LEMMA RunFields ==
    ASSUME run \in Run
    PROVE  /\ run.scan \in [Slots -> Versions] /\ run.list \in [Names -> ServerRow]
           /\ run.todo \subseteq Slots /\ run.slot \in Slots /\ run.name \in Names
           /\ run.got \in Versions /\ run.copied \in Versions /\ run.left \in 0 .. kMaxStatePlacements
           /\ run.touched \subseteq Names
BY DEF Run

LEMMA MovesOn ==
    ASSUME run \in Run, NEW touched \in SUBSET Names, Next1(touched)
    PROVE  /\ run' \in Run /\ run'.at = "slot" /\ run'.list = run.list
           /\ run'.todo = run.todo \ {run.slot} /\ run'.scan = run.scan
BY RunFields DEF Next1, Run

LEMMA RunStopped ==
    ASSUME run \in Run, NEW touched \in SUBSET Names, RunStops(touched)
    PROVE  run' \in Run /\ run'.at = "end"
BY RunFields DEF RunStops, Run

(* A finite set of slots has a first one.                                   *)
LEMMA FirstSlot ==
    ASSUME run \in Run, run.todo # {}
    PROVE  Min(run.todo) \in run.todo
<1>1. run.todo \in SUBSET Nat
  BY RunFields, SlotFacts, StateSyncAssumption DEF Slots
<1> QED  BY <1>1, LeastOf

(* The name PlaceNext takes is one, and its slot has it.                    *)
LEMMA FreeName ==
    ASSUME run \in Run,
           NEW free, free = {n \in Unclaimed : run.list[n].ours /\ \E s \in SlotOf(n) : slots[s] = 0},
           free # {}, NEW slot, slot = CHOOSE s \in SlotOf(Min(free)) : TRUE
    PROVE  Min(free) \in Names /\ slot \in Slots /\ Min(free) = NameOf(slot)
<1>1. free \in SUBSET Nat /\ free \subseteq Names
  BY SlotFacts, StateSyncAssumption DEF Unclaimed
<1>2. Min(free) \in free
  BY <1>1, LeastOf
<1>3. SlotOf(Min(free)) # {}
  BY <1>2
<1>4. slot \in SlotOf(Min(free))
  BY <1>3
<1> QED  BY <1>1, <1>2, <1>4 DEF SlotOf

(* Every step keeps the types.                                              *)
LEMMA StatesTypedStep ==
    ASSUME StatesTyped, StateNext
    PROVE  StatesTyped'
<1> USE DEF StatesTyped
<1>0. /\ run \in Run /\ 0 \in Versions /\ \A s \in Slots : NameOf(s) \in Names
      /\ Versions \subseteq Nat
  BY SlotFacts
<1>1. CASE ScanStates
  <2>1. [Rest EXCEPT !.at = "list", !.scan = slots, !.todo = {s \in Slots : slots[s] # 0},
                           !.left = kMaxStatePlacements] \in Run
    <3>1. PICK r \in Run : r = Rest
      BY RestIsRun
    <3>2. {s \in Slots : slots[s] # 0} \in SUBSET Slots /\ kMaxStatePlacements \in 0 .. kMaxStatePlacements
      BY StateSyncAssumption
    <3>3. [r EXCEPT !.at = "list", !.scan = slots, !.todo = {s \in Slots : slots[s] # 0},
                    !.left = kMaxStatePlacements] \in Run
      BY <3>2 DEF Run
    <3> QED  BY <3>1, <3>3
  <2> QED  BY <1>1, <2>1 DEF ScanStates, Elsewhere
<1>2. CASE ListServerStates
  <2>1. run' \in Run
    <3>1. CASE run' = [run EXCEPT !.at = "slot", !.list = romm]
      BY <1>0, <3>1 DEF Run
    <3>2. CASE RunStops({})
      BY <1>0, <3>2, RunStopped
    <3> QED  BY <1>2, <3>1, <3>2 DEF ListServerStates
  <2>2. mishaps' \in 0 .. MaxMishaps
    BY <1>2, StateSyncAssumption DEF ListServerStates, Fault
  <2> QED  BY <1>2, <2>1, <2>2 DEF ListServerStates, Elsewhere
<1>3. CASE Consider
  <2>1. PICK slot : slot = Min(run.todo)
    OBVIOUS
  <2>2. slot \in Slots /\ NameOf(slot) \in Names
    BY <1>0, <1>3, <2>1, FirstSlot, RunFields DEF Consider
  <2>3. PICK action : action = ActionFor(slot)
    OBVIOUS
  <2>4. \/ run' = [run EXCEPT !.at = "post", !.slot = slot, !.name = NameOf(slot)]
        \/ run' = [run EXCEPT !.at = "fetch", !.slot = slot, !.name = NameOf(slot)]
        \/ run' = [run EXCEPT !.todo = @ \ {slot}, !.touched = @ \cup {NameOf(slot)}]
    BY <1>3, <2>1, <2>3 DEF Consider
  <2>5. run' \in Run
    <3>1. CASE run' = [run EXCEPT !.at = "post", !.slot = slot, !.name = NameOf(slot)]
      BY <1>0, <2>2, <3>1 DEF Run
    <3>2. CASE run' = [run EXCEPT !.at = "fetch", !.slot = slot, !.name = NameOf(slot)]
      BY <1>0, <2>2, <3>2 DEF Run
    <3>3. CASE run' = [run EXCEPT !.todo = @ \ {slot}, !.touched = @ \cup {NameOf(slot)}]
      BY <1>0, <2>2, <3>3 DEF Run
    <3> QED  BY <2>4, <3>1, <3>2, <3>3
  <2> QED  BY <1>3, <2>5 DEF Consider, Elsewhere
<1>4. CASE Upload
  <2>1. run' \in Run
    <3>1. Next1({run.name}) \/ RunStops({run.name})
      BY <1>4 DEF Upload, RequestFails
    <3>2. CASE Next1({run.name})
      BY <1>0, <3>2, MovesOn, RunFields
    <3>3. CASE RunStops({run.name})
      BY <1>0, <3>3, RunStopped, RunFields
    <3> QED  BY <3>1, <3>2, <3>3
  <2>2. slots[run.slot] \in Versions /\ run.scan[run.slot] \in Versions /\ run.name \in Names
    BY <1>0, RunFields
  <2>3. mishaps' \in 0 .. MaxMishaps
    <3>1. UNCHANGED mishaps \/ Fault
      BY <1>4, Zenon DEF Upload, RequestFails
    <3> QED  BY <3>1, StateSyncAssumption DEF Fault
  <2>4. romm' \in [Names -> ServerRow]
    <3>1. UNCHANGED romm \/ Upsert(slots[run.slot], TRUE, Latest)
      BY <1>4 DEF Upload
    <3>2. CASE Upsert(slots[run.slot], TRUE, Latest)
      <4>1. PICK id : id = IF romm[run.name] = NoState THEN Latest ELSE romm[run.name].id
        OBVIOUS
      <4>2. id \in Nat
        BY <2>2, <4>1, LatestIsLater DEF ServerRow
      <4>3. romm' = [romm EXCEPT ![run.name] = [v |-> slots[run.slot], ours |-> TRUE, mark |-> Latest, id |-> id]]
        BY <2>2, <3>2, <4>1 DEF Upsert
      <4>4. [v |-> slots[run.slot], ours |-> TRUE, mark |-> Latest, id |-> id] \in ServerRow
        BY <2>2, <4>2, LatestIsLater DEF ServerRow
      <4> QED  BY <4>3, <4>4
    <3> QED  BY <3>1, <3>2
  <2>5. rows' \in [Names -> OwnRow]
    <3>1. \/ UNCHANGED rows
          \/ rows' = [rows EXCEPT ![run.name] = [v |-> run.scan[run.slot], id |-> romm'[run.name].id, mark |-> Latest]]
      BY <1>4 DEF Upload
    <3>2. romm'[run.name].id \in Nat
      BY <2>2, <2>4 DEF ServerRow
    <3>3. [v |-> run.scan[run.slot], id |-> romm'[run.name].id, mark |-> Latest] \in OwnRow
      BY <2>2, <3>2, LatestIsLater DEF OwnRow
    <3> QED  BY <3>1, <3>3
  <2>6. had' \subseteq Versions
    BY <1>4, <2>2 DEF Upload
  <2> QED  BY <1>4, <2>1, <2>3, <2>4, <2>5, <2>6 DEF Upload, Elsewhere
<1>5. CASE PlaceNext
  <2>1. PICK free : free = {n \in Unclaimed : run.list[n].ours /\ \E s \in SlotOf(n) : slots[s] = 0}
    OBVIOUS
  <2>2. PICK slot : slot = CHOOSE s \in SlotOf(Min(free)) : TRUE
    OBVIOUS
  <2>3. \/ /\ free # {} /\ run.left > 0
           /\ run' = [run EXCEPT !.at = "fetch", !.name = Min(free), !.left = @ - 1, !.slot = slot]
        \/ RunStops(Unclaimed)
    BY <1>5, <2>1, <2>2 DEF PlaceNext
  <2>4. Unclaimed \subseteq Names
    BY DEF Unclaimed
  <2>5. CASE free # {} /\ run.left > 0 /\ run' = [run EXCEPT !.at = "fetch", !.name = Min(free), !.left = @ - 1, !.slot = slot]
    <3>1. Min(free) \in Names /\ slot \in Slots
      BY <1>0, <2>1, <2>2, <2>5, FreeName, ZenonT(30)
    <3>2. run.left - 1 \in 0 .. kMaxStatePlacements
      BY <1>0, <2>5, RunFields, StateSyncAssumption
    <3>3. run' \in Run
      BY <1>0, <2>5, <3>1, <3>2 DEF Run
    <3> QED  BY <1>5, <3>3 DEF PlaceNext, Elsewhere
  <2>6. CASE RunStops(Unclaimed)
    <3>1. run' \in Run
      BY <1>0, <2>4, <2>6, RunStopped
    <3> QED  BY <1>5, <3>1 DEF PlaceNext, Elsewhere
  <2> QED  BY <2>3, <2>5, <2>6
<1>6. CASE Fetch
  <2>1. romm[run.name].v \in Versions
    BY <1>0, RunFields DEF ServerRow
  <2>2. run' \in Run
    <3>1. \/ Next1({run.name}) \/ RunStops({run.name})
          \/ run' = [run EXCEPT !.at = "backup", !.got = romm[run.name].v]
      BY <1>6 DEF Fetch, RequestFails
    <3>2. CASE Next1({run.name})
      BY <1>0, <3>2, MovesOn, RunFields
    <3>3. CASE run' = [run EXCEPT !.at = "backup", !.got = romm[run.name].v]
      BY <1>0, <2>1, <3>3 DEF Run
    <3>4. CASE RunStops({run.name})
      BY <1>0, <3>4, RunStopped, RunFields
    <3> QED  BY <3>1, <3>2, <3>3, <3>4
  <2>3. mishaps' \in 0 .. MaxMishaps
    <3>1. UNCHANGED mishaps \/ Fault
      BY <1>6, Zenon DEF Fetch, RequestFails
    <3> QED  BY <3>1, StateSyncAssumption DEF Fault
  <2> QED  BY <1>6, <2>2, <2>3 DEF Fetch, Elsewhere
<1>7. CASE BackUpFirst
  <2>1. slots[run.slot] \in Versions
    BY <1>0, RunFields
  <2>2. run' \in Run
    <3>1. Next1({run.name}) \/ run' = [run EXCEPT !.at = "compare", !.copied = slots[run.slot]]
      BY <1>7 DEF BackUpFirst
    <3>2. CASE Next1({run.name})
      BY <1>0, <3>2, MovesOn, RunFields
    <3>3. CASE run' = [run EXCEPT !.at = "compare", !.copied = slots[run.slot]]
      BY <1>0, <2>1, <3>3 DEF Run
    <3> QED  BY <3>1, <3>2, <3>3
  <2>3. mishaps' \in 0 .. MaxMishaps /\ backed' \subseteq Versions
    BY <1>7, <2>1, StateSyncAssumption DEF BackUpFirst, Fault
  <2> QED  BY <1>7, <2>2, <2>3 DEF BackUpFirst, Elsewhere
<1>8. CASE CommitStaged
  <2>1. run' \in Run
    <3>1. Next1({run.name}) \/ run' = [run EXCEPT !.at = "record"]
      BY <1>8 DEF CommitStaged
    <3>2. CASE Next1({run.name})
      BY <1>0, <3>2, MovesOn, RunFields
    <3>3. CASE run' = [run EXCEPT !.at = "record"]
      BY <1>0, <3>3 DEF Run
    <3> QED  BY <3>1, <3>2, <3>3
  <2>2. slots' \in [Slots -> Versions] /\ had' \subseteq Versions
    BY <1>0, <1>8, RunFields DEF CommitStaged
  <2>3. mishaps' \in 0 .. MaxMishaps
    BY <1>8, StateSyncAssumption DEF CommitStaged, Fault
  <2> QED  BY <1>8, <2>1, <2>2, <2>3 DEF CommitStaged, Elsewhere
<1>9. CASE AdvanceWritten
  <2>1. run' \in Run
    BY <1>0, <1>9, MovesOn, RunFields DEF AdvanceWritten
  <2>2. run.list[run.name] \in ServerRow /\ slots[run.slot] \in Versions
    BY <1>0, RunFields
  <2>3. /\ [v |-> slots[run.slot], id |-> run.list[run.name].id, mark |-> run.list[run.name].mark] \in OwnRow
        /\ NoRow \in OwnRow
    BY <1>0, <2>2 DEF OwnRow, ServerRow, NoRow
  <2>4. rows' \in [Names -> OwnRow]
    BY <1>9, <2>3 DEF AdvanceWritten
  <2>5. mishaps' \in 0 .. MaxMishaps
    BY <1>9, StateSyncAssumption DEF AdvanceWritten, Fault
  <2> QED  BY <1>9, <2>1, <2>4, <2>5 DEF AdvanceWritten, Elsewhere
<1>10. CASE EndRun
  <2>1. NoRow \in OwnRow
    BY <1>0 DEF OwnRow, NoRow
  <2>2. PICK gone : rows' = [n \in Names |-> IF n \in gone THEN NoRow ELSE rows[n]]
    BY <1>10 DEF EndRun, TrimStates
  <2>3. rows' \in [Names -> OwnRow]
    BY <2>1, <2>2
  <2>4. stateDb' \in [Names -> OwnRow] /\ mishaps' \in 0 .. MaxMishaps /\ run' \in Run
    BY <1>10, <2>3, RestIsRun, StateSyncAssumption DEF EndRun, Fault
  <2> QED  BY <1>10, <2>3, <2>4 DEF EndRun, Elsewhere
<1>11. CASE GameWrites
  <2>1. writes + 1 \in Versions /\ writes' \in 0 .. MaxWrites
    BY <1>11, StateSyncAssumption DEF GameWrites, Versions
  <2>2. PICK s \in Slots, v \in {0, writes + 1} : slots' = [slots EXCEPT ![s] = v] /\ had' = had \cup {v}
    BY <1>11 DEF GameWrites
  <2>3. slots' \in [Slots -> Versions] /\ had' \subseteq Versions
    BY <1>0, <2>1, <2>2
  <2>4. raced' \in Versions
    <3>1. raced' \in {0, writes + 1, raced}
      BY <1>11 DEF GameWrites
    <3> QED  BY <1>0, <2>1, <3>1
  <2> QED  BY <1>11, <2>1, <2>3, <2>4 DEF GameWrites
<1>12. CASE OtherPosts
  <2>1. writes + 1 \in Versions /\ writes' \in 0 .. MaxWrites
    BY <1>12, StateSyncAssumption DEF OtherPosts, Versions
  <2>2. PICK n \in Names, ours \in BOOLEAN, mark \in Nat :
          romm' = [romm EXCEPT ![n] = [v |-> writes + 1, ours |-> ours, mark |-> mark,
                                       id |-> IF romm[n] = NoState THEN mark ELSE romm[n].id]]
    <3>1. PICK n \in Names, ours \in BOOLEAN, same \in BOOLEAN :
            romm' = [romm EXCEPT ![n] = [v |-> writes + 1, ours |-> ours, mark |-> IF same THEN romm[n].mark ELSE Latest,
                                         id |-> IF romm[n] = NoState THEN IF same THEN romm[n].mark ELSE Latest ELSE romm[n].id]]
      BY <1>12 DEF OtherPosts
    <3>2. (IF same THEN romm[n].mark ELSE Latest) \in Nat
      BY <3>1, LatestIsLater DEF ServerRow
    <3> QED  BY <3>1, <3>2
  <2>3. [v |-> writes + 1, ours |-> ours, mark |-> mark,
         id |-> IF romm[n] = NoState THEN mark ELSE romm[n].id] \in ServerRow
    BY <2>1, <2>2 DEF ServerRow
  <2>4. romm' \in [Names -> ServerRow]
    BY <2>2, <2>3
  <2>5. blurred' \subseteq Versions /\ unlisted' \subseteq Versions
    BY <1>12, <2>1 DEF OtherPosts
  <2> QED  BY <1>12, <2>1, <2>4, <2>5 DEF OtherPosts
<1>13. CASE OtherDeletes
  <2>1. NoState \in ServerRow
    BY <1>0 DEF NoState, ServerRow
  <2>2. romm' \in [Names -> ServerRow] /\ writes' \in 0 .. MaxWrites
    BY <1>13, <2>1, StateSyncAssumption DEF OtherDeletes
  <2> QED  BY <1>13, <2>2 DEF OtherDeletes, ghosts
<1>14. CASE MapsSlots
  BY <1>14, StateSyncAssumption DEF MapsSlots, ghosts
<1>15. CASE PowerCutInRun
  BY <1>15, RestIsRun, StateSyncAssumption DEF PowerCutInRun, Fault, ghosts
<1>16. CASE Canceled
  <2>1. run' \in Run
    BY <1>0, <1>16, RunStopped DEF Canceled
  <2> QED  BY <1>16, <2>1, StateSyncAssumption DEF Canceled, Fault, Elsewhere
<1>17. CASE Compare
  <2>1. run' \in Run
    <3>1. Next1({run.name}) \/ run' = [run EXCEPT !.at = "commit"]
      BY <1>17 DEF Compare
    <3>2. CASE Next1({run.name})
      BY <1>0, <3>2, MovesOn, RunFields
    <3>3. CASE run' = [run EXCEPT !.at = "commit"]
      BY <1>0, <3>3 DEF Run
    <3> QED  BY <3>1, <3>2, <3>3
  <2>2. mishaps' \in 0 .. MaxMishaps
    BY <1>17, StateSyncAssumption DEF Compare, Fault
  <2> QED  BY <1>0, <1>17, <2>1, <2>2 DEF Compare, Elsewhere
<1> QED
  BY <1>1, <1>2, <1>3, <1>4, <1>5, <1>6, <1>7, <1>8, <1>9, <1>10, <1>11, <1>12, <1>13, <1>14, <1>15, <1>16, <1>17
  DEF StateNext, RunStep

(* Nothing that was held, blurred or backed up is forgotten.                *)
LEMMA NothingForgotten ==
    ASSUME StateNext
    PROVE  had \subseteq had' /\ blurred \subseteq blurred' /\ backed \subseteq backed'
<1>1. had \subseteq had'
  BY DEF StateNext, RunStep, ScanStates, ListServerStates, Canceled, Consider, Upload, PlaceNext, Fetch, BackUpFirst,
         Compare, CommitStaged, AdvanceWritten, EndRun, GameWrites, OtherPosts, OtherDeletes, MapsSlots, PowerCutInRun,
         ghosts
<1>2. blurred \subseteq blurred'
  BY DEF StateNext, RunStep, ScanStates, ListServerStates, Canceled, Consider, Upload, PlaceNext, Fetch, BackUpFirst,
         Compare, CommitStaged, AdvanceWritten, EndRun, GameWrites, OtherPosts, OtherDeletes, MapsSlots, PowerCutInRun,
         Elsewhere, ghosts
<1>3. backed \subseteq backed'
  BY DEF StateNext, RunStep, ScanStates, ListServerStates, Canceled, Consider, Upload, PlaceNext, Fetch, BackUpFirst,
         Compare, CommitStaged, AdvanceWritten, EndRun, GameWrites, OtherPosts, OtherDeletes, MapsSlots, PowerCutInRun,
         ghosts
<1> QED  BY <1>1, <1>2, <1>3

(* A POST puts a version the console holds under the run's name, with a mark *)
(* no row has.                                                              *)
LEMMA PostedIsKnown ==
    ASSUME StateInv, Upload
    PROVE  \/ UNCHANGED <<romm, rows>>
           \/ /\ romm'[run.name].v \in had'
              /\ \A n \in Names \ {run.name} : romm'[n] = romm[n] /\ rows'[n] = rows[n]
<1>1. romm \in [Names -> ServerRow] /\ rows \in [Names -> OwnRow] /\ run.name \in Names
  BY RunFields DEF StateInv, StatesTyped
<1>2. CASE UNCHANGED <<romm, rows>>
  BY <1>2
<1>3. CASE /\ Upsert(slots[run.slot], TRUE, Latest)
           /\ had' = had \cup {slots[run.slot]}
           /\ \/ rows' = [rows EXCEPT ![run.name] = [v |-> run.scan[run.slot], id |-> romm'[run.name].id,
                                                    mark |-> Latest]]
              \/ UNCHANGED rows
  <2>1. romm'[run.name].v = slots[run.slot] /\ \A n \in Names \ {run.name} : romm'[n] = romm[n]
    BY <1>1, <1>3 DEF Upsert
  <2>2. \A n \in Names \ {run.name} : rows'[n] = rows[n]
    BY <1>1, <1>3
  <2> QED  BY <1>3, <2>1, <2>2
<1> QED  BY <1>2, <1>3 DEF Upload

(* Every step keeps what a row describes known.                             *)
LEMMA RowsStayKnown ==
    ASSUME StateInv, StateNext
    PROVE  RowsAreKnown'
<1>0. /\ \A v : Known(v) => Known(v)'
      /\ romm \in [Names -> ServerRow] /\ rows \in [Names -> OwnRow] /\ stateDb \in [Names -> OwnRow]
      /\ run \in Run /\ run.name \in Names /\ 0 \in had /\ Known(0)'
  BY NothingForgotten, RunFields DEF StateInv, StatesTyped, Known
<1>1. CASE UNCHANGED <<romm, rows, stateDb>>
  BY <1>0, <1>1 DEF StateInv, RowsAreKnown
<1>2. CASE Upload
  <2>1. stateDb' = stateDb
    BY <1>2 DEF Upload
  <2>2. CASE UNCHANGED <<romm, rows>>
    BY <1>1, <2>1, <2>2
  <2>3. CASE /\ romm'[run.name].v \in had'
             /\ \A n \in Names \ {run.name} : romm'[n] = romm[n] /\ rows'[n] = rows[n]
    BY <1>0, <2>1, <2>3 DEF StateInv, RowsAreKnown, Known
  <2> QED  BY <1>2, <2>2, <2>3, PostedIsKnown
<1>3. CASE AdvanceWritten
  <2>1. Known(romm[run.name].v) \/ ~SameRow(run.list[run.name], romm[run.name])
    BY <1>3 DEF StateInv, SlotIsKnown, AdvanceWritten, Known
  <2>2. romm' = romm /\ stateDb' = stateDb /\ \A n \in Names \ {run.name} : rows'[n] = rows[n]
    BY <1>0, <1>3 DEF AdvanceWritten
  <2>3. SameRow(rows'[run.name], romm[run.name])
          => SameRow(run.list[run.name], romm[run.name]) \/ romm[run.name].mark = 0
    BY <1>0, <1>3 DEF AdvanceWritten, SameRow, NoRow
  <2>4. \A n \in Names : SameRow(rows'[n], romm[n]) => Known(romm[n].v)
    BY <1>0, <2>1, <2>2, <2>3 DEF StateInv, RowsAreKnown
  <2> QED  BY <1>0, <2>2, <2>4 DEF StateInv, RowsAreKnown
<1>4. CASE EndRun
  <2>1. PICK gone : rows' = [n \in Names |-> IF n \in gone THEN NoRow ELSE rows[n]]
    BY <1>4 DEF EndRun, TrimStates
  <2>2. romm' = romm /\ (stateDb' = rows' \/ stateDb' = stateDb)
    BY <1>4 DEF EndRun
  <2>3. \A n \in Names : rows'[n] = NoRow \/ rows'[n] = rows[n]
    BY <2>1
  <2>4. ASSUME NEW n \in Names PROVE SameRow(NoRow, romm[n]) => romm[n].mark = 0
    BY DEF SameRow, NoRow
  <2> QED  BY <1>0, <2>2, <2>3, <2>4 DEF StateInv, RowsAreKnown
<1>5. CASE OtherPosts
  <2>1. PICK n \in Names, same \in BOOLEAN, id \in Nat, mark \in Nat :
          /\ mark = IF same THEN romm[n].mark ELSE Latest
          /\ \E ours \in BOOLEAN : romm' = [romm EXCEPT ![n] = [v |-> writes + 1, ours |-> ours, mark |-> mark, id |-> id]]
          /\ same => writes + 1 \in blurred'
    <3>1. PICK n \in Names, ours \in BOOLEAN, same \in BOOLEAN :
            /\ romm' = [romm EXCEPT ![n] = [v |-> writes + 1, ours |-> ours, mark |-> IF same THEN romm[n].mark ELSE Latest,
                                            id |-> IF romm[n] = NoState THEN IF same THEN romm[n].mark ELSE Latest ELSE romm[n].id]]
            /\ blurred' = IF same THEN blurred \cup {writes + 1} ELSE blurred
      BY <1>5 DEF OtherPosts
    <3>2. PICK id : id = IF romm[n] = NoState THEN IF same THEN romm[n].mark ELSE Latest ELSE romm[n].id
      OBVIOUS
    <3>3. id \in Nat /\ (IF same THEN romm[n].mark ELSE Latest) \in Nat
      BY <1>0, <3>2, LatestIsLater DEF StateInv, ServerRow
    <3> QED  BY <3>1, <3>2, <3>3
  <2>2. UNCHANGED <<rows, stateDb>> /\ \A m \in Names \ {n} : romm'[m] = romm[m]
    BY <1>0, <1>5, <2>1 DEF OtherPosts
  <2>3. romm'[n].v = writes + 1 /\ romm'[n].mark = mark
    BY <1>0, <2>1
  <2>4. CASE same
    BY <1>0, <2>1, <2>2, <2>3, <2>4 DEF StateInv, RowsAreKnown, Known
  <2>5. CASE ~same
    <3>1. mark = Latest
      BY <2>1, <2>5
    <3>2. romm'[n].mark # 0 /\ ~SameRow(rows'[n], romm'[n]) /\ ~SameRow(stateDb'[n], romm'[n])
      BY <2>2, <2>3, <3>1, LatestIsLater, <1>0 DEF StateInv, SameRow, ServerRow, OwnRow
    <3> QED  BY <1>0, <2>2, <3>2 DEF StateInv, RowsAreKnown
  <2> QED  BY <2>4, <2>5
<1>6. CASE OtherDeletes
  <2>1. PICK n \in Names : romm' = [romm EXCEPT ![n] = NoState]
    BY <1>6 DEF OtherDeletes
  <2>2. UNCHANGED <<rows, stateDb>> /\ romm'[n].v = 0 /\ \A m \in Names \ {n} : romm'[m] = romm[m]
    BY <1>0, <1>6, <2>1 DEF OtherDeletes, NoState
  <2> QED  BY <1>0, <2>2 DEF StateInv, RowsAreKnown
<1>7. CASE PowerCutInRun
  BY <1>0, <1>7 DEF StateInv, RowsAreKnown, PowerCutInRun
<1>8. \/ UNCHANGED <<romm, rows, stateDb>>
      \/ Upload \/ AdvanceWritten \/ EndRun \/ OtherPosts \/ OtherDeletes \/ PowerCutInRun
  BY DEF StateNext, RunStep, ScanStates, ListServerStates, Canceled, Consider, PlaceNext, Fetch, BackUpFirst,
         Compare, CommitStaged, GameWrites, MapsSlots
<1> QED  BY <1>1, <1>2, <1>3, <1>4, <1>5, <1>6, <1>7, <1>8

(* What the other client writes while a run has its listing is another      *)
(* client's of since then, and in a second of its own or known.             *)
LEMMA OthersAreKnown ==
    ASSUME StateInv, OtherPosts \/ OtherDeletes
    PROVE  \E n \in Names :
             /\ \A m \in Names \ {n} : romm'[m] = romm[m]
             /\ romm'[n].v \in had' \cup blurred' \cup unlisted'
             /\ romm'[n].v \in had' \cup blurred' \/ ~SameRow(run.list[n], romm'[n])
<1>0. romm \in [Names -> ServerRow] /\ 0 \in had
  BY DEF StateInv, StatesTyped
<1>1. CASE OtherPosts
  <2>0. PICK n \in Names, same \in BOOLEAN :
          /\ \E ours, id : LET mark == IF same THEN romm[n].mark ELSE Latest IN
               romm' = [romm EXCEPT ![n] = [v |-> writes + 1, ours |-> ours, mark |-> mark, id |-> id]]
          /\ blurred' = IF same THEN blurred \cup {writes + 1} ELSE blurred
    BY <1>1 DEF OtherPosts
  <2>1. PICK mark :
          /\ \E ours, id : romm' = [romm EXCEPT ![n] =
                                       [v |-> writes + 1, ours |-> ours, mark |-> mark, id |-> id]]
          /\ mark = IF same THEN romm[n].mark ELSE Latest
    BY <2>0
  <2>2. writes + 1 \in unlisted'
    BY <1>1 DEF OtherPosts
  <2>3. romm'[n].v = writes + 1 /\ romm'[n].mark = mark /\ \A m \in Names \ {n} : romm'[m] = romm[m]
    BY <1>0, <2>1
  <2>4. CASE same
    BY <2>0, <2>2, <2>3, <2>4
  <2>5. CASE ~same
    <3>1. mark = Latest /\ Latest \in Nat /\ run.list[n].mark < Latest /\ run.list[n].mark \in Nat
      BY <2>1, <2>5, LatestIsLater DEF StateInv, StatesTyped, Run, ServerRow
    <3>2. ~SameRow(run.list[n], romm'[n])
      BY <2>3, <3>1 DEF SameRow
    <3> QED  BY <2>2, <2>3, <3>2
  <2> QED  BY <2>4, <2>5
<1>2. CASE OtherDeletes
  <2>1. PICK n \in Names : romm' = [romm EXCEPT ![n] = NoState]
    BY <1>2 DEF OtherDeletes
  <2>2. had' = had /\ NoState.v = 0
    BY <1>2 DEF OtherDeletes, NoState, ghosts
  <2> QED  BY <1>0, <2>1, <2>2
<1> QED  BY <1>1, <1>2

(* What the run came to next is the listing's, or the run is over.          *)
LEMMA RunGoesOn ==
    ASSUME StateInv, StateNext, Listed'
    PROVE  \/ ListServerStates
           \/ Listed /\ run'.list = run.list /\ run'.todo \subseteq run.todo /\ mapped' = mapped
<1>0. run \in Run /\ run.name \in Names
  BY RunFields DEF StateInv, StatesTyped
<1>1. CASE UNCHANGED run
  BY <1>1 DEF StateNext, RunStep, ScanStates, ListServerStates, Canceled, Consider, Upload, PlaceNext, Fetch,
         BackUpFirst, Compare, CommitStaged, AdvanceWritten, EndRun, GameWrites, OtherPosts, OtherDeletes, MapsSlots, PowerCutInRun,
         Listed, Elsewhere
<1>2. CASE Canceled \/ Upload \/ Fetch \/ BackUpFirst \/ Compare \/ CommitStaged \/ AdvanceWritten
  <2>1. Listed /\ mapped' = mapped
    BY <1>2 DEF Canceled, Upload, Fetch, BackUpFirst, Compare, CommitStaged, AdvanceWritten, Listed, Elsewhere
  <2>2. CASE Next1({run.name})
    BY <1>0, <2>1, <2>2, MovesOn
  <2>3. CASE ~Next1({run.name})
    <3>1. \/ RunStops({}) \/ RunStops({run.name})
          \/ run' = [run EXCEPT !.at = "backup", !.got = romm[run.name].v]
          \/ run' = [run EXCEPT !.at = "compare", !.copied = slots[run.slot]]
          \/ run' = [run EXCEPT !.at = "commit"]
          \/ run' = [run EXCEPT !.at = "record"]
      BY <1>2, <2>3 DEF Canceled, Upload, Fetch, BackUpFirst, Compare, CommitStaged, AdvanceWritten, RequestFails
    <3>2. ~RunStops({}) /\ ~RunStops({run.name})
      BY <1>0, RunStopped DEF Listed
    <3> QED  BY <1>0, <2>1, <3>1, <3>2 DEF Run
  <2> QED  BY <2>2, <2>3
<1>3. CASE Consider
  <2>1. PICK slot, action : /\ slot = Min(run.todo)
                           /\ \/ run' = [run EXCEPT !.at = "post", !.slot = slot, !.name = NameOf(slot)]
                              \/ run' = [run EXCEPT !.at = "fetch", !.slot = slot, !.name = NameOf(slot)]
                              \/ run' = [run EXCEPT !.todo = @ \ {slot}, !.touched = @ \cup {NameOf(slot)}]
    BY <1>3 DEF Consider
  <2> QED  BY <1>0, <1>3, <2>1 DEF Consider, Run, Listed, Elsewhere
<1>4. CASE PlaceNext
  <2>1. PICK slot, name, touched :
          \/ run' = [run EXCEPT !.at = "fetch", !.name = name, !.left = @ - 1, !.slot = slot]
          \/ run' = [run EXCEPT !.at = "end", !.touched = touched]
    BY <1>4 DEF PlaceNext, RunStops
  <2> QED  BY <1>0, <1>4, <2>1 DEF PlaceNext, Run, Listed, Elsewhere
<1>5. CASE EndRun \/ PowerCutInRun \/ ScanStates
  <2>1. run'.at \in {"rest", "list"}
    <3>1. CASE ScanStates
      <4>1. PICK r \in Run : r = Rest
        BY RestIsRun
      <4>2. run' = [r EXCEPT !.at = "list", !.scan = slots, !.todo = {s \in Slots : slots[s] # 0},
                             !.left = kMaxStatePlacements]
        BY <3>1, <4>1 DEF ScanStates
      <4> QED  BY <4>2 DEF Run
    <3>2. CASE EndRun \/ PowerCutInRun
      BY <3>2, RestIsRun DEF EndRun, PowerCutInRun
    <3> QED  BY <1>5, <3>1, <3>2
  <2> QED  BY <2>1 DEF Listed
<1> QED  BY <1>1, <1>2, <1>3, <1>4, <1>5 DEF StateNext, RunStep, GameWrites, OtherPosts, OtherDeletes, MapsSlots

(* Every step keeps what has changed since the listing known.               *)
LEMMA ListStaysKnown ==
    ASSUME StateInv, StateNext
    PROVE  ListIsKnown'
<1> SUFFICES ASSUME Listed' PROVE ListIsKnown'
  BY DEF ListIsKnown
<1>0. /\ \A v : Known(v) => Known(v)'
      /\ romm \in [Names -> ServerRow] /\ rows \in [Names -> OwnRow]
      /\ run \in Run /\ run.name \in Names /\ run.todo \subseteq Slots
      /\ \A s \in Slots : NameOf(s) \in Names
      /\ \A s, t \in Slots : NameOf(s) = NameOf(t) => s = t
  BY NothingForgotten, RunFields, SlotFacts DEF StateInv, StatesTyped, Known
<1>1. CASE ListServerStates
  <2>1. run' = [run EXCEPT !.at = "slot", !.list = romm] /\ UNCHANGED <<romm, rows, mapped>>
    <3>1. ~RunStops({})
      BY <1>0, RunStopped DEF Listed
    <3> QED  BY <1>1, <3>1 DEF ListServerStates, Elsewhere
  <2>2. run'.list = romm /\ run'.todo = run.todo
    BY <1>0, <2>1 DEF Run
  <2>3. \A s \in run.todo : NameOf(s)' = NameOf(s)
    BY <2>1 DEF NameOf
  <2> QED  BY <1>0, <2>1, <2>2, <2>3 DEF StateInv, RowsAreKnown, ListIsKnown
<1>2. CASE ~ListServerStates /\ Listed /\ run'.list = run.list /\ run'.todo \subseteq run.todo /\ mapped' = mapped
  <2>0. (\A s : NameOf(s)' = NameOf(s)) /\ unlisted \subseteq unlisted'
    <3>1. \A s : NameOf(s)' = NameOf(s)
      BY <1>2 DEF NameOf
    <3>2. unlisted \subseteq unlisted'
      BY <1>2 DEF StateNext, RunStep, ScanStates, Canceled, Consider, Upload, PlaceNext, Fetch, BackUpFirst, Compare,
             CommitStaged, AdvanceWritten, EndRun, GameWrites, OtherPosts, OtherDeletes, MapsSlots, PowerCutInRun,
             ghosts
    <3> QED  BY <3>1, <3>2
  <2>1. CASE UNCHANGED <<romm, rows>>
    BY <1>0, <1>2, <2>0, <2>1 DEF StateInv, ListIsKnown, Known
  <2>2. ASSUME /\ Upload \/ AdvanceWritten
               /\ \A n \in Names \ {run.name} : romm'[n] = romm[n] /\ rows'[n] = rows[n]
               /\ romm'[run.name] = romm[run.name] \/ romm'[run.name].v \in had' \cup blurred'
        PROVE  ListIsKnown'
    <3>1. run.name = NameOf(run.slot) /\ run.slot \in Slots
      BY <1>0, <2>2, RunFields DEF StateInv, SlotIsKnown, Busied, Upload, AdvanceWritten
    <3>2. run'.todo \subseteq run.todo \ {run.slot}
      <4>1. CASE Next1({run.name})
        BY <1>0, <4>1, MovesOn
      <4>2. CASE ~Next1({run.name})
        <5>1. RunStops({run.name})
          BY <2>2, <4>2 DEF Upload, AdvanceWritten, RequestFails
        <5> QED  BY <1>0, <5>1, RunStopped DEF Listed
      <4> QED  BY <4>1, <4>2
    <3>3. \A s \in run'.todo : NameOf(s) \in Names \ {run.name}
      BY <1>0, <3>1, <3>2
    <3> QED  BY <1>0, <1>2, <2>0, <2>2, <3>2, <3>3 DEF StateInv, ListIsKnown, Known
  <2>3. CASE Upload
    <3>1. CASE UNCHANGED <<romm, rows>>
      BY <2>1, <3>1
    <3>2. CASE ~UNCHANGED <<romm, rows>>
      <4>1. /\ romm'[run.name].v \in had'
            /\ \A n \in Names \ {run.name} : romm'[n] = romm[n] /\ rows'[n] = rows[n]
        BY <2>3, <3>2, PostedIsKnown
      <4> QED  BY <2>2, <2>3, <4>1 DEF Known
    <3> QED  BY <3>1, <3>2
  <2>4. CASE AdvanceWritten
    <3>1. romm' = romm /\ \A n \in Names \ {run.name} : rows'[n] = rows[n]
      BY <1>0, <2>4 DEF AdvanceWritten
    <3> QED  BY <2>2, <2>4, <3>1
  <2>5. CASE OtherPosts \/ OtherDeletes
    <3>1. PICK n \in Names : /\ \A m \in Names \ {n} : romm'[m] = romm[m]
                             /\ romm'[n].v \in had' \cup blurred' \cup unlisted'
      BY <1>2, <2>5, OthersAreKnown
    <3>2. rows' = rows
      BY <2>5 DEF OtherPosts, OtherDeletes
    <3> QED  BY <1>0, <1>2, <2>0, <3>1, <3>2 DEF StateInv, ListIsKnown, Known
  <2>6. CASE EndRun \/ PowerCutInRun
    BY <2>6, RestIsRun DEF EndRun, PowerCutInRun, Listed
  <2> QED
    BY <2>1, <2>3, <2>4, <2>5, <2>6, <1>2
    DEF StateNext, RunStep, ScanStates, ListServerStates, Canceled, Consider, PlaceNext, Fetch, BackUpFirst,
        Compare, CommitStaged, GameWrites, MapsSlots
<1> QED  BY <1>1, <1>2, RunGoesOn

(* What the arbitration answers, one case at a time.                        *)
LEMMA DecideCases ==
    ASSUME NEW row, NEW server, NEW version
    PROVE  /\ Decide(row, server, version) \in Actions
           /\ Decide(row, server, version) = "upload"
                => (row = NoRow /\ server = NoState) \/ server = NoState \/ ServerUnmoved(row, server)
<1>1. CASE row = NoRow
  <2>1. Decide(row, server, version) = IF server = NoState THEN "upload" ELSE "keep both"
    BY <1>1 DEF Decide
  <2> QED  BY <2>1, <1>1 DEF Actions
<1>2. CASE row # NoRow /\ server = NoState
  <2>1. Decide(row, server, version) = "upload"
    BY <1>2 DEF Decide
  <2> QED  BY <2>1, <1>2 DEF Actions
<1>3. CASE row # NoRow /\ server # NoState /\ server.id # row.id
  <2>1. Decide(row, server, version) = "keep both"
    BY <1>3 DEF Decide
  <2> QED  BY <2>1 DEF Actions
<1>4. CASE row # NoRow /\ server # NoState /\ server.id = row.id
  <2>1. PICK unmoved \in BOOLEAN : unmoved = ServerUnmoved(row, server)
    BY DEF ServerUnmoved
  <2>2. PICK same \in BOOLEAN : same = LocalUnmoved(row, version)
    BY DEF LocalUnmoved
  <2>3. Decide(row, server, version) =
          CASE ~~unmoved /\ ~~same -> "no op"
            [] ~~unmoved /\ ~same -> "upload"
            [] ~unmoved /\ ~~same -> IF server.ours THEN "download" ELSE "keep both"
            [] OTHER -> "keep both"
    BY <1>4, <2>1, <2>2 DEF Decide
  <2>4. CASE unmoved /\ same
    BY <2>3, <2>4 DEF Actions
  <2>5. CASE unmoved /\ ~same
    <3>1. Decide(row, server, version) = "upload"
      BY <2>3, <2>5
    <3> QED  BY <2>1, <2>5, <3>1 DEF Actions
  <2>6. CASE ~unmoved /\ same
    <3>1. Decide(row, server, version) = IF server.ours THEN "download" ELSE "keep both"
      BY <2>3, <2>6
    <3> QED  BY <3>1 DEF Actions
  <2>7. CASE ~unmoved /\ ~same
    <3>1. Decide(row, server, version) = "keep both"
      BY <2>3, <2>7
    <3> QED  BY <3>1 DEF Actions
  <2> QED  BY <2>4, <2>5, <2>6, <2>7
<1> QED  BY <1>1, <1>2, <1>3, <1>4

(* A state is uploaded over nothing, or over one this console knows.        *)
LEMMA UploadIsKnown ==
    ASSUME StateInv, Listed, NEW slot \in run.todo, ActionFor(slot) = "upload"
    PROVE  Known(run.list[NameOf(slot)].v)
<1>1. PICK row, server : row = rows[NameOf(slot)] /\ server = run.list[NameOf(slot)]
  OBVIOUS
<1>2. Decide(row, server, run.scan[slot]) = "upload"
  BY <1>1 DEF ActionFor
<1>3. server = NoState \/ ServerUnmoved(row, server)
  BY <1>2, DecideCases
<1>4. CASE server = NoState
  BY <1>1, <1>4 DEF StateInv, Known, NoState
<1>5. CASE ServerUnmoved(row, server)
  BY <1>1, <1>5 DEF StateInv, ListIsKnown, ServerUnmoved, SameRow
<1> QED  BY <1>3, <1>4, <1>5

(* Every step keeps what the run knows of its slot.                         *)
LEMMA SlotStaysKnown ==
    ASSUME StateInv, StateNext
    PROVE  SlotIsKnown'
<1> SUFFICES ASSUME Busied' PROVE SlotIsKnown'
  BY DEF SlotIsKnown, Busied
<1>0. /\ \A v : Known(v) => Known(v)'
      /\ had \subseteq had' /\ backed \subseteq backed'
      /\ romm \in [Names -> ServerRow] /\ slots \in [Slots -> Versions]
      /\ run \in Run /\ run.name \in Names /\ run.todo \subseteq Slots /\ run.slot \in Slots
  BY NothingForgotten, RunFields DEF StateInv, StatesTyped, Known
<1>1. ASSUME UNCHANGED <<run, romm, mapped>>,
             run.at = "commit" => slots'[run.slot] \in {slots[run.slot], raced'}
                                  /\ raced' \in {raced, slots'[run.slot]}
      PROVE  SlotIsKnown'
  <2>1. NameOf(run.slot)' = NameOf(run.slot)
    BY <1>1 DEF NameOf
  <2>2. run.at = "commit" => slots'[run.slot] \in {run.copied, raced'}
    BY <1>0, <1>1 DEF StateInv, SlotIsKnown
  <2> QED  BY <1>0, <1>1, <2>1, <2>2 DEF StateInv, SlotIsKnown, Busied, SameRow
<1>2. CASE MapsSlots
  BY <1>2 DEF MapsSlots, Busied
<1>3. CASE OtherPosts \/ OtherDeletes
  <2>1. UNCHANGED <<run, mapped>> /\ Listed
    BY <1>3 DEF OtherPosts, OtherDeletes, Busied, Listed
  <2>2. PICK n \in Names : /\ \A m \in Names \ {n} : romm'[m] = romm[m]
                           /\ romm'[n].v \in had' \cup blurred' \/ ~SameRow(run.list[n], romm'[n])
    BY <1>3, <2>1, OthersAreKnown
  <2>3. NameOf(run.slot)' = NameOf(run.slot)
    BY <2>1 DEF NameOf
  <2>4. slots' = slots /\ raced' = raced
    BY <1>3 DEF OtherPosts, OtherDeletes, ghosts
  <2> QED  BY <1>0, <2>1, <2>2, <2>3, <2>4 DEF StateInv, SlotIsKnown, Busied, Known, SameRow
<1>4. CASE EndRun \/ PowerCutInRun \/ ScanStates
  <2>1. ~Listed'
    <3>1. CASE ScanStates
      <4>1. PICK r \in Run : r = Rest
        BY RestIsRun
      <4>2. run' = [r EXCEPT !.at = "list", !.scan = slots, !.todo = {s \in Slots : slots[s] # 0},
                             !.left = kMaxStatePlacements]
        BY <3>1, <4>1 DEF ScanStates
      <4> QED  BY <4>2 DEF Run, Listed
    <3>2. CASE EndRun \/ PowerCutInRun
      BY <3>2, RestIsRun DEF EndRun, PowerCutInRun, Listed
    <3> QED  BY <1>4, <3>1, <3>2
  <2> QED  BY <2>1 DEF Busied, Listed
<1>5. CASE ListServerStates \/ Canceled
  <2>1. run'.at \in {"slot", "end"}
    <3>1. CASE RunStops({})
      BY <1>0, <3>1, RunStopped
    <3>2. CASE run' = [run EXCEPT !.at = "slot", !.list = romm]
      BY <1>0, <3>2 DEF Run
    <3> QED  BY <1>5, <3>1, <3>2 DEF ListServerStates, Canceled
  <2> QED  BY <2>1 DEF Busied
<1>6. CASE Consider
  <2>1. PICK slot : slot = Min(run.todo)
    OBVIOUS
  <2>2. slot \in run.todo
    BY <1>0, <1>6, <2>1, FirstSlot DEF Consider
  <2>3. PICK action : action = ActionFor(slot)
    OBVIOUS
  <2>4. \/ action = "upload" /\ run' = [run EXCEPT !.at = "post", !.slot = slot, !.name = NameOf(slot)]
        \/ run' = [run EXCEPT !.at = "fetch", !.slot = slot, !.name = NameOf(slot)]
        \/ run' = [run EXCEPT !.todo = @ \ {slot}, !.touched = @ \cup {NameOf(slot)}]
    BY <1>6, <2>1, <2>3 DEF Consider
  <2>5. NameOf(slot)' = NameOf(slot)
    BY <1>6 DEF NameOf, Consider, Elsewhere
  <2>6. CASE action = "upload" /\ run' = [run EXCEPT !.at = "post", !.slot = slot, !.name = NameOf(slot)]
    <3>1. Known(run.list[NameOf(slot)].v)
      BY <1>6, <2>2, <2>3, <2>6, UploadIsKnown DEF Consider, Listed
    <3> QED  BY <1>0, <2>5, <2>6, <3>1 DEF Run, SlotIsKnown
  <2>7. CASE run' = [run EXCEPT !.at = "fetch", !.slot = slot, !.name = NameOf(slot)]
    BY <1>0, <2>5, <2>7 DEF Run, SlotIsKnown
  <2>8. CASE run' = [run EXCEPT !.todo = @ \ {slot}, !.touched = @ \cup {NameOf(slot)}]
    BY <1>0, <1>6, <2>8 DEF Run, Consider, Busied
  <2> QED  BY <2>4, <2>6, <2>7, <2>8
<1>7. CASE PlaceNext
  <2>1. PICK free : free = {n \in Unclaimed : run.list[n].ours /\ \E s \in SlotOf(n) : slots[s] = 0}
    OBVIOUS
  <2>2. PICK slot : slot = CHOOSE s \in SlotOf(Min(free)) : TRUE
    OBVIOUS
  <2>3. \/ /\ free # {} /\ run.left > 0
           /\ run' = [run EXCEPT !.at = "fetch", !.name = Min(free), !.left = @ - 1, !.slot = slot]
        \/ RunStops(Unclaimed)
    BY <1>7, <2>1, <2>2 DEF PlaceNext
  <2>4. CASE free # {} /\ run' = [run EXCEPT !.at = "fetch", !.name = Min(free), !.left = @ - 1, !.slot = slot]
    <3>1. Min(free) = NameOf(slot)
      BY <1>0, <2>1, <2>2, <2>4, FreeName
    <3>2. NameOf(slot)' = NameOf(slot)
      BY <1>7 DEF NameOf, PlaceNext, Elsewhere
    <3>3. run'.at = "fetch" /\ run'.name = Min(free) /\ run'.slot = slot
      BY <1>0, <2>4 DEF Run
    <3> QED  BY <3>1, <3>2, <3>3 DEF SlotIsKnown
  <2>5. CASE RunStops(Unclaimed)
    <3>1. Unclaimed \in SUBSET Names
      BY DEF Unclaimed
    <3> QED  BY <1>0, <2>5, <3>1, RunStopped DEF Busied
  <2> QED  BY <2>3, <2>4, <2>5
<1>8. CASE Upload \/ Fetch \/ BackUpFirst \/ Compare \/ CommitStaged \/ AdvanceWritten
  <2>1. ~Next1({run.name}) /\ ~RunStops({run.name})
    BY <1>0, MovesOn, RunStopped DEF Busied
  <2>2. run.name = NameOf(run.slot) /\ mapped' = mapped
    BY <1>8 DEF StateInv, SlotIsKnown, Busied, Upload, Fetch, BackUpFirst, Compare, CommitStaged, AdvanceWritten,
               Elsewhere
  <2>4. \A s : NameOf(s)' = NameOf(s)
    BY <2>2 DEF NameOf
  <2>5. ~Upload /\ ~AdvanceWritten
    BY <2>1 DEF Upload, AdvanceWritten, RequestFails
  <2>6. CASE Fetch
    <3>1. run' = [run EXCEPT !.at = "backup", !.got = romm[run.name].v] /\ romm' = romm
      BY <2>1, <2>6 DEF Fetch, RequestFails
    <3>2. run'.at = "backup" /\ run'.got = romm[run.name].v /\ run'.name = run.name /\ run'.slot = run.slot
      BY <1>0, <3>1 DEF Run
    <3> QED  BY <2>2, <2>4, <3>1, <3>2 DEF SlotIsKnown
  <2>7. CASE BackUpFirst
    <3>1. /\ run' = [run EXCEPT !.at = "compare", !.copied = slots[run.slot]]
          /\ slots[run.slot] = 0 \/ slots[run.slot] \in backed'
          /\ romm' = romm /\ run.at = "backup"
      BY <2>1, <2>7 DEF BackUpFirst
    <3>2. /\ run'.at = "compare" /\ run'.got = run.got /\ run'.copied = slots[run.slot]
          /\ run'.name = run.name /\ run'.slot = run.slot /\ run'.list = run.list
      BY <1>0, <3>1 DEF Run
    <3> QED  BY <1>0, <2>2, <2>4, <3>1, <3>2 DEF StateInv, SlotIsKnown, SameRow
  <2>9. CASE Compare
    <3>1. /\ run' = [run EXCEPT !.at = "commit"] /\ romm' = romm /\ run.at = "compare"
          /\ slots' = slots /\ backed' = backed /\ slots[run.slot] = run.copied
      BY <2>1, <2>9 DEF Compare, UnchangedSinceBackup
    <3>2. /\ run'.at = "commit" /\ run'.got = run.got /\ run'.copied = run.copied
          /\ run'.name = run.name /\ run'.slot = run.slot /\ run'.list = run.list
      BY <1>0, <3>1 DEF Run
    <3> QED  BY <1>0, <2>2, <2>4, <3>1, <3>2 DEF StateInv, SlotIsKnown, SameRow
  <2>8. CASE CommitStaged
    <3>1. run' = [run EXCEPT !.at = "record"] /\ romm' = romm /\ run.at = "commit" /\ run.got \in had'
      BY <2>1, <2>8 DEF CommitStaged
    <3>2. run'.at = "record" /\ run'.got = run.got /\ run'.name = run.name /\ run'.slot = run.slot /\ run'.list = run.list
      BY <1>0, <3>1 DEF Run
    <3> QED  BY <1>0, <2>2, <2>4, <3>1, <3>2 DEF StateInv, SlotIsKnown, SameRow
  <2> QED  BY <1>8, <2>5, <2>6, <2>7, <2>8, <2>9
<1>9. CASE GameWrites
  <2>1. UNCHANGED <<run, romm, mapped>>
    BY <1>9 DEF GameWrites
  <2>2. PICK s \in Slots, v \in {0, writes + 1} :
          /\ slots' = [slots EXCEPT ![s] = v]
          /\ raced' = IF run.at = "commit" /\ run.slot = s THEN v ELSE raced
    BY <1>9 DEF GameWrites
  <2>3. run.at = "commit" => slots'[run.slot] \in {slots[run.slot], raced'}
                             /\ raced' \in {raced, slots'[run.slot]}
    BY <1>0, <2>2
  <2> QED  BY <1>1, <2>1, <2>3
<1> QED  BY <1>2, <1>3, <1>4, <1>5, <1>6, <1>7, <1>8, <1>9 DEF StateNext, RunStep

(* The invariant holds of every state of the console's.                     *)
THEOREM StateInvariance == StateSpec => []StateInv
<1>1. ASSUME StateInv, [StateNext]_stateVars PROVE StateInv'
  <2>1. CASE StateNext
    <3>1. StatesTyped' /\ (0 \in had)'
      BY <1>1, <2>1, StatesTypedStep, NothingForgotten DEF StateInv
    <3> QED  BY <1>1, <2>1, <3>1, RowsStayKnown, ListStaysKnown, SlotStaysKnown DEF StateInv
  <2>2. CASE UNCHANGED stateVars
    BY <1>1, <2>2 DEF stateVars, ghosts, StateInv, StatesTyped, RowsAreKnown, ListIsKnown, SlotIsKnown,
                      Listed, Busied, Known, NameOf
  <2> QED  BY <1>1, <2>1, <2>2
<1> QED  BY <1>1, StateInvInit, PTL DEF StateSpec

(* The types are those of StateSync's own invariant.                        *)
THEOREM StateTypeCorrect == StateSpec => []StateTypeOK
<1>1. ASSUME StateInv PROVE StateTypeOK
  <2>1. StatesTyped /\ run \in Run
    BY <1>1 DEF StateInv, StatesTyped
  <2>2. \A n \in Names : /\ romm[n].v \in Versions /\ romm[n].ours \in BOOLEAN
                         /\ rows[n].v \in Versions /\ stateDb[n].v \in Versions
    BY <2>1 DEF StatesTyped, ServerRow, OwnRow
  <2>3. ASSUME NEW slot \in run.todo PROVE ActionFor(slot) \in Actions
    <3>1. PICK decided : decided = Decide(rows[NameOf(slot)], run.list[NameOf(slot)], run.scan[slot])
      OBVIOUS
    <3>2. ActionFor(slot) = "keep both" \/ ActionFor(slot) = decided
      BY <3>1 DEF ActionFor
    <3>3. decided \in Actions
      BY <3>1, DecideCases
    <3> QED  BY <3>2, <3>3 DEF Actions
  <2>4. run.at \in {"rest", "list", "slot", "post", "fetch", "backup", "compare", "commit", "record", "end"}
    BY <2>1 DEF Run
  <2> QED  BY <2>1, <2>2, <2>3, <2>4, RunFields DEF StatesTyped, StateTypeOK
<1> QED  BY <1>1, StateInvariance, PTL

(* A run replaces no state of the card that is not under .backup/ by then,  *)
(* but for what the game wrote after the last comparison: a slot changes     *)
(* hands only in CommitStaged, and what it held was then what BackUpFirst    *)
(* copied, or that write.                                                   *)
THEOREM StatesAreBackedUp == StateSpec => ReplacedIsBackedUp
<1>1. ASSUME StateInv, [StateNext]_stateVars
      PROVE  [run' # run => \A s \in Slots : slots'[s] # slots[s] /\ slots[s] # 0
                                              => slots[s] \in backed' \cup {raced}]_stateVars
  <2> SUFFICES ASSUME StateNext, run' # run, NEW s \in Slots, slots'[s] # slots[s], slots[s] # 0
               PROVE  slots[s] \in backed' \cup {raced}
    BY <1>1
  <2>1. CommitStaged
    BY DEF StateNext, RunStep, ScanStates, ListServerStates, Canceled, Consider, Upload, PlaceNext, Fetch,
           BackUpFirst, Compare, AdvanceWritten, EndRun, GameWrites, OtherPosts, OtherDeletes, MapsSlots,
           PowerCutInRun
  <2>2. s = run.slot /\ run.at = "commit"
    BY <1>1, <2>1 DEF CommitStaged, StateInv, StatesTyped
  <2>3. slots[s] \in {run.copied, raced} /\ (run.copied = 0 \/ run.copied \in backed)
    BY <1>1, <2>2 DEF StateInv, SlotIsKnown
  <2>4. backed \subseteq backed'
    BY NothingForgotten
  <2> QED  BY <2>3, <2>4
<1> QED  BY <1>1, StateInvariance, PTL DEF StateSpec, ReplacedIsBackedUp

(* A POST replaces at the server no state this console never held, but for  *)
(* what no listing could show it: Decide uploads over nothing or over a row *)
(* the baseline still describes, and what that row describes was held.      *)
THEOREM StatesOverwriteTheirOwn == StateSpec => OverwritesOnlyItsOwn
<1>1. ASSUME StateInv, [StateNext]_stateVars
      PROVE  [run' # run => \A n \in Names : romm'[n] # romm[n] => romm[n].v \in had \cup blurred \cup unlisted]_stateVars
  <2> SUFFICES ASSUME StateNext, run' # run, NEW n \in Names, romm'[n] # romm[n]
               PROVE  romm[n].v \in had \cup blurred \cup unlisted
    BY <1>1
  <2>1. Upload
    BY DEF StateNext, RunStep, ScanStates, ListServerStates, Canceled, Consider, PlaceNext, Fetch, BackUpFirst, Compare, CommitStaged,
           AdvanceWritten, EndRun, GameWrites, OtherPosts, OtherDeletes, MapsSlots, PowerCutInRun
  <2>2. n = run.name
    BY <1>1, <2>1, PostedIsKnown
  <2>3. romm[n] = run.list[n] \/ Known(romm[n].v) \/ romm[n].v \in unlisted
    BY <1>1, <2>1 DEF Upload, StateInv, ListIsKnown, Listed
  <2>4. Known(run.list[n].v)
    BY <1>1, <2>1, <2>2 DEF Upload, StateInv, SlotIsKnown
  <2> QED  BY <2>3, <2>4 DEF Known
<1> QED  BY <1>1, StateInvariance, PTL DEF StateSpec, OverwritesOnlyItsOwn

-----------------------------------------------------------------------------
(* Play time.                                                               *)

Held == [sessions : SUBSET BufferedSession, nextId : Nat \ {0}, lastSeen : Instants]
PlayTick == [at : {"none", "sent", "told", "based"}, seen : Instants, sent : SUBSET BufferedSession,
             release : SUBSET Nat]

IdsAreOnes(entries) == \A b, c \in entries : b.id = c.id => b = c

\* A buffer whose entries are its own, and not too many.
Sound(held) ==
    /\ held \in Held /\ IsFiniteSet(held.sessions) /\ Cardinality(held.sessions) <= kMaxSessions
    /\ \A b \in held.sessions : b.id < held.nextId
    /\ IdsAreOnes(held.sessions)

PlayTyped ==
    /\ clock \in Instants /\ mtime \in Instants /\ based \in {-1} \cup Instants
    /\ slips \in 0 .. MaxSlips /\ era \in 0 .. slips /\ cutBlind \in BOOLEAN
    /\ play \in PlayTick
    /\ totals.held \subseteq PlaySession /\ totals.refused \subseteq PlaySession

Answered == totals.held \cup totals.refused

\* While a tick runs the buffer is what it sent, and what it will release was answered.
SentIsAnswered ==
    /\ play.at # "none" => buffer.sessions = play.sent
    /\ IdsAreOnes(play.sent)
    /\ \A b \in play.sent : b.id \in play.release => b.session \in Answered

\* Every session there is, or that a power cut may bring back.
Everywhere == totals.held \cup Sessions(buffer) \cup Sessions(playDb) \cup SessionsOf(play.sent)

\* A session of this era lies before the clock, and before the last look.
HoursAreOnce ==
    /\ \A s \in Everywhere : s.era <= era /\ (s.era = era => s.to <= clock)
    /\ ~cutBlind => /\ \A s \in Everywhere : s.era = era => s.to <= buffer.lastSeen
                    /\ \A s, t \in Everywhere : Overlap(s, t) => s.era # t.era

PlayInv == PlayTyped /\ Sound(buffer) /\ Sound(playDb) /\ SentIsAnswered /\ HoursAreOnce

(* What is derived is of this era, after the last look and up to now.       *)
LEMMA DerivedIsNew ==
    ASSUME PlayTyped, Sound(buffer)
    PROVE  \/ DeriveSessions = {}
           \/ \E s \in PlaySession : /\ DeriveSessions = {s}
                                    /\ s.era = era /\ buffer.lastSeen <= s.from /\ s.to <= clock
<1> SUFFICES ASSUME DeriveSessions # {}
             PROVE  \E s \in PlaySession : /\ DeriveSessions = {s}
                                           /\ s.era = era /\ buffer.lastSeen <= s.from /\ s.to <= clock
  OBVIOUS
<1>1. buffer.lastSeen \in Instants
  BY DEF Sound, Held
<1>2. WindowStart \in Instants /\ buffer.lastSeen <= WindowStart
  <2>1. based >= 0
    BY DEF DeriveSessions
  <2> QED  BY <1>1, <2>1 DEF WindowStart, Later, PlayTyped, Instants
<1>3. DeriveSessions = {[from |-> WindowStart, to |-> mtime, era |-> era]} /\ mtime <= clock
  BY DEF DeriveSessions
<1>4. era \in 0 .. MaxSlips
  BY PlayAssumption DEF PlayTyped
<1>5. PICK s : s = [from |-> WindowStart, to |-> mtime, era |-> era]
  OBVIOUS
<1>6. s \in PlaySession
  BY <1>2, <1>4, <1>5 DEF PlaySession, PlayTyped
<1> QED  BY <1>2, <1>3, <1>5, <1>6

(* Kept keeps no more than the buffer holds.                                *)
LEMMA KeptFits ==
    ASSUME NEW queue, IsFiniteSet(queue), \A b \in queue : b.id \in Nat
    PROVE  /\ Kept(queue) \subseteq queue /\ IsFiniteSet(Kept(queue))
           /\ Cardinality(Kept(queue)) <= kMaxSessions
<1>1. Kept(queue) \subseteq queue /\ IsFiniteSet(Kept(queue)) /\ kMaxSessions \in Nat
  BY FS_Subset, PlayAssumption DEF Kept
<1>2. CASE Kept(queue) = {}
  BY <1>1, <1>2, FS_EmptySet
<1>3. CASE Kept(queue) # {}
  <2>1. PICK ids : ids = {b.id : b \in Kept(queue)}
    OBVIOUS
  <2>2. ids \in SUBSET Nat /\ ids # {}
    BY <1>1, <1>3, <2>1
  <2>3. PICK b \in Kept(queue) : \A c \in Kept(queue) : c.id >= b.id
    <3>1. PICK least \in ids : \A i \in ids : least <= i
      BY <2>2, LeastOf
    <3>2. PICK b \in Kept(queue) : b.id = least
      BY <2>1, <3>1
    <3>3. ASSUME NEW c \in Kept(queue) PROVE c.id >= least
      <4>1. c.id \in ids /\ c.id \in Nat /\ least \in Nat
        BY <2>1, <2>2, <3>1, <3>3
      <4> QED  BY <3>1, <4>1
    <3> QED  BY <3>2, <3>3
  <2>4. PICK above : above = {c \in queue : c.id >= b.id}
    OBVIOUS
  <2>5. Kept(queue) \subseteq above /\ above \subseteq queue
    BY <1>1, <2>3, <2>4
  <2>6. Cardinality(above) <= kMaxSessions
    BY <2>4, <2>3 DEF Kept
  <2>7. IsFiniteSet(above) /\ Cardinality(Kept(queue)) <= Cardinality(above)
    BY <2>5, FS_Subset
  <2>8. Cardinality(Kept(queue)) \in Nat /\ Cardinality(above) \in Nat
    BY <1>1, <2>7, FS_CardinalityType
  <2> QED  BY <1>1, <2>6, <2>7, <2>8
<1> QED  BY <1>2, <1>3

(* Recording at most one session leaves a sound buffer, which lets go of an *)
(* entry only to a newer one, when it is full.                              *)
LEMMA RecordIsSound ==
    ASSUME PlayTyped, Sound(buffer), Sound(playDb), NEW sessions, Record(sessions),
           sessions = {} \/ \E s \in PlaySession : sessions = {s}
    PROVE  /\ Sound(buffer)' /\ Sound(playDb)' /\ slips' \in slips .. MaxSlips
           /\ buffer'.lastSeen = clock
           /\ Sessions(buffer)' \subseteq Sessions(buffer) \cup sessions
           /\ playDb' \in {playDb, buffer'}
           /\ \A b \in buffer.sessions : \/ b \in buffer'.sessions
                                        \/ /\ Cardinality(buffer.sessions) = kMaxSessions
                                           /\ buffer'.nextId > buffer.nextId
<1>1. PICK old : old = buffer.sessions
  OBVIOUS
<1>2. /\ old \subseteq BufferedSession /\ IsFiniteSet(old) /\ Cardinality(old) <= kMaxSessions
      /\ Cardinality(old) \in Nat /\ kMaxSessions \in Nat
      /\ buffer.nextId \in Nat \ {0} /\ \A b \in old : b.id < buffer.nextId
      /\ IdsAreOnes(old)
  BY <1>1, FS_CardinalityType, PlayAssumption DEF Sound, Held
<1>3. PICK added : added = {[id |-> buffer.nextId, session |-> s] : s \in sessions}
  OBVIOUS
<1>4. /\ buffer' = [sessions |-> Kept(old \cup added), nextId |-> buffer.nextId + Cardinality(sessions),
                    lastSeen |-> clock]
      /\ Persist
  BY <1>1, <1>3 DEF Record
<1>5. /\ \/ added = {} /\ sessions = {} /\ Cardinality(sessions) = 0
         \/ \E s \in PlaySession : /\ sessions = {s} /\ added = {[id |-> buffer.nextId, session |-> s]}
                                   /\ Cardinality(sessions) = 1
      /\ added \subseteq BufferedSession /\ \A b \in added : b.id = buffer.nextId /\ b.session \in sessions
      /\ IdsAreOnes(added)
  <2>1. CASE sessions = {}
    BY <1>3, <2>1, FS_EmptySet DEF IdsAreOnes
  <2>2. CASE sessions # {}
    <3>1. PICK s \in PlaySession : sessions = {s}
      BY <2>2
    <3>2. added = {[id |-> buffer.nextId, session |-> s]}
      BY <1>3, <3>1
    <3> QED  BY <1>2, <3>1, <3>2, FS_Singleton DEF BufferedSession, IdsAreOnes
  <2> QED  BY <2>1, <2>2
<1>6. PICK queue : queue = old \cup added
  OBVIOUS
<1>7. /\ IsFiniteSet(queue) /\ queue \subseteq BufferedSession
      /\ Cardinality(queue) \in Nat /\ Cardinality(queue) <= Cardinality(old) + Cardinality(sessions)
      /\ \A b \in queue : b.id < buffer.nextId + Cardinality(sessions)
      /\ IdsAreOnes(queue)
  <2>1. CASE added = {} /\ Cardinality(sessions) = 0
    <3>1. queue = old
      BY <1>6, <2>1
    <3> QED  BY <1>2, <2>1, <3>1
  <2>2. CASE \E s \in PlaySession : added = {[id |-> buffer.nextId, session |-> s]} /\ Cardinality(sessions) = 1
    <3>1. PICK b : added = {b} /\ b.id = buffer.nextId /\ b \in BufferedSession
      BY <2>2, <1>5
    <3>2. IsFiniteSet(queue) /\ Cardinality(queue) = Cardinality(old) + 1
      <4>1. b \notin old
        BY <1>2, <3>1
      <4> QED  BY <1>2, <1>6, <3>1, <4>1, FS_AddElement
    <3>3. \A c \in queue : c.id < buffer.nextId + Cardinality(sessions)
      <4>1. \A c \in queue : c \in old \/ c = b
        BY <1>6, <3>1
      <4>2. \A c \in queue : c.id \in Nat
        BY <1>2, <3>1, <4>1 DEF BufferedSession
      <4> QED  BY <1>2, <2>2, <3>1, <4>1, <4>2
    <3>4. IdsAreOnes(queue)
      BY <1>2, <1>6, <3>1 DEF IdsAreOnes
    <3> QED  BY <1>2, <1>6, <2>2, <3>1, <3>2, <3>3, <3>4
  <2> QED  BY <1>5, <2>1, <2>2
<1>8. /\ Kept(queue) \subseteq queue /\ IsFiniteSet(Kept(queue)) /\ Cardinality(Kept(queue)) <= kMaxSessions
  BY <1>7, KeptFits DEF BufferedSession
<1>9. buffer'.sessions = Kept(queue) /\ buffer'.nextId = buffer.nextId + Cardinality(sessions) /\ buffer'.lastSeen = clock
  BY <1>4, <1>6
<1>10. Sound(buffer)'
  <2>1. buffer' \in Held
    <3>1. Kept(queue) \in SUBSET BufferedSession /\ clock \in Instants
      BY <1>7, <1>8 DEF PlayTyped
    <3>2. buffer.nextId + Cardinality(sessions) \in Nat \ {0}
      BY <1>2, <1>5
    <3> QED  BY <1>4, <1>6, <3>1, <3>2 DEF Held
  <2>2. IdsAreOnes(buffer'.sessions)
    BY <1>7, <1>8, <1>9 DEF IdsAreOnes
  <2> QED  BY <1>7, <1>8, <1>9, <2>1, <2>2 DEF Sound
<1>11. playDb' \in {playDb, buffer'} /\ Sound(playDb)'
  <2>1. playDb' = buffer' \/ playDb' = playDb
    BY <1>4 DEF Persist
  <2> QED  BY <1>10, <2>1 DEF Sound
<1>12. slips' \in slips .. MaxSlips
  BY <1>4, PlayAssumption DEF Persist, PlayTyped
<1>13. Sessions(buffer)' \subseteq Sessions(buffer) \cup sessions
  <2>1. Sessions(buffer)' = SessionsOf(buffer'.sessions) /\ Sessions(buffer) = SessionsOf(buffer.sessions)
    BY Zenon DEF Sessions
  <2>2. \A b \in buffer'.sessions : b \in old \/ b \in added
    BY <1>6, <1>8, <1>9, Zenon
  <2>3. \A b \in old : b.session \in SessionsOf(buffer.sessions)
    BY <1>1 DEF SessionsOf
  <2>4. \A b \in added : b.session \in sessions
    BY <1>5
  <2>5. \A b \in buffer'.sessions : b.session \in SessionsOf(buffer.sessions) \cup sessions
    BY <2>2, <2>3, <2>4, Zenon
  <2>6. SessionsOf(buffer'.sessions) \subseteq SessionsOf(buffer.sessions) \cup sessions
    BY <2>5, Zenon DEF SessionsOf
  <2> QED  BY <2>1, <2>6, Zenon
<1>14. ASSUME NEW b \in buffer.sessions, b \notin buffer'.sessions
       PROVE  Cardinality(buffer.sessions) = kMaxSessions /\ buffer'.nextId > buffer.nextId
  <2>1. PICK above : above = {c \in queue : c.id >= b.id}
    OBVIOUS
  <2>2. ~(Cardinality(above) <= kMaxSessions)
    BY <1>1, <1>6, <1>9, <1>14, <2>1 DEF Kept
  <2>3. above \subseteq queue
    BY <2>1
  <2>4. Cardinality(above) \in Nat /\ Cardinality(above) <= Cardinality(queue)
    BY <1>7, <2>3, FS_Subset, FS_CardinalityType
  <2>5. Cardinality(sessions) \in {0, 1}
    BY <1>5
  <2> QED  BY <1>1, <1>2, <1>7, <1>9, <2>2, <2>4, <2>5
<1> QED  BY <1>9, <1>10, <1>11, <1>12, <1>13, <1>14

(* Every session there is has its type.                                     *)
LEMMA EverywhereTyped ==
    ASSUME PlayInv
    PROVE  /\ Everywhere \subseteq PlaySession /\ clock \in Nat /\ era \in Nat
           /\ buffer.lastSeen \in Nat /\ buffer.lastSeen \in Instants
<1>1. totals.held \subseteq PlaySession /\ clock \in Nat /\ era \in Nat
  BY PlayAssumption DEF PlayInv, PlayTyped, Instants
<1>2. buffer.sessions \subseteq BufferedSession /\ buffer.lastSeen \in Instants /\ playDb.sessions \subseteq BufferedSession
  BY DEF PlayInv, Sound, Held
<1>3. play.sent \subseteq BufferedSession
  BY DEF PlayInv, PlayTyped, PlayTick
<1>4. \A entries \in SUBSET BufferedSession : SessionsOf(entries) \subseteq PlaySession
  BY DEF SessionsOf, BufferedSession
<1>5. Everywhere \subseteq PlaySession
  BY <1>1, <1>2, <1>3, <1>4 DEF Everywhere, Sessions
<1> QED  BY <1>1, <1>2, <1>5 DEF Instants

(* A step that adds no session but one after the last look keeps hours      *)
(* counted once.                                                            *)
LEMMA HoursStayOnce ==
    ASSUME PlayInv, NEW sessions, Everywhere' \subseteq Everywhere \cup sessions,
           era' = era, cutBlind' = cutBlind, clock' \in Nat, clock <= clock',
           buffer'.lastSeen \in {buffer.lastSeen, clock},
           \/ sessions = {}
           \/ /\ buffer'.lastSeen = clock
              /\ \E s \in PlaySession : /\ sessions = {s} /\ s.era = era
                                       /\ buffer.lastSeen <= s.from /\ s.to <= clock
    PROVE  HoursAreOnce'
<1>0. /\ Everywhere \subseteq PlaySession /\ clock \in Nat /\ era \in Nat /\ buffer.lastSeen \in Nat
      /\ HoursAreOnce
  BY EverywhereTyped DEF PlayInv
<1>1. \A s \in PlaySession : s.from \in Nat /\ s.to \in Nat /\ s.era \in Nat
  BY DEF PlaySession, Instants
<1>2. CASE sessions = {}
  <2>1. Everywhere' \subseteq Everywhere
    BY <1>2
  <2>2. \A s \in Everywhere' : s.era <= era' /\ (s.era = era' => s.to <= clock')
    BY <1>0, <1>1, <2>1 DEF HoursAreOnce
  <2>3. ASSUME ~cutBlind PROVE /\ \A s \in Everywhere' : s.era = era' => s.to <= buffer'.lastSeen
                               /\ \A s, t \in Everywhere' : Overlap(s, t) => s.era # t.era
    BY <1>0, <1>1, <2>1, <2>3 DEF HoursAreOnce
  <2>4. \A s, t : Overlap(s, t)' <=> Overlap(s, t)
    BY DEF Overlap
  <2> QED  BY <2>2, <2>3, <2>4 DEF HoursAreOnce
<1>3. CASE sessions # {}
  <2>1. PICK n \in PlaySession : /\ sessions = {n} /\ n.era = era /\ buffer'.lastSeen = clock
                                /\ buffer.lastSeen <= n.from /\ n.to <= clock
    BY <1>3
  <2>2. \A s \in Everywhere' : s \in Everywhere \/ s = n
    BY <2>1
  <2>3. \A s \in Everywhere' : s.era <= era' /\ (s.era = era' => s.to <= clock /\ s.to <= clock')
    BY <1>0, <1>1, <2>1, <2>2 DEF HoursAreOnce
  <2>4. ASSUME ~cutBlind, NEW s \in Everywhere', NEW t \in Everywhere', Overlap(s, t)
        PROVE  s.era # t.era
    <3>1. CASE s \in Everywhere /\ t \in Everywhere
      BY <1>0, <2>4, <3>1 DEF HoursAreOnce
    <3>2. CASE s = n /\ t \in Everywhere
      BY <1>0, <1>1, <2>1, <2>4, <3>2 DEF HoursAreOnce, Overlap
    <3>3. CASE t = n /\ s \in Everywhere
      BY <1>0, <1>1, <2>1, <2>4, <3>3 DEF HoursAreOnce, Overlap
    <3>4. CASE s = n /\ t = n
      BY <2>4, <3>4 DEF Overlap
    <3> QED  BY <2>2, <3>1, <3>2, <3>3, <3>4
  <2>5. \A s, t : Overlap(s, t)' <=> Overlap(s, t)
    BY DEF Overlap
  <2> QED  BY <2>1, <2>3, <2>4, <2>5 DEF HoursAreOnce
<1> QED  BY <1>2, <1>3

(* A tick has recorded nothing when it begins.                              *)
LEMMA PlayInvInit == PlayInit => PlayInv
<1> SUFFICES ASSUME PlayInit PROVE PlayInv
  OBVIOUS
<1>1. EmptyBuffer \in Held /\ EmptyBuffer.sessions = {} /\ IsFiniteSet({}) /\ Cardinality({}) = 0
  BY FS_EmptySet, PlayAssumption DEF EmptyBuffer, Held, Instants
<1>2. Sound(buffer) /\ Sound(playDb)
  BY <1>1, PlayAssumption DEF PlayInit, Sound, IdsAreOnes
<1>3. NoTick \in PlayTick /\ NoTick.at = "none" /\ NoTick.sent = {}
  BY PlayAssumption DEF NoTick, PlayTick, Instants
<1>4. PlayTyped
  <2>1. /\ clock \in Instants /\ mtime \in Instants /\ based \in {-1} \cup Instants
        /\ slips \in 0 .. MaxSlips /\ era \in 0 .. slips
    BY PlayAssumption DEF PlayInit, Instants
  <2>2. cutBlind \in BOOLEAN
    BY Zenon DEF PlayInit
  <2>3. totals.held = {} /\ totals.refused = {}
    BY DEF PlayInit
  <2> QED  BY <1>3, <2>1, <2>2, <2>3 DEF PlayInit, PlayTyped
<1>5. Everywhere = {}
  BY <1>1, <1>3 DEF PlayInit, Everywhere, Sessions, SessionsOf
<1> QED  BY <1>2, <1>3, <1>4, <1>5 DEF PlayInit, PlayInv, SentIsAnswered, HoursAreOnce, IdsAreOnes

(* A buffer that is sound is read back as it was written.                   *)
LEMMA ParseIsExact ==
    ASSUME NEW held, Sound(held)
    PROVE  ParseBuffer(held) = held
<1>1. /\ held \in Held /\ held.nextId \in Nat \ {0} /\ held.sessions \subseteq BufferedSession
      /\ \A b \in held.sessions : b.id < held.nextId
  BY DEF Sound, Held
<1>2. PICK ids : ids = {b.id : b \in held.sessions} \cup {held.nextId - 1}
  OBVIOUS
<1>3. ids \subseteq Int /\ held.nextId - 1 \in ids /\ \A j \in ids : j <= held.nextId - 1
  BY <1>1, <1>2 DEF BufferedSession
<1>4. PICK top : top = CHOOSE i \in ids : \A j \in ids : j <= i
  OBVIOUS
<1>5. top \in ids /\ \A j \in ids : j <= top
  BY <1>3, <1>4
<1>6. 1 + top = held.nextId
  BY <1>1, <1>3, <1>5
<1>7. ParseBuffer(held) = [held EXCEPT !.nextId = 1 + top]
  BY <1>2, <1>4 DEF ParseBuffer
<1> QED  BY <1>1, <1>6, <1>7 DEF Held

(* Recording a look, whatever the tick does besides.                        *)
LEMMA LookIsKept ==
    ASSUME PlayInv, NEW sessions, Record(sessions), sessions = {} \/ sessions = DeriveSessions,
           UNCHANGED <<clock, era, totals, cutBlind>>,
           play'.sent \in {play.sent, buffer'.sessions}
    PROVE  /\ Sound(buffer)' /\ Sound(playDb)' /\ slips' \in slips .. MaxSlips /\ HoursAreOnce'
           /\ \A b \in buffer.sessions : \/ b \in buffer'.sessions
                                        \/ /\ Cardinality(buffer.sessions) = kMaxSessions
                                           /\ buffer'.nextId > buffer.nextId
<1>1. \/ sessions = {}
      \/ \E s \in PlaySession : /\ sessions = {s} /\ s.era = era /\ buffer.lastSeen <= s.from /\ s.to <= clock
  BY DerivedIsNew DEF PlayInv
<1>2. sessions = {} \/ \E s \in PlaySession : sessions = {s}
  BY <1>1
<1>3. /\ Sound(buffer)' /\ Sound(playDb)' /\ slips' \in slips .. MaxSlips /\ buffer'.lastSeen = clock
      /\ Sessions(buffer)' \subseteq Sessions(buffer) \cup sessions
      /\ playDb' \in {playDb, buffer'}
      /\ \A b \in buffer.sessions : \/ b \in buffer'.sessions
                                   \/ /\ Cardinality(buffer.sessions) = kMaxSessions
                                      /\ buffer'.nextId > buffer.nextId
  BY <1>2, RecordIsSound DEF PlayInv
<1>4. Everywhere' \subseteq Everywhere \cup sessions
  BY <1>3 DEF Everywhere, Sessions
<1>5. HoursAreOnce'
  <2>1. clock' \in Nat /\ clock <= clock'
    BY EverywhereTyped
  <2> QED  BY <1>1, <1>3, <1>4, <2>1, HoursStayOnce
<1> QED  BY <1>3, <1>5

(* Every step keeps the invariant of the play time.                         *)
LEMMA PlayStep ==
    ASSUME PlayInv, PlayNext
    PROVE  PlayInv'
<1>0. /\ PlayTyped /\ Sound(buffer) /\ Sound(playDb) /\ SentIsAnswered /\ HoursAreOnce /\ play \in PlayTick
      /\ play.sent \subseteq BufferedSession /\ play.release \subseteq Nat /\ play.seen \in Instants
      /\ buffer \in Held /\ playDb \in Held /\ slips \in Nat /\ era \in Nat /\ MaxSlips \in Nat
  BY PlayAssumption DEF PlayInv, PlayTyped, PlayTick, Sound
<1>1. CASE TickLooks
  <2>1. /\ Record(DeriveSessions) /\ UNCHANGED <<clock, era, totals, cutBlind, mtime, based>>
        /\ play' = [NoTick EXCEPT !.at = "sent", !.seen = mtime, !.sent = buffer'.sessions]
    BY <1>1 DEF TickLooks
  <2>2. /\ play'.at = "sent" /\ play'.seen = mtime /\ play'.sent = buffer'.sessions /\ play'.release = {}
        /\ play' = [at |-> "sent", seen |-> mtime, sent |-> buffer'.sessions, release |-> {}]
    BY <2>1 DEF NoTick
  <2>3. Sound(buffer)' /\ Sound(playDb)' /\ slips' \in slips .. MaxSlips /\ HoursAreOnce'
    BY <2>1, <2>2, LookIsKept
  <2>4. PlayTyped'
    <3>1. buffer'.sessions \in SUBSET BufferedSession
      BY <2>3 DEF Sound, Held
    <3>2. play' \in PlayTick
      BY <1>0, <2>2, <3>1 DEF PlayTyped, PlayTick
    <3> QED  BY <1>0, <2>1, <2>3, <3>2 DEF PlayTyped
  <2>5. SentIsAnswered'
    BY <2>2, <2>3 DEF SentIsAnswered, Sound
  <2> QED  BY <2>3, <2>4, <2>5 DEF PlayInv
<1>2. CASE StampPlayWindow
  <2>1. Record({}) /\ UNCHANGED <<clock, era, totals, cutBlind, mtime, based, play>> /\ play.at = "none"
    BY <1>2 DEF StampPlayWindow
  <2>2. Sound(buffer)' /\ Sound(playDb)' /\ slips' \in slips .. MaxSlips /\ HoursAreOnce'
    BY <2>1, LookIsKept
  <2>3. PlayTyped'
    BY <1>0, <2>1, <2>2 DEF PlayTyped
  <2>4. SentIsAnswered'
    BY <1>0, <2>1 DEF SentIsAnswered, Answered
  <2> QED  BY <2>2, <2>3, <2>4 DEF PlayInv
<1>3. CASE Complete
  <2>1. PICK taken \in SUBSET play.sent : \E refused \in SUBSET (play.sent \ taken) :
          /\ Ingest(taken, refused)
          /\ \/ play' = [play EXCEPT !.at = "told", !.release = Reconcile(taken \cup refused)]
             \/ play' = [play EXCEPT !.at = "told"]
    BY <1>3 DEF Complete
  <2>2. PICK refused \in SUBSET (play.sent \ taken) :
          /\ Ingest(taken, refused)
          /\ \/ play' = [play EXCEPT !.at = "told", !.release = Reconcile(taken \cup refused)]
             \/ play' = [play EXCEPT !.at = "told"]
    BY <2>1
  <2>3. /\ play.at = "sent" /\ UNCHANGED <<clock, era, mtime, based, buffer, playDb, slips, cutBlind>>
        /\ totals'.held = totals.held \cup SessionsOf(taken)
        /\ totals'.refused = totals.refused \cup (SessionsOf(refused) \ totals.held)
    BY <1>3, <2>2 DEF Complete, Ingest
  <2>4. /\ play'.at = "told" /\ play'.sent = play.sent /\ play' \in PlayTick
        /\ play'.release = {b.id : b \in taken \cup refused} \/ play'.release = play.release
    <3>1. Reconcile(taken \cup refused) = {b.id : b \in taken \cup refused}
      BY DEF Reconcile
    <3>2. Reconcile(taken \cup refused) \in SUBSET Nat
      BY <1>0, <3>1 DEF BufferedSession
    <3> QED  BY <1>0, <2>2, <3>1, <3>2 DEF PlayTick
  <2>5. SessionsOf(taken) \cup SessionsOf(refused) \subseteq SessionsOf(play.sent)
    BY DEF SessionsOf
  <2>6. SessionsOf(play.sent) \subseteq PlaySession
    BY <1>0 DEF SessionsOf, BufferedSession
  <2>7. PlayTyped'
    BY <1>0, <2>3, <2>4, <2>5, <2>6 DEF PlayTyped
  <2>8. Answered \subseteq Answered' /\ SessionsOf(taken) \cup SessionsOf(refused) \subseteq Answered'
    BY <2>3 DEF Answered
  <2>9. SentIsAnswered'
    <3>1. ASSUME NEW b \in play'.sent, b.id \in play'.release PROVE b.session \in Answered'
      <4>1. CASE play'.release = {c.id : c \in taken \cup refused}
        <5>1. PICK c \in taken \cup refused : c.id = b.id
          BY <3>1, <4>1
        <5>2. b \in taken \cup refused
          BY <1>0, <2>4, <3>1, <5>1 DEF SentIsAnswered, IdsAreOnes
        <5> QED  BY <2>8, <5>2 DEF SessionsOf
      <4>2. CASE play'.release = play.release
        BY <1>0, <2>4, <2>8, <3>1, <4>2 DEF SentIsAnswered
      <4> QED  BY <2>4, <4>1, <4>2
    <3> QED  BY <1>0, <2>3, <2>4, <3>1 DEF SentIsAnswered
  <2>10. HoursAreOnce'
    <3>1. Everywhere' \subseteq Everywhere \cup {}
      BY <2>3, <2>4, <2>5 DEF Everywhere, Sessions
    <3>2. clock' \in Nat /\ clock <= clock'
      BY <2>3, EverywhereTyped
    <3> QED  BY <2>3, <3>1, <3>2, HoursStayOnce
  <2> QED  BY <1>0, <2>3, <2>7, <2>9, <2>10 DEF PlayInv, Sound
<1>4. CASE SaveBaseline
  <2>1. /\ UNCHANGED <<clock, era, mtime, buffer, playDb, totals, slips, cutBlind>>
        /\ based' \in {based, play.seen} /\ play' = [play EXCEPT !.at = "based"] /\ play.at = "told"
    BY <1>4 DEF SaveBaseline
  <2>2. play'.at = "based" /\ play'.sent = play.sent /\ play'.release = play.release /\ play' \in PlayTick
    BY <1>0, <2>1 DEF PlayTick
  <2>3. PlayTyped'
    BY <1>0, <2>1, <2>2 DEF PlayTyped
  <2>4. SentIsAnswered'
    BY <1>0, <2>1, <2>2 DEF SentIsAnswered, Answered
  <2>5. HoursAreOnce'
    <3>1. Everywhere' \subseteq Everywhere \cup {}
      BY <2>1, <2>2 DEF Everywhere, Sessions
    <3>2. clock' \in Nat /\ clock <= clock'
      BY <2>1, EverywhereTyped
    <3> QED  BY <2>1, <3>1, <3>2, HoursStayOnce
  <2> QED  BY <1>0, <2>1, <2>3, <2>4, <2>5 DEF PlayInv, Sound
<1>5. CASE TickReleases
  <2>1. /\ Release(play.release) /\ play' = NoTick /\ UNCHANGED <<clock, era, mtime, based, totals, cutBlind>>
    BY <1>5 DEF TickReleases
  <2>2. play' \in PlayTick /\ play'.at = "none" /\ play'.sent = {}
    BY <2>1, PlayAssumption DEF NoTick, PlayTick, Instants
  <2>3. /\ Sound(buffer)' /\ playDb' \in {playDb, buffer'} /\ slips' \in slips .. MaxSlips
        /\ Sessions(buffer)' \subseteq Sessions(buffer) /\ buffer'.lastSeen = buffer.lastSeen
    <3>1. CASE play.release = {}
      BY <1>0, <2>1, <3>1 DEF Release, Sound, Sessions, PlayTyped
    <3>2. CASE play.release # {}
      <4>1. /\ buffer' = [buffer EXCEPT !.sessions = {b \in @ : b.id \notin play.release}]
            /\ Persist
        BY <2>1, <3>2 DEF Release
      <4>2. PICK left \in SUBSET buffer.sessions : left = {b \in buffer.sessions : b.id \notin play.release}
        OBVIOUS
      <4>3. IsFiniteSet(left) /\ Cardinality(left) <= kMaxSessions
        <5>1. IsFiniteSet(left) /\ Cardinality(left) <= Cardinality(buffer.sessions)
          BY <1>0, FS_Subset DEF Sound
        <5>2. Cardinality(left) \in Nat /\ Cardinality(buffer.sessions) \in Nat
          BY <1>0, <5>1, FS_CardinalityType DEF Sound
        <5> QED  BY <1>0, <5>1, <5>2, PlayAssumption DEF Sound
      <4>4. buffer' = [buffer EXCEPT !.sessions = left]
        BY <4>1, <4>2
      <4>5. buffer' \in Held /\ buffer'.sessions = left /\ buffer'.nextId = buffer.nextId /\ buffer'.lastSeen = buffer.lastSeen
        <5>1. left \in SUBSET BufferedSession
          BY <1>0 DEF Held
        <5> QED  BY <1>0, <4>4, <5>1 DEF Held
      <4>6. Sound(buffer)'
        BY <1>0, <4>3, <4>5 DEF Sound, IdsAreOnes
      <4> QED  BY <1>0, <4>1, <4>5, <4>6 DEF Persist, Sessions, SessionsOf, PlayTyped
    <3> QED  BY <3>1, <3>2
  <2>4. Sound(playDb)'
    BY <1>0, <2>3 DEF Sound
  <2>5. PlayTyped'
    BY <1>0, <2>1, <2>2, <2>3 DEF PlayTyped
  <2>6. SentIsAnswered'
    BY <2>2 DEF SentIsAnswered, IdsAreOnes
  <2>7. HoursAreOnce'
    <3>1. Everywhere' \subseteq Everywhere \cup {}
      BY <2>1, <2>2, <2>3 DEF Everywhere, Sessions, SessionsOf
    <3>2. clock' \in Nat /\ clock <= clock'
      BY <2>1, EverywhereTyped
    <3> QED  BY <2>1, <2>3, <3>1, <3>2, HoursStayOnce
  <2> QED  BY <2>3, <2>4, <2>5, <2>6, <2>7 DEF PlayInv
<1>6. CASE TimePasses \/ GameSaves \/ RowLost
  <2>1. /\ UNCHANGED <<era, buffer, playDb, play, totals, cutBlind>> /\ clock' \in Instants /\ clock <= clock'
        /\ mtime' \in Instants /\ based' \in {-1} \cup Instants /\ slips' \in slips .. MaxSlips
    BY <1>0, <1>6, PlayAssumption DEF TimePasses, GameSaves, RowLost, PlayTyped, Instants
  <2>2. PlayTyped'
    BY <1>0, <2>1 DEF PlayTyped
  <2>3. SentIsAnswered'
    BY <1>0, <2>1 DEF SentIsAnswered, Answered
  <2>4. HoursAreOnce'
    <3>1. Everywhere' \subseteq Everywhere \cup {}
      BY <2>1 DEF Everywhere, Sessions
    <3>2. clock' \in Nat /\ clock <= clock'
      BY <2>1, PlayAssumption DEF Instants
    <3> QED  BY <2>1, <3>1, <3>2, HoursStayOnce
  <2> QED  BY <1>0, <2>1, <2>2, <2>3, <2>4 DEF PlayInv, Sound
<1>7. CASE ClockSetBack
  <2>1. /\ UNCHANGED <<mtime, based, buffer, playDb, play, totals, cutBlind>> /\ clock' \in Instants
        /\ era' = era + 1 /\ slips' = slips + 1 /\ slips' \in 0 .. MaxSlips
    BY <1>0, <1>7, PlayAssumption DEF ClockSetBack, PlayTyped
  <2>2. PlayTyped'
    BY <1>0, <2>1 DEF PlayTyped
  <2>3. SentIsAnswered'
    BY <1>0, <2>1 DEF SentIsAnswered, Answered
  <2>4. Everywhere' = Everywhere /\ \A s \in Everywhere : s.era <= era /\ s.era \in Nat
    BY <1>0, <2>1, EverywhereTyped DEF Everywhere, Sessions, HoursAreOnce, PlaySession
  <2>5. \A s \in Everywhere : s.era # era'
    BY <1>0, <2>1, <2>4
  <2>6. \A s \in Everywhere : s.era <= era'
    BY <1>0, <2>1, <2>4
  <2>7. \A s, t : Overlap(s, t)' <=> Overlap(s, t)
    BY DEF Overlap
  <2>8. HoursAreOnce'
    BY <1>0, <2>1, <2>4, <2>5, <2>6, <2>7 DEF HoursAreOnce
  <2> QED  BY <1>0, <2>1, <2>2, <2>3, <2>8 DEF PlayInv, Sound
<1>8. CASE PowerCut
  <2>1. /\ slips' = slips + 1 /\ slips' \in 0 .. MaxSlips
        /\ buffer' = ParseBuffer(playDb) /\ play' = NoTick
        /\ cutBlind' = (cutBlind \/ playDb.lastSeen # buffer.lastSeen)
        /\ UNCHANGED <<clock, era, mtime, based, playDb, totals>>
    BY <1>0, <1>8, PlayAssumption DEF PowerCut, PlayTyped
  <2>2. buffer' = playDb
    BY <1>0, <2>1, ParseIsExact
  <2>3. play' \in PlayTick /\ play'.at = "none" /\ play'.sent = {}
    BY <2>1, PlayAssumption DEF NoTick, PlayTick, Instants
  <2>4. PlayTyped'
    <3>1. cutBlind' \in BOOLEAN
      BY <2>1, Zenon
    <3> QED  BY <1>0, <2>1, <2>3, <3>1 DEF PlayTyped
  <2>5. SentIsAnswered'
    BY <2>3 DEF SentIsAnswered, IdsAreOnes
  <2>6. Everywhere' \subseteq Everywhere
    BY <2>1, <2>2, <2>3 DEF Everywhere, Sessions, SessionsOf
  <2>7. HoursAreOnce'
    <3>1. CASE cutBlind' = cutBlind /\ playDb.lastSeen = buffer.lastSeen
      <4>1. Everywhere' \subseteq Everywhere \cup {}
        BY <2>6
      <4>2. clock' \in Nat /\ clock <= clock'
        BY <2>1, EverywhereTyped
      <4> QED  BY <2>1, <2>2, <3>1, <4>1, <4>2, HoursStayOnce
    <3>2. CASE cutBlind'
      BY <1>0, <2>1, <2>6, <3>2 DEF HoursAreOnce
    <3>3. cutBlind' \/ (cutBlind' = cutBlind /\ playDb.lastSeen = buffer.lastSeen)
      <4>1. CASE playDb.lastSeen # buffer.lastSeen
        BY <2>1, <4>1
      <4>2. CASE playDb.lastSeen = buffer.lastSeen
        <5>1. cutBlind' = cutBlind
          BY <1>0, <2>1, <4>2 DEF PlayTyped
        <5> QED  BY <4>2, <5>1
      <4> QED  BY <4>1, <4>2
    <3> QED  BY <3>1, <3>2, <3>3
  <2> QED  BY <1>0, <2>1, <2>2, <2>4, <2>5, <2>7 DEF PlayInv, Sound
<1> QED  BY <1>1, <1>2, <1>3, <1>4, <1>5, <1>6, <1>7, <1>8 DEF PlayNext

THEOREM PlayInvariance == PlaySpec => []PlayInv
<1>1. ASSUME PlayInv, [PlayNext]_playVars PROVE PlayInv'
  <2>1. CASE UNCHANGED playVars
    BY <1>1, <2>1 DEF playVars, PlayInv, PlayTyped, Sound, SentIsAnswered, Answered, HoursAreOnce, Everywhere, Sessions
  <2> QED  BY <1>1, <2>1, PlayStep
<1> QED  BY <1>1, PlayInvInit, PTL DEF PlaySpec

(* The types are those of PlaySessions' own invariant.                      *)
THEOREM PlayTypeCorrect == PlaySpec => []PlayTypeOK
<1>1. PlayInv => PlayTypeOK
  BY DEF PlayInv, PlayTyped, PlayTypeOK, Sound, Held, PlayTick
<1> QED  BY <1>1, PlayInvariance, PTL

(* No stretch of the clock is counted as play twice: a session begins at    *)
(* the last look at the card or after it, and every one of this setting of  *)
(* the clock, wherever it is by now, ended by then.                         *)
THEOREM NoHourIsCountedTwice == PlaySpec => []NoHourTwice
<1>1. PlayInv => NoHourTwice
  BY DEF PlayInv, HoursAreOnce, NoHourTwice, Counted, Everywhere
<1> QED  BY <1>1, PlayInvariance, PTL

(* A session leaves the buffer only answered, pushed out of a full one by a *)
(* newer, or with the power before it was on the card: what is released is  *)
(* named by an id of what was sent, and an id names one entry.              *)
THEOREM SessionsLeaveAnswered == PlaySpec => LeavesOnlyAnswered
<1>1. ASSUME PlayInv, [PlayNext]_playVars
      PROVE  [\A s \in Sessions(buffer) \ Sessions(buffer)' :
                \/ s \in totals.held \cup totals.refused
                \/ Cardinality(buffer.sessions) = kMaxSessions /\ buffer'.nextId > buffer.nextId
                \/ s \notin Sessions(playDb)]_playVars
  <2> SUFFICES ASSUME PlayNext, NEW s \in Sessions(buffer), s \notin Sessions(buffer)'
               PROVE  \/ s \in Answered
                      \/ Cardinality(buffer.sessions) = kMaxSessions /\ buffer'.nextId > buffer.nextId
                      \/ s \notin Sessions(playDb)
    BY <1>1 DEF Answered
  <2>1. PICK b \in buffer.sessions : b.session = s /\ b \notin buffer'.sessions
    BY DEF Sessions, SessionsOf
  <2>2. CASE TickLooks
    <3>1. play'.sent \in {play.sent, buffer'.sessions}
      BY <2>2 DEF TickLooks, NoTick
    <3>2. Record(DeriveSessions) /\ UNCHANGED <<clock, era, totals, cutBlind>>
      BY <2>2 DEF TickLooks
    <3> QED  BY <1>1, <2>1, <3>1, <3>2, LookIsKept
  <2>3. CASE StampPlayWindow
    <3>1. Record({}) /\ UNCHANGED <<clock, era, totals, cutBlind, play>>
      BY <2>3 DEF StampPlayWindow
    <3> QED  BY <1>1, <2>1, <3>1, LookIsKept
  <2>4. CASE TickReleases
    <3>1. buffer.sessions = play.sent
      BY <1>1, <2>4 DEF TickReleases, PlayInv, SentIsAnswered
    <3>2. b.id \in play.release
      <4>1. Release(play.release) /\ buffer \in Held
        BY <1>1, <2>4 DEF TickReleases, PlayInv, Sound
      <4>2. play.release # {}
        BY <2>1, <4>1 DEF Release
      <4>3. buffer' = [buffer EXCEPT !.sessions = {c \in @ : c.id \notin play.release}]
        BY <4>1, <4>2 DEF Release
      <4>4. buffer'.sessions = {c \in buffer.sessions : c.id \notin play.release}
        BY <4>1, <4>3 DEF Held
      <4> QED  BY <2>1, <4>4
    <3> QED  BY <1>1, <2>1, <3>1, <3>2 DEF PlayInv, SentIsAnswered
  <2>5. CASE PowerCut
    <3>1. buffer' = playDb
      BY <1>1, <2>5, ParseIsExact DEF PowerCut, PlayInv
    <3> QED  BY <3>1 DEF Sessions
  <2>6. CASE UNCHANGED buffer
    BY <2>1, <2>6
  <2> QED
    BY <2>2, <2>3, <2>4, <2>5, <2>6
    DEF PlayNext, Complete, SaveBaseline, TimePasses, GameSaves, ClockSetBack, RowLost
<1> QED  BY <1>1, PlayInvariance, PTL DEF PlaySpec, LeavesOnlyAnswered

-----------------------------------------------------------------------------
(* The baseline's file.                                                     *)

Files0 == StateFiles \cup {NoFile}
DeskPlaces == {"rest", "lines", "ready", "store", "drop", "aside", "publish", "replace", "tidy"}
Parsers == [kept : SUBSET BaselineRow, held : SUBSET BaselineRow, gone : SUBSET (Slotted \cup Lasting),
            rows : Nat, blank : BOOLEAN, bad : BOOLEAN, over : BOOLEAN]

\* Of no key two rows.
Distinct(set) == \A r, s \in set : r.key = s.key => r = s

DbTyped ==
    /\ db \in [path : Files0, old : Files0, tmp : Files0]
    /\ truth \in [file : Files0, ours : BOOLEAN]
    /\ desk \in [at : DeskPlaces, file : Files0, n : Nat]
    /\ parser \in Parsers /\ Cardinality(parser.kept) + Cardinality(parser.held) <= kMaxBaseline
    /\ baseline \in SUBSET BaselineRow /\ Distinct(baseline)
    /\ desk.at = "ready" => Cardinality(baseline) <= kMaxBaseline
    /\ reads \in 0 .. MaxReads /\ dbFaults \in 0 .. MaxDbFaults

\* Of the first n lines: which are rows, their keys, and whether a writer may have
\* written them.
RowsAmong(lines, n) == {i \in 1 .. n : lines[i] # BlankLine}
KeysAmong(lines, n) == {lines[i].key : i \in {j \in RowsAmong(lines, n) : lines[j] # BadLine}}
Fair(lines, n) ==
    /\ \A i \in RowsAmong(lines, n) : lines[i] # BadLine
    /\ \A i, j \in RowsAmong(lines, n) : i < j => lines[i].key # lines[j].key
    /\ \A i \in RowsAmong(lines, n) : \A j \in 1 .. i - 1 : lines[j] # BlankLine

\* What the parser holds is what the lines read so far say.
LinesFollow ==
    desk.at = "lines" =>
        /\ desk.file \in StateFiles /\ RowsAreRead(desk.file) /\ desk.n <= Len(desk.file.lines)
        /\ parser.over => Cardinality(RowsAmong(desk.file.lines, desk.n)) > RowBound
        /\ ~parser.over =>
             /\ parser.rows = Cardinality(RowsAmong(desk.file.lines, desk.n)) /\ parser.rows <= RowBound
             /\ Cardinality(parser.kept) + Cardinality(parser.held) <= parser.rows
             /\ parser.bad <=> ~Fair(desk.file.lines, desk.n)
             /\ ~parser.bad => (parser.blank <=> \E i \in 1 .. desk.n : desk.file.lines[i] = BlankLine)
             /\ \A r \in parser.kept \cup parser.held :
                  \E i \in RowsAmong(desk.file.lines, desk.n) : desk.file.lines[i] = r
             /\ KeysIn(parser.kept \cup parser.held) \cup parser.gone = KeysAmong(desk.file.lines, desk.n)

\* The rows held apart are those of rc1's slots, and what was let go follows them all.
HeldInOrder ==
    desk.at = "lines" =>
        /\ desk.file.head # "rc1" => parser.held = {} /\ parser.gone = {}
        /\ desk.file.head = "rc1" => \A r \in parser.kept : r.key \in Lasting
        /\ \A r \in parser.held : r.key \in Slotted
        /\ Distinct(parser.kept \cup parser.held)
        /\ parser.gone # {} => Cardinality(parser.kept) + Cardinality(parser.held) = kMaxBaseline
        /\ \A k \in parser.gone, r \in parser.held : k \in Slotted /\ r.key < k

\* What the names on the card hold at each step of a commit.
CommitFollows ==
    /\ Found = truth.file
    /\ truth.ours => truth.file \in StateFiles /\ Intact(truth.file) /\ RowsAreRead(truth.file)
    /\ desk.at \in {"drop", "aside", "publish", "replace"} =>
         db.tmp \in StateFiles /\ Intact(db.tmp) /\ RowsAreRead(db.tmp)
    /\ desk.at \in {"drop", "aside", "tidy"} => db.path # NoFile
    /\ desk.at \in {"publish", "replace"} => db.path = NoFile

DbInv == DbTyped /\ LinesFollow /\ HeldInOrder /\ FirstRowsAreKept /\ CommitFollows

LEMMA DbFacts ==
    /\ LastSlotted \in Nat /\ kMaxBaseline \in Nat \ {0} /\ kRc1MaxRecords \in Nat \ {0}
    /\ kMaxBaseline <= kRc1MaxRecords /\ MaxReads \in Nat /\ MaxDbFaults \in Nat
    /\ Slotted \subseteq Nat /\ Lasting \cap Slotted = {}
    /\ MigratedSlot \in [Slotted -> Slotted]
    /\ BadLine \notin BaselineRow /\ BlankLine \notin BaselineRow /\ BadLine # BlankLine
    /\ NoFile \notin StateFiles
<1>1. /\ LastSlotted \in Nat /\ {kMaxBaseline, kRc1MaxRecords} \subseteq Nat \ {0}
      /\ kMaxBaseline <= kRc1MaxRecords /\ {MaxReads, MaxDbFaults} \subseteq Nat
      /\ Lasting \cap Slotted = {} /\ MigratedSlot \in [Slotted -> Slotted]
      /\ BadLine \notin BaselineRow /\ BlankLine \notin BaselineRow /\ BadLine # BlankLine
      /\ NoFile \notin StateFiles
  BY StateDbAssumption, Zenon
<1>2. kMaxBaseline \in Nat \ {0} /\ kRc1MaxRecords \in Nat \ {0} /\ MaxReads \in Nat /\ MaxDbFaults \in Nat
  BY <1>1, Zenon
<1>3. \A last \in Nat : 1 .. last \subseteq Nat
  OBVIOUS
<1>4. Slotted \subseteq Nat
  BY <1>1, <1>3, Zenon DEF Slotted
<1> QED  BY <1>1, <1>2, <1>4, Zenon

(* The rows of a baseline are finitely many.                                *)
LEMMA RowsAreFinite ==
    \A set \in SUBSET BaselineRow : IsFiniteSet(set) /\ Cardinality(set) \in Nat
<1>1. IsFiniteSet(Slotted \cup Lasting)
  <2>1. IsFiniteSet(Slotted)
    BY DbFacts, FS_Interval DEF Slotted
  <2>2. IsFiniteSet(Lasting)
    BY StateDbAssumption, FS_Union DEF Lasting
  <2> QED  BY <2>1, <2>2, FS_Union
<1>2. PICK hashes : hashes = {1, 2} /\ IsFiniteSet(hashes)
  <2>1. IsFiniteSet({1}) /\ IsFiniteSet({2})
    BY FS_Singleton
  <2>2. IsFiniteSet({1} \cup {2}) /\ {1, 2} = {1} \cup {2}
    BY <2>1, FS_Union
  <2> QED  BY <2>2
<1>3. PICK pairs : pairs = (Slotted \cup Lasting) \X hashes /\ IsFiniteSet(pairs)
  BY <1>1, <1>2, FS_Product
<1>4. PICK f : f = [p \in pairs |-> [key |-> p[1], hash |-> p[2]]]
  OBVIOUS
<1>5. PICK all : all = {f[p] : p \in pairs}
  OBVIOUS
<1>6. IsFiniteSet(all)
  <2>1. f \in Surjection(pairs, all)
    BY <1>4, <1>5 DEF Surjection
  <2> QED  BY <1>3, <2>1, FS_Surjection
<1>7. ASSUME NEW r \in BaselineRow PROVE r \in all
  <2>1. PICK key \in Slotted \cup Lasting, hash \in hashes : r = [key |-> key, hash |-> hash]
    <3>1. r.key \in Slotted \cup Lasting /\ r.hash \in hashes /\ r = [key |-> r.key, hash |-> r.hash]
      BY <1>2 DEF BaselineRow
    <3> QED  BY <3>1
  <2>2. PICK p \in pairs : p = <<key, hash>> /\ p[1] = key /\ p[2] = hash
    <3>1. <<key, hash>> \in pairs
      BY <1>3, <2>1
    <3> QED  BY <3>1
  <2>3. f[p] = r
    BY <1>4, <2>1, <2>2
  <2> QED  BY <1>5, <2>2, <2>3
<1>8. ASSUME NEW set \in SUBSET BaselineRow PROVE IsFiniteSet(set) /\ Cardinality(set) \in Nat
  <2>1. IsFiniteSet(set)
    BY <1>6, <1>7, FS_Subset
  <2> QED  BY <2>1, FS_CardinalityType
<1> QED  BY <1>8

(* One line more.                                                           *)
LEMMA OneLineMore ==
    ASSUME NEW lines \in Seq(BaselineRow \cup {BadLine, BlankLine}), NEW n \in Nat, n < Len(lines)
    PROVE  /\ IsFiniteSet(RowsAmong(lines, n)) /\ Cardinality(RowsAmong(lines, n)) \in Nat
           /\ lines[n + 1] = BlankLine => RowsAmong(lines, n + 1) = RowsAmong(lines, n)
           /\ lines[n + 1] # BlankLine =>
                /\ RowsAmong(lines, n + 1) = RowsAmong(lines, n) \cup {n + 1}
                /\ Cardinality(RowsAmong(lines, n + 1)) = Cardinality(RowsAmong(lines, n)) + 1
           /\ lines[n + 1] \in {BlankLine, BadLine} => KeysAmong(lines, n + 1) = KeysAmong(lines, n)
           /\ lines[n + 1] \notin {BlankLine, BadLine} =>
                KeysAmong(lines, n + 1) = KeysAmong(lines, n) \cup {lines[n + 1].key}
<1>1. \A i : i \in 1 .. n + 1 <=> i \in 1 .. n \/ i = n + 1
  OBVIOUS
<1>2. IsFiniteSet(RowsAmong(lines, n)) /\ Cardinality(RowsAmong(lines, n)) \in Nat
  <2>1. IsFiniteSet(1 .. n)
    BY FS_Interval
  <2>2. RowsAmong(lines, n) \subseteq 1 .. n
    BY DEF RowsAmong
  <2>3. IsFiniteSet(RowsAmong(lines, n))
    BY <2>1, <2>2, FS_Subset
  <2> QED  BY <2>3, FS_CardinalityType
<1>3. lines[n + 1] = BlankLine => RowsAmong(lines, n + 1) = RowsAmong(lines, n)
  BY <1>1 DEF RowsAmong
<1>4. lines[n + 1] # BlankLine => RowsAmong(lines, n + 1) = RowsAmong(lines, n) \cup {n + 1}
  BY <1>1 DEF RowsAmong
<1>5. n + 1 \notin RowsAmong(lines, n)
  BY DEF RowsAmong
<1>6. lines[n + 1] # BlankLine => Cardinality(RowsAmong(lines, n + 1)) = Cardinality(RowsAmong(lines, n)) + 1
  BY <1>2, <1>4, <1>5, FS_AddElement
<1>7. lines[n + 1] \in {BlankLine, BadLine} => KeysAmong(lines, n + 1) = KeysAmong(lines, n)
  BY <1>3, <1>4 DEF KeysAmong
<1>8. ASSUME lines[n + 1] \notin {BlankLine, BadLine}
      PROVE  KeysAmong(lines, n + 1) = KeysAmong(lines, n) \cup {lines[n + 1].key}
  <2>1. ASSUME NEW i
        PROVE  i \in {j \in RowsAmong(lines, n + 1) : lines[j] # BadLine}
               <=> i \in {j \in RowsAmong(lines, n) : lines[j] # BadLine} \/ i = n + 1
    BY <1>4, <1>8
  <2> QED  BY <2>1 DEF KeysAmong
<1> QED  BY <1>2, <1>3, <1>4, <1>6, <1>7, <1>8

(* Whether the file may be a writer's, one line further.                    *)
LEMMA FairSoFar ==
    ASSUME NEW lines \in Seq(BaselineRow \cup {BadLine, BlankLine}), NEW n \in Nat, n < Len(lines)
    PROVE  /\ lines[n + 1] = BlankLine => (Fair(lines, n + 1) <=> Fair(lines, n))
           /\ lines[n + 1] # BlankLine =>
                (Fair(lines, n + 1) <=>
                   /\ Fair(lines, n) /\ lines[n + 1] # BadLine
                   /\ \A i \in RowsAmong(lines, n) : lines[i].key # lines[n + 1].key
                   /\ \A j \in 1 .. n : lines[j] # BlankLine)
<1>1. lines[n + 1] = BlankLine => (Fair(lines, n + 1) <=> Fair(lines, n))
  BY OneLineMore DEF Fair
<1>2. ASSUME lines[n + 1] # BlankLine
      PROVE  Fair(lines, n + 1) <=>
               /\ Fair(lines, n) /\ lines[n + 1] # BadLine
               /\ \A i \in RowsAmong(lines, n) : lines[i].key # lines[n + 1].key
               /\ \A j \in 1 .. n : lines[j] # BlankLine
  <2>1. RowsAmong(lines, n + 1) = RowsAmong(lines, n) \cup {n + 1}
    BY <1>2, OneLineMore
  <2>2. \A i \in RowsAmong(lines, n) : i \in Nat /\ i < n + 1
    BY DEF RowsAmong
  <2>3. (n + 1) - 1 = n
    OBVIOUS
  <2>4. ASSUME Fair(lines, n + 1)
        PROVE  /\ Fair(lines, n) /\ lines[n + 1] # BadLine
               /\ \A i \in RowsAmong(lines, n) : lines[i].key # lines[n + 1].key
               /\ \A j \in 1 .. n : lines[j] # BlankLine
    BY <2>1, <2>2, <2>3, <2>4 DEF Fair
  <2>5. ASSUME Fair(lines, n), lines[n + 1] # BadLine,
               \A i \in RowsAmong(lines, n) : lines[i].key # lines[n + 1].key,
               \A j \in 1 .. n : lines[j] # BlankLine
        PROVE  Fair(lines, n + 1)
    <3>1. \A i \in RowsAmong(lines, n + 1) : lines[i] # BadLine
      BY <2>1, <2>5 DEF Fair
    <3>2. ASSUME NEW i \in RowsAmong(lines, n + 1), NEW j \in RowsAmong(lines, n + 1), i < j
          PROVE  lines[i].key # lines[j].key
      <4>1. i \in RowsAmong(lines, n)
        BY <2>1, <2>2, <3>2
      <4>2. CASE j \in RowsAmong(lines, n)
        BY <2>5, <3>2, <4>1, <4>2 DEF Fair
      <4>3. CASE j = n + 1
        BY <2>5, <4>1, <4>3
      <4> QED  BY <2>1, <4>2, <4>3
    <3>3. ASSUME NEW i \in RowsAmong(lines, n + 1) PROVE \A j \in 1 .. i - 1 : lines[j] # BlankLine
      BY <2>1, <2>3, <2>5 DEF Fair
    <3> QED  BY <3>1, <3>2, <3>3 DEF Fair
  <2> QED  BY <2>4, <2>5
<1> QED  BY <1>1, <1>2

(* The row at the back is the largest held apart.                           *)
LEMMA BackIs ==
    ASSUME parser \in Parsers, parser.held # {}, \A r \in parser.held : r.key \in Slotted
    PROVE  Back \in parser.held /\ \A other \in parser.held : other.key <= Back.key
<1>1. PICK keyed : keyed = [r \in parser.held |-> r.key]
  OBVIOUS
<1>2. PICK keys \in SUBSET Nat : keys = {keyed[r] : r \in parser.held}
  BY <1>1, DbFacts
<1>3. IsFiniteSet(keys)
  <2>1. IsFiniteSet(parser.held)
    BY RowsAreFinite DEF Parsers
  <2>2. keyed = [r \in parser.held |-> keyed[r]]
    BY <1>1
  <2> QED  BY <1>2, <2>1, <2>2, ImageOf
<1>4. PICK most \in keys : \A k \in keys : k <= most
  <2>1. keys # {}
    BY <1>2
  <2> QED  BY <1>2, <1>3, <2>1, GreatestOf
<1>5. PICK r \in parser.held : r.key = most
  BY <1>1, <1>2
<1>6. \A other \in parser.held : other.key <= r.key
  BY <1>1, <1>2, <1>4, <1>5
<1> QED  BY <1>5, <1>6 DEF Back

(* What moving rc1's slots makes of the rows: no more, and of no key two.   *)
LEMMA AdoptedIs ==
    ASSUME NEW p \in Parsers, Distinct(p.kept \cup p.held), \A r \in p.held : r.key \in Slotted,
           p.held = {} \/ \A r \in p.kept : r.key \in Lasting
    PROVE  /\ Adopted(p) \in SUBSET BaselineRow /\ Distinct(Adopted(p))
           /\ Cardinality(Adopted(p)) <= Cardinality(p.kept) + Cardinality(p.held)
<1>1. PICK first : first = {r \in p.held : \A other \in p.held :
                              other.key < r.key => MigratedSlot[other.key] # MigratedSlot[r.key]}
  OBVIOUS
<1>2. PICK moved : moved = [r \in first |-> [key |-> MigratedSlot[r.key], hash |-> r.hash]]
  OBVIOUS
<1>3. PICK image : image = {moved[r] : r \in first}
  OBVIOUS
<1>4. Adopted(p) = p.kept \cup image
  BY <1>1, <1>2, <1>3 DEF Adopted
<1>5. first \subseteq p.held /\ p.held \subseteq BaselineRow /\ p.kept \subseteq BaselineRow
  BY <1>1 DEF Parsers
<1>6. \A r \in first : moved[r] \in BaselineRow /\ moved[r].key = MigratedSlot[r.key] /\ moved[r].key \in Slotted
                       /\ moved[r].hash = r.hash
  <2>1. SUFFICES ASSUME NEW r \in first
                 PROVE  moved[r] \in BaselineRow /\ moved[r].key = MigratedSlot[r.key]
                        /\ moved[r].key \in Slotted /\ moved[r].hash = r.hash
    OBVIOUS
  <2>2. r \in p.held /\ r \in BaselineRow
    BY <1>5
  <2>3. r.key \in Slotted /\ r.hash \in {1, 2}
    BY <2>2 DEF BaselineRow
  <2>4. PICK key \in Slotted : key = MigratedSlot[r.key]
    BY <2>3, DbFacts
  <2> QED  BY <1>2, <2>3, <2>4 DEF BaselineRow
<1>7. Distinct(image)
  <2>1. SUFFICES ASSUME NEW r \in first, NEW s \in first, moved[r].key = moved[s].key PROVE r = s
    BY <1>3 DEF Distinct
  <2>2. MigratedSlot[r.key] = MigratedSlot[s.key] /\ r.key \in Nat /\ s.key \in Nat
    BY <1>5, <1>6, <2>1, DbFacts
  <2>3. ~(r.key < s.key) /\ ~(s.key < r.key)
    BY <1>1, <2>2
  <2>4. r.key = s.key
    BY <2>2, <2>3
  <2> QED  BY <1>5, <2>4 DEF Distinct
<1>8. Distinct(Adopted(p))
  <2>1. SUFFICES ASSUME NEW r \in Adopted(p), NEW s \in Adopted(p), r.key = s.key PROVE r = s
    BY DEF Distinct
  <2>2. CASE r \in p.kept /\ s \in p.kept
    BY <2>1, <2>2 DEF Distinct
  <2>3. CASE r \in image /\ s \in image
    BY <1>7, <2>1, <2>3 DEF Distinct
  <2>4. ASSUME NEW a \in p.kept, NEW b \in image PROVE a.key # b.key
    <3>1. PICK c \in first : b = moved[c]
      BY <1>3
    <3>2. b.key \in Slotted
      BY <1>6, <3>1
    <3>3. p.held # {}
      BY <1>5, <3>1
    <3> QED  BY <3>2, <3>3, DbFacts
  <2> QED  BY <1>4, <2>1, <2>2, <2>3, <2>4
<1>9. Cardinality(image) <= Cardinality(p.held) /\ IsFiniteSet(image)
  <2>1. IsFiniteSet(p.held) /\ IsFiniteSet(first) /\ Cardinality(first) <= Cardinality(p.held)
    <3>1. IsFiniteSet(p.held)
      BY <1>5, RowsAreFinite
    <3> QED  BY <1>5, <3>1, FS_Subset
  <2>2. moved \in Surjection(first, image)
    BY <1>2, <1>3 DEF Surjection
  <2>3. IsFiniteSet(image) /\ Cardinality(image) <= Cardinality(first)
    BY <2>1, <2>2, FS_Surjection
  <2> QED  BY <2>1, <2>3, FS_CardinalityType
<1>10. Cardinality(Adopted(p)) <= Cardinality(p.kept) + Cardinality(p.held)
  <2>1. IsFiniteSet(p.kept) /\ Cardinality(p.kept) \in Nat /\ Cardinality(p.held) \in Nat
    BY <1>5, RowsAreFinite
  <2>2. Cardinality(p.kept \cup image) = Cardinality(p.kept) + Cardinality(image) - Cardinality(p.kept \cap image)
    BY <1>9, <2>1, FS_Union
  <2>3. Cardinality(image) \in Nat /\ Cardinality(p.kept \cap image) \in Nat
    <3>1. IsFiniteSet(p.kept \cap image)
      BY <1>9, FS_Subset
    <3> QED  BY <1>9, <3>1, FS_CardinalityType
  <2> QED  BY <1>4, <1>9, <2>1, <2>2, <2>3
<1>11. Adopted(p) \in SUBSET BaselineRow
  BY <1>3, <1>4, <1>5, <1>6
<1> QED  BY <1>8, <1>10, <1>11

(* A file is intact when all its lines are fair and its rows are in bounds. *)
LEMMA IntactIs ==
    ASSUME NEW file \in StateFiles
    PROVE  Intact(file) <=>
             /\ Fair(file.lines, Len(file.lines))
             /\ Cardinality(RowsAmong(file.lines, Len(file.lines)))
                  <= IF file.head = "rc1" THEN kRc1MaxRecords ELSE kMaxBaseline
<1>1. PICK lines, n : lines = file.lines /\ n = Len(file.lines)
  OBVIOUS
<1>2. lines \in Seq(BaselineRow \cup {BadLine, BlankLine}) /\ DOMAIN lines = 1 .. n /\ n \in Nat
  BY <1>1 DEF StateFiles
<1>3. PICK isRow : isRow = {i \in DOMAIN file.lines : file.lines[i] # BlankLine}
  OBVIOUS
<1>4. isRow = RowsAmong(lines, n)
  BY <1>1, <1>2, <1>3 DEF RowsAmong
<1>5. Intact(file) <=>
        /\ \A i \in isRow : file.lines[i] # BadLine
        /\ \A i, j \in isRow : i < j => file.lines[i].key # file.lines[j].key
        /\ \A i \in isRow : \A j \in 1 .. i - 1 : j \in isRow
        /\ Cardinality(isRow) <= IF file.head = "rc1" THEN kRc1MaxRecords ELSE kMaxBaseline
  BY <1>3, Zenon DEF Intact
<1>6. (\A i \in isRow : \A j \in 1 .. i - 1 : j \in isRow)
      <=> (\A i \in isRow : \A j \in 1 .. i - 1 : lines[j] # BlankLine)
  <2>1. ASSUME NEW i \in isRow, NEW j \in 1 .. i - 1 PROVE j \in isRow <=> lines[j] # BlankLine
    <3>1. j \in 1 .. n
      BY <1>1, <1>2, <1>3
    <3> QED  BY <1>4, <3>1 DEF RowsAmong
  <2> QED  BY <2>1
<1> QED  BY <1>1, <1>4, <1>5, <1>6 DEF Fair

(* A baseline as it is written out reads back whole.                        *)
LEMMA WrittenIsFair ==
    ASSUME NEW set \in SUBSET BaselineRow, Distinct(set), Cardinality(set) <= kMaxBaseline,
           NEW file, file = StateFile("now", SetToSeq(set), "small")
    PROVE  file \in StateFiles /\ Intact(file) /\ RowsAreRead(file)
<1>1. IsFiniteSet(set) /\ Cardinality(set) \in Nat
  BY RowsAreFinite
<1>2. PICK n \in Nat : n = Cardinality(set)
  BY <1>1
<1>3. \E f \in [1 .. n -> set] : IsInjective(f)
  <2>1. PICK f : f \in Bijection(1 .. n, set)
    <3>1. ExistsBijection(1 .. n, set)
      BY <1>1, <1>2, FS_CardinalityType
    <3> QED  BY <3>1 DEF ExistsBijection
  <2> QED  BY <2>1 DEF Bijection, Injection, IsInjective
<1>4. PICK lines \in [1 .. n -> set] : lines = SetToSeq(set) /\ IsInjective(lines)
  <2>1. SetToSeq(set) \in [1 .. n -> set] /\ IsInjective(SetToSeq(set))
    BY <1>2, <1>3 DEF SetToSeq
  <2> QED  BY <2>1
<1>5. lines \in Seq(BaselineRow \cup {BadLine, BlankLine}) /\ DOMAIN lines = 1 .. n
  <2>1. lines \in [1 .. n -> BaselineRow \cup {BadLine, BlankLine}]
    BY <1>4
  <2> QED  BY <2>1
<1>6. file = [head |-> "now", lines |-> lines, weight |-> "small"]
  BY <1>4 DEF StateFile
<1>7. file \in StateFiles /\ file.head = "now" /\ file.weight = "small" /\ file.lines = lines
  BY <1>5, <1>6 DEF StateFiles
<1>8. \A i \in 1 .. n : lines[i] \in set /\ lines[i] # BadLine /\ lines[i] # BlankLine
  BY <1>4, DbFacts
<1>9. \A i, j \in 1 .. n : i < j => lines[i].key # lines[j].key
  <2>1. ASSUME NEW i \in 1 .. n, NEW j \in 1 .. n, i < j, lines[i].key = lines[j].key PROVE FALSE
    <3>1. lines[i] = lines[j]
      BY <1>8, <2>1 DEF Distinct
    <3> QED  BY <1>4, <1>5, <2>1, <3>1 DEF IsInjective
  <2> QED  BY <2>1
<1>10. Intact(file)
  <2>1. RowsAmong(lines, n) = 1 .. n
    BY <1>8 DEF RowsAmong
  <2>2. Cardinality(1 .. n) = n /\ n <= kMaxBaseline /\ Len(lines) = n
    BY <1>2, <1>5, FS_Interval
  <2>3. Fair(lines, n)
    BY <1>8, <1>9, <2>1 DEF Fair
  <2> QED  BY <1>7, <2>1, <2>2, <2>3, IntactIs
<1> QED  BY <1>7, <1>10 DEF RowsAreRead

(* A row put among the kept, or held apart.                                 *)
LEMMA KeepIs ==
    ASSUME NEW p \in Parsers, NEW row \in BaselineRow, row \notin p.kept \cup p.held,
           NEW q, q = Keep(p, row)
    PROVE  /\ q \in Parsers /\ q.kept \cup q.held = p.kept \cup p.held \cup {row}
           /\ q.gone = p.gone /\ q.rows = p.rows /\ q.blank = p.blank /\ q.bad = p.bad /\ q.over = p.over
           /\ IF HeldApart(row) THEN q.kept = p.kept /\ q.held = p.held \cup {row}
                                ELSE q.held = p.held /\ q.kept = p.kept \cup {row}
           /\ Cardinality(q.kept) + Cardinality(q.held) = Cardinality(p.kept) + Cardinality(p.held) + 1
<1>1. /\ p.kept \subseteq BaselineRow /\ p.held \subseteq BaselineRow
      /\ IsFiniteSet(p.kept) /\ Cardinality(p.kept) \in Nat /\ IsFiniteSet(p.held) /\ Cardinality(p.held) \in Nat
  BY RowsAreFinite DEF Parsers
<1>2. PICK kept \in SUBSET BaselineRow : kept = p.kept \cup {row} /\ Cardinality(kept) = Cardinality(p.kept) + 1
  <2>1. Cardinality(p.kept \cup {row}) = Cardinality(p.kept) + 1
    BY <1>1, FS_AddElement
  <2>2. p.kept \cup {row} \in SUBSET BaselineRow
    BY <1>1
  <2> QED  BY <2>1, <2>2
<1>3. PICK held \in SUBSET BaselineRow : held = p.held \cup {row} /\ Cardinality(held) = Cardinality(p.held) + 1
  <2>1. Cardinality(p.held \cup {row}) = Cardinality(p.held) + 1
    BY <1>1, FS_AddElement
  <2>2. p.held \cup {row} \in SUBSET BaselineRow
    BY <1>1
  <2> QED  BY <2>1, <2>2
<1>4. CASE HeldApart(row)
  <2>1. q = [p EXCEPT !.held = held]
    BY <1>3, <1>4 DEF Keep
  <2> QED  BY <1>1, <1>3, <1>4, <2>1 DEF Parsers
<1>5. CASE ~HeldApart(row)
  <2>1. q = [p EXCEPT !.kept = kept]
    BY <1>2, <1>5 DEF Keep
  <2> QED  BY <1>1, <1>2, <1>5, <2>1 DEF Parsers
<1> QED  BY <1>4, <1>5

\* What TakeRow makes of the parser.
Taken(row) ==
    IF Room THEN Keep(Counted1, row)
    ELSE IF GivesWay(row)
    THEN Keep([Counted1 EXCEPT !.held = @ \ {Back}, !.gone = @ \cup {Back.key}], row)
    ELSE [Counted1 EXCEPT !.gone = @ \cup {row.key}]

LEMMA CountedIs ==
    ASSUME parser \in Parsers
    PROVE  /\ Counted1 \in Parsers /\ Counted1.kept = parser.kept /\ Counted1.held = parser.held
           /\ Counted1.gone = parser.gone /\ Counted1.rows = parser.rows + 1 /\ Counted1.blank = FALSE
           /\ Counted1.bad = (parser.bad \/ parser.blank) /\ Counted1.over = parser.over
<1>1. PICK bad \in BOOLEAN : bad = (parser.bad \/ parser.blank)
  BY Zenon
<1>2. PICK counted : counted = [parser EXCEPT !.rows = @ + 1, !.bad = bad, !.blank = FALSE]
  OBVIOUS
<1>3. Counted1 = counted
  BY <1>1, <1>2, Zenon DEF Counted1
<1>4. /\ counted \in Parsers /\ counted.kept = parser.kept /\ counted.held = parser.held
      /\ counted.gone = parser.gone /\ counted.rows = parser.rows + 1 /\ counted.blank = FALSE
      /\ counted.bad = bad /\ counted.over = parser.over
  <2>1. PICK no \in BOOLEAN : no = FALSE
    OBVIOUS
  <2>2. PICK n \in Nat : n = parser.rows + 1
    BY DEF Parsers
  <2>3. counted = [parser EXCEPT !.rows = n, !.bad = bad, !.blank = no]
    BY <1>2, <2>1, <2>2
  <2>4. /\ counted \in Parsers /\ counted.kept = parser.kept /\ counted.held = parser.held
        /\ counted.gone = parser.gone /\ counted.rows = n
        /\ counted.blank = no /\ counted.bad = bad /\ counted.over = parser.over
    BY <2>3 DEF Parsers
  <2> QED  BY <2>1, <2>2, <2>4
<1> QED  BY <1>1, <1>3, <1>4

LEMMA TakenIs ==
    ASSUME DbTyped, LinesFollow, HeldInOrder, desk.at = "lines", ~parser.over, parser.rows < RowBound,
           NEW row \in BaselineRow, ~Second(row), NEW q, q = Taken(row)
    PROVE  /\ q \in Parsers /\ q.rows = Counted1.rows /\ q.blank = Counted1.blank
           /\ q.bad = Counted1.bad /\ q.over = Counted1.over
           /\ Cardinality(q.kept) + Cardinality(q.held) <= kMaxBaseline
           /\ Cardinality(q.kept) + Cardinality(q.held) <= Cardinality(parser.kept) + Cardinality(parser.held) + 1
           /\ q.kept \cup q.held \subseteq parser.kept \cup parser.held \cup {row}
           /\ KeysIn(q.kept \cup q.held) \cup q.gone = KeysIn(parser.kept \cup parser.held) \cup parser.gone \cup {row.key}
           /\ desk.file.head # "rc1" => q.held = {} /\ q.gone = {}
           /\ desk.file.head = "rc1" => \A r \in q.kept : r.key \in Lasting
           /\ \A r \in q.held : r.key \in Slotted
           /\ Distinct(q.kept \cup q.held)
           /\ q.gone # {} => Cardinality(q.kept) + Cardinality(q.held) = kMaxBaseline
           /\ \A k \in q.gone, r \in q.held : k \in Slotted /\ r.key < k
<1>1. /\ parser \in Parsers /\ parser.kept \subseteq BaselineRow /\ parser.held \subseteq BaselineRow
      /\ IsFiniteSet(parser.kept) /\ Cardinality(parser.kept) \in Nat
      /\ IsFiniteSet(parser.held) /\ Cardinality(parser.held) \in Nat
      /\ Cardinality(parser.kept) + Cardinality(parser.held) <= kMaxBaseline
      /\ row.key \in Slotted \cup Lasting /\ kMaxBaseline \in Nat
  BY RowsAreFinite, DbFacts DEF DbTyped, Parsers, BaselineRow
<1>2. /\ row \notin parser.kept \cup parser.held /\ row.key \notin KeysIn(parser.kept \cup parser.held)
      /\ row.key \notin parser.gone /\ \A r \in parser.kept \cup parser.held : r.key # row.key
  BY DEF Second, KeysIn
<1>3. /\ desk.file.head # "rc1" => parser.held = {} /\ parser.gone = {}
      /\ desk.file.head = "rc1" => \A r \in parser.kept : r.key \in Lasting
      /\ \A r \in parser.held : r.key \in Slotted
      /\ Distinct(parser.kept \cup parser.held)
      /\ parser.gone # {} => Cardinality(parser.kept) + Cardinality(parser.held) = kMaxBaseline
      /\ \A k \in parser.gone, r \in parser.held : k \in Slotted /\ r.key < k
  BY DEF HeldInOrder
<1>4. Cardinality(parser.kept) + Cardinality(parser.held) <= parser.rows /\ parser.rows \in Nat
  BY <1>1 DEF LinesFollow, Parsers
<1>5. desk.file.head # "rc1" => Room /\ ~HeldApart(row)
  BY <1>1, <1>4 DEF RowBound, Room, HeldApart
<1>6. HeldApart(row) => desk.file.head = "rc1" /\ row.key \in Slotted
  BY DEF HeldApart
<1>7. ~HeldApart(row) /\ desk.file.head = "rc1" => row.key \in Lasting
  BY <1>1 DEF HeldApart
<1>8. PICK counted \in Parsers :
        /\ counted = Counted1 /\ counted.kept = parser.kept /\ counted.held = parser.held
        /\ counted.gone = parser.gone
  BY <1>1, CountedIs
<1>9. ASSUME NEW set, set \subseteq parser.kept \cup parser.held \cup {row} PROVE Distinct(set)
  BY <1>2, <1>3, <1>9 DEF Distinct
<1>10. CASE Room
  <2>1. q = Keep(counted, row)
    BY <1>8, <1>10 DEF Taken
  <2>2. /\ q \in Parsers /\ q.kept \cup q.held = parser.kept \cup parser.held \cup {row}
        /\ q.gone = parser.gone /\ q.rows = counted.rows /\ q.blank = counted.blank /\ q.bad = counted.bad
        /\ q.over = counted.over
        /\ IF HeldApart(row) THEN q.kept = parser.kept /\ q.held = parser.held \cup {row}
                             ELSE q.held = parser.held /\ q.kept = parser.kept \cup {row}
        /\ Cardinality(q.kept) + Cardinality(q.held) = Cardinality(parser.kept) + Cardinality(parser.held) + 1
    BY <1>2, <1>8, <2>1, KeepIs
  <2>3. parser.gone = {}
    BY <1>1, <1>3, <1>10 DEF Room
  <2>4. Cardinality(q.kept) + Cardinality(q.held) <= kMaxBaseline
    BY <1>1, <1>10, <2>2 DEF Room
  <2>5. KeysIn(q.kept \cup q.held) = KeysIn(parser.kept \cup parser.held) \cup {row.key}
    BY <2>2 DEF KeysIn
  <2>6. desk.file.head # "rc1" => q.held = {} /\ q.gone = {}
    BY <1>3, <1>5, <2>2
  <2>7. /\ desk.file.head = "rc1" => \A r \in q.kept : r.key \in Lasting
        /\ \A r \in q.held : r.key \in Slotted
    BY <1>3, <1>6, <1>7, <2>2
  <2>8. Distinct(q.kept \cup q.held)
    BY <1>9, <2>2
  <2>9. q.rows = Counted1.rows /\ q.blank = Counted1.blank /\ q.bad = Counted1.bad /\ q.over = Counted1.over
    BY <1>8, <2>2
  <2>10. Cardinality(q.kept) + Cardinality(q.held) <= Cardinality(parser.kept) + Cardinality(parser.held) + 1
    BY <1>1, <2>2
  <2>11. KeysIn(q.kept \cup q.held) \cup q.gone = KeysIn(parser.kept \cup parser.held) \cup parser.gone \cup {row.key}
    BY <2>2, <2>3, <2>5
  <2>12. q.gone = {}
    BY <2>2, <2>3
  <2> QED  BY <2>2, <2>4, <2>6, <2>7, <2>8, <2>9, <2>10, <2>11, <2>12
<1>11. CASE ~Room /\ GivesWay(row)
  <2>1. /\ parser.held # {} /\ Back \in parser.held /\ \A other \in parser.held : other.key <= Back.key
    BY <1>1, <1>3, <1>11, BackIs DEF GivesWay
  <2>2. PICK back \in parser.held : back = Back
    BY <2>1
  <2>3. /\ \A r \in parser.held \ {back} : r.key < back.key
        /\ back.key \in Slotted /\ back.key \in Nat
        /\ HeldApart(row) => row.key < back.key
    <3>1. back.key \in Slotted /\ \A r \in parser.held : r.key \in Nat
      BY <1>3, DbFacts
    <3>2. \A r \in parser.held \ {back} : r.key # back.key
      BY <1>3 DEF Distinct
    <3> QED  BY <1>11, <2>1, <2>2, <3>1, <3>2 DEF GivesWay
  <2>4. PICK fewer \in SUBSET BaselineRow : fewer = parser.held \ {back} /\ Cardinality(fewer) = Cardinality(parser.held) - 1
    <3>1. IsFiniteSet(parser.held) /\ back \in parser.held
      BY <1>1, <2>2, Zenon
    <3>2. Cardinality(parser.held \ {back}) = Cardinality(parser.held) - 1
      BY <3>1, FS_RemoveElement, Zenon
    <3>3. parser.held \ {back} \in SUBSET BaselineRow
      BY <1>1, Zenon
    <3> QED  BY <3>2, <3>3, Zenon
  <2>5. PICK gone \in SUBSET (Slotted \cup Lasting) : gone = parser.gone \cup {back.key}
    BY <1>1, <2>3 DEF Parsers
  <2>6. PICK less : less = [counted EXCEPT !.held = fewer, !.gone = gone]
    OBVIOUS
  <2>7. /\ less \in Parsers /\ less.kept = parser.kept /\ less.held = fewer /\ less.gone = gone
        /\ less.rows = counted.rows /\ less.blank = counted.blank /\ less.bad = counted.bad /\ less.over = counted.over
    BY <1>8, <2>6 DEF Parsers
  <2>8. q = Keep(less, row)
    <3>1. less = [counted EXCEPT !.held = @ \ {Back}, !.gone = @ \cup {Back.key}]
      BY <1>8, <2>2, <2>4, <2>5, <2>6
    <3> QED  BY <1>8, <1>11, <3>1 DEF Taken
  <2>9. /\ q \in Parsers /\ q.kept \cup q.held = parser.kept \cup fewer \cup {row}
        /\ q.gone = gone /\ q.rows = counted.rows /\ q.blank = counted.blank /\ q.bad = counted.bad
        /\ q.over = counted.over
        /\ IF HeldApart(row) THEN q.kept = parser.kept /\ q.held = fewer \cup {row}
                             ELSE q.held = fewer /\ q.kept = parser.kept \cup {row}
        /\ Cardinality(q.kept) + Cardinality(q.held) = Cardinality(parser.kept) + Cardinality(fewer) + 1
    <3>1. row \notin less.kept \cup less.held
      BY <1>2, <2>4, <2>7
    <3> QED  BY <2>7, <2>8, <3>1, KeepIs
  <2>10. Cardinality(q.kept) + Cardinality(q.held) = kMaxBaseline
    BY <1>1, <1>11, <2>4, <2>9 DEF Room
  <2>11. KeysIn(q.kept \cup q.held) \cup q.gone = KeysIn(parser.kept \cup parser.held) \cup parser.gone \cup {row.key}
    BY <2>4, <2>5, <2>9 DEF KeysIn
  <2>12. \A k \in q.gone, r \in q.held : k \in Slotted /\ r.key < k
    <3>1. ASSUME NEW k \in q.gone, NEW r \in q.held PROVE k \in Slotted /\ r.key < k
      <4>1. k \in Slotted /\ k \in Nat /\ back.key <= k
        <5>1. k \in parser.gone \/ k = back.key
          BY <2>5, <2>9
        <5>2. ASSUME k \in parser.gone PROVE k \in Slotted /\ back.key < k
          BY <1>3, <5>2
        <5>3. k \in Slotted /\ (back.key < k \/ k = back.key)
          BY <2>3, <5>1, <5>2
        <5>4. k \in Nat
          BY <5>3, DbFacts
        <5> QED  BY <2>3, <5>3, <5>4
      <4>2. r.key < back.key /\ r.key \in Nat
        BY <1>3, <1>6, <2>3, <2>4, <2>9, DbFacts, ZenonT(30)
      <4> QED  BY <2>3, <4>1, <4>2
    <3> QED  BY <3>1
  <2>13. desk.file.head = "rc1"
    BY <1>5, <1>11
  <2>14. /\ \A r \in q.kept : r.key \in Lasting
         /\ \A r \in q.held : r.key \in Slotted
    BY <1>3, <1>6, <1>7, <2>4, <2>9, <2>13
  <2>15. Distinct(q.kept \cup q.held) /\ q.kept \cup q.held \subseteq parser.kept \cup parser.held \cup {row}
    BY <1>9, <2>4, <2>9
  <2>16. q.rows = Counted1.rows /\ q.blank = Counted1.blank /\ q.bad = Counted1.bad /\ q.over = Counted1.over
    BY <1>8, <2>9
  <2>17. /\ Cardinality(q.kept) + Cardinality(q.held) <= kMaxBaseline
         /\ Cardinality(q.kept) + Cardinality(q.held) <= Cardinality(parser.kept) + Cardinality(parser.held) + 1
    BY <1>1, <1>11, <2>10 DEF Room
  <2> QED  BY <2>9, <2>10, <2>11, <2>12, <2>13, <2>14, <2>15, <2>16, <2>17
<1>12. CASE ~Room /\ ~GivesWay(row)
  <2>1. PICK gone \in SUBSET (Slotted \cup Lasting) : gone = parser.gone \cup {row.key}
    BY <1>1 DEF Parsers
  <2>2. q = [counted EXCEPT !.gone = gone]
    BY <1>8, <1>12, <2>1 DEF Taken
  <2>3. /\ q \in Parsers /\ q.kept = parser.kept /\ q.held = parser.held /\ q.gone = gone
        /\ q.rows = counted.rows /\ q.blank = counted.blank /\ q.bad = counted.bad /\ q.over = counted.over
    BY <1>8, <2>2 DEF Parsers
  <2>4. Cardinality(q.kept) + Cardinality(q.held) = kMaxBaseline
    BY <1>1, <1>12, <2>3 DEF Room
  <2>5. \A k \in q.gone, r \in q.held : k \in Slotted /\ r.key < k
    <3>1. ASSUME NEW r \in parser.held PROVE row.key \in Slotted /\ r.key < row.key
      <4>1. Back \in parser.held /\ \A other \in parser.held : other.key <= Back.key
        BY <1>1, <1>3, BackIs
      <4>2. HeldApart(row) /\ ~(row.key < Back.key)
        BY <1>12 DEF GivesWay
      <4>3. row.key \in Slotted /\ row.key # Back.key
        BY <1>2, <1>6, <4>1, <4>2
      <4>4. row.key \in Nat /\ Back.key \in Nat /\ r.key \in Nat /\ r.key <= Back.key
        BY <1>3, <4>1, <4>3, DbFacts
      <4> QED  BY <4>2, <4>3, <4>4
    <3> QED  BY <1>3, <2>1, <2>3, <3>1
  <2> QED  BY <1>1, <1>3, <1>5, <1>8, <1>12, <2>1, <2>3, <2>4, <2>5
<1> QED  BY <1>10, <1>11, <1>12

LEMMA DbParts ==
    ASSUME DbTyped
    PROVE  /\ db \in [path : Files0, old : Files0, tmp : Files0]
           /\ db.path \in Files0 /\ db.old \in Files0 /\ db.tmp \in Files0
           /\ truth \in [file : Files0, ours : BOOLEAN] /\ truth.file \in Files0 /\ truth.ours \in BOOLEAN
           /\ desk \in [at : DeskPlaces, file : Files0, n : Nat] /\ desk.file \in Files0 /\ desk.n \in Nat
           /\ parser \in Parsers /\ Cardinality(parser.kept) + Cardinality(parser.held) <= kMaxBaseline
           /\ Idle \in [at : DeskPlaces, file : Files0, n : Nat] /\ Idle.at = "rest"
  BY DEF DbTyped, Idle, DeskPlaces, Files0

(* One line is read.                                                        *)
LEMMA LineKeeps ==
    ASSUME DbInv, SkipLine \/ PastRowBound \/ Complain \/ TakeRow
    PROVE  DbInv'
<1>0. /\ DbTyped /\ LinesFollow /\ HeldInOrder /\ CommitFollows
      /\ desk.at = "lines" /\ desk.n < Len(desk.file.lines) /\ parser \in Parsers
      /\ desk' = [desk EXCEPT !.n = @ + 1] /\ UNCHANGED <<db, baseline, truth, reads, dbFaults>>
  BY DbParts DEF DbInv, SkipLine, PastRowBound, Complain, TakeRow, RowArrives, LineComes, Onward1
<1>1. /\ desk' \in [at : DeskPlaces, file : Files0, n : Nat]
      /\ desk'.at = "lines" /\ desk'.file = desk.file /\ desk'.n = desk.n + 1
  BY <1>0, DbParts
<1>2. PICK lines, n : lines = desk.file.lines /\ n = desk.n
  OBVIOUS
<1>3. /\ desk.file \in StateFiles /\ RowsAreRead(desk.file) /\ lines \in Seq(BaselineRow \cup {BadLine, BlankLine})
      /\ n \in Nat /\ n < Len(lines) /\ Len(lines) \in Nat
  BY <1>0, <1>2, DbParts DEF LinesFollow, StateFiles
<1>4. PICK among \in Nat : among = Cardinality(RowsAmong(lines, n))
  BY <1>3, OneLineMore
<1>5. /\ parser.over => among > RowBound
      /\ ~parser.over =>
           /\ parser.rows = among /\ parser.rows <= RowBound
           /\ Cardinality(parser.kept) + Cardinality(parser.held) <= parser.rows
           /\ parser.bad <=> ~Fair(lines, n)
           /\ ~parser.bad => (parser.blank <=> \E i \in 1 .. n : lines[i] = BlankLine)
           /\ \A r \in parser.kept \cup parser.held : \E i \in RowsAmong(lines, n) : lines[i] = r
           /\ KeysIn(parser.kept \cup parser.held) \cup parser.gone = KeysAmong(lines, n)
  BY <1>0, <1>2, <1>4 DEF LinesFollow
<1>6. NextLine = lines[n + 1] /\ NextLine \in BaselineRow \cup {BadLine, BlankLine}
  <2>1. n + 1 \in 1 .. Len(lines)
    BY <1>3
  <2>2. lines[n + 1] \in BaselineRow \cup {BadLine, BlankLine}
    BY <1>3, <2>1, ElementOfSeq
  <2> QED  BY <1>2, <2>2 DEF NextLine
<1>7. RowBound \in Nat /\ RowBound' = RowBound
  BY <1>1, DbFacts DEF RowBound
<1>8. CommitFollows'
  BY <1>0, <1>1 DEF CommitFollows, Found
<1>9. FirstRowsAreKept'
  BY <1>1 DEF FirstRowsAreKept
<1>10. ASSUME parser' \in Parsers, Cardinality(parser'.kept) + Cardinality(parser'.held) <= kMaxBaseline
       PROVE  DbTyped'
  BY <1>0, <1>1, <1>10 DEF DbTyped
<1>11. ASSUME parser'.over => Cardinality(RowsAmong(lines, n + 1)) > RowBound,
              ~parser'.over =>
                /\ parser'.rows = Cardinality(RowsAmong(lines, n + 1)) /\ parser'.rows <= RowBound
                /\ Cardinality(parser'.kept) + Cardinality(parser'.held) <= parser'.rows
                /\ parser'.bad <=> ~Fair(lines, n + 1)
                /\ ~parser'.bad => (parser'.blank <=> \E i \in 1 .. n + 1 : lines[i] = BlankLine)
                /\ \A r \in parser'.kept \cup parser'.held : \E i \in RowsAmong(lines, n + 1) : lines[i] = r
                /\ KeysIn(parser'.kept \cup parser'.held) \cup parser'.gone = KeysAmong(lines, n + 1)
       PROVE  LinesFollow'
  <2>1. n + 1 <= Len(lines) /\ RowsAreRead(desk'.file)
    BY <1>1, <1>3
  <2> QED  BY <1>1, <1>2, <1>3, <1>7, <1>11, <2>1 DEF LinesFollow
<1>12. ASSUME parser'.kept = parser.kept, parser'.held = parser.held, parser'.gone = parser.gone
       PROVE  HeldInOrder'
  BY <1>0, <1>1, <1>12 DEF HeldInOrder, Distinct
<1>13. CASE SkipLine
  <2>1. CASE parser.over
    <3>1. parser' = parser
      BY <1>13, <2>1 DEF SkipLine
    <3>2. Cardinality(RowsAmong(lines, n + 1)) >= among
      BY <1>3, <1>4, OneLineMore
    <3>3. Cardinality(RowsAmong(lines, n + 1)) > RowBound
      BY <1>3, <1>4, <1>5, <1>7, <2>1, <3>2, OneLineMore
    <3> QED  BY <1>0, <1>8, <1>9, <1>10, <1>11, <1>12, <2>1, <3>1, <3>3, DbParts DEF DbInv
  <2>2. CASE ~parser.over
    <3>1. parser' = [parser EXCEPT !.blank = TRUE] /\ lines[n + 1] = BlankLine
      BY <1>6, <1>13, <2>2 DEF SkipLine
    <3>2. PICK yes \in BOOLEAN : yes = TRUE
      OBVIOUS
    <3>3. parser' = [parser EXCEPT !.blank = yes]
      BY <3>1, <3>2
    <3>4. /\ parser' \in Parsers /\ parser'.kept = parser.kept /\ parser'.held = parser.held
          /\ parser'.gone = parser.gone /\ parser'.rows = parser.rows /\ parser'.blank = yes
          /\ parser'.bad = parser.bad /\ parser'.over = parser.over
      BY <1>0, <3>3 DEF Parsers
    <3>5. /\ RowsAmong(lines, n + 1) = RowsAmong(lines, n) /\ KeysAmong(lines, n + 1) = KeysAmong(lines, n)
          /\ Fair(lines, n + 1) <=> Fair(lines, n)
      BY <1>3, <3>1, OneLineMore, FairSoFar
    <3>6. \E i \in 1 .. n + 1 : lines[i] = BlankLine
      <4>1. n + 1 \in 1 .. n + 1
        BY <1>3
      <4> QED  BY <3>1, <4>1
    <3>7. LinesFollow'
      BY <1>4, <1>5, <1>11, <2>2, <3>2, <3>4, <3>5, <3>6
    <3> QED  BY <1>0, <1>8, <1>9, <1>10, <1>12, <3>4, <3>7, DbParts DEF DbInv
  <2> QED  BY <2>1, <2>2
<1>14. CASE PastRowBound
  <2>1. PICK yes \in BOOLEAN : yes = TRUE
    OBVIOUS
  <2>2. parser' = [parser EXCEPT !.over = yes] /\ parser.rows = RowBound /\ ~parser.over /\ lines[n + 1] # BlankLine
    BY <1>6, <1>14, <2>1 DEF PastRowBound, RowArrives
  <2>3. /\ parser' \in Parsers /\ parser'.kept = parser.kept /\ parser'.held = parser.held
        /\ parser'.gone = parser.gone /\ parser'.over = yes
    BY <1>0, <2>2 DEF Parsers
  <2>4. Cardinality(RowsAmong(lines, n + 1)) > RowBound
    BY <1>3, <1>4, <1>5, <1>7, <2>2, OneLineMore
  <2> QED  BY <1>0, <1>8, <1>9, <1>10, <1>11, <1>12, <2>1, <2>3, <2>4, DbParts DEF DbInv
<1>15. ASSUME RowArrives, parser.rows < RowBound
       PROVE  /\ ~parser.over /\ lines[n + 1] # BlankLine /\ parser.rows = among
              /\ Counted1 \in Parsers /\ Counted1.rows = among + 1 /\ Counted1.over = FALSE /\ Counted1.blank = FALSE
              /\ Cardinality(RowsAmong(lines, n + 1)) = among + 1 /\ among + 1 <= RowBound
  <2>1. ~parser.over /\ lines[n + 1] # BlankLine
    BY <1>6, <1>15 DEF RowArrives
  <2>2. parser.rows = among /\ among + 1 <= RowBound
    BY <1>4, <1>5, <1>7, <1>15, <2>1
  <2>3. /\ Counted1 \in Parsers /\ Counted1.rows = parser.rows + 1 /\ Counted1.blank = FALSE
        /\ Counted1.over = parser.over
    BY <1>0, CountedIs
  <2>4. parser.over = FALSE
    BY <1>0, <2>1 DEF Parsers
  <2>5. Cardinality(RowsAmong(lines, n + 1)) = among + 1
    BY <1>3, <1>4, <2>1, OneLineMore
  <2> QED  BY <2>1, <2>2, <2>3, <2>4, <2>5
<1>16. CASE Complain
  <2>1. /\ ~parser.over /\ lines[n + 1] # BlankLine /\ parser.rows = among
        /\ Counted1 \in Parsers /\ Counted1.rows = among + 1 /\ Counted1.over = FALSE /\ Counted1.blank = FALSE
        /\ Cardinality(RowsAmong(lines, n + 1)) = among + 1 /\ among + 1 <= RowBound
    BY <1>15, <1>16 DEF Complain
  <2>2. PICK yes \in BOOLEAN, counted \in Parsers : yes = TRUE /\ counted = Counted1
    BY <2>1
  <2>3. parser' = [counted EXCEPT !.bad = yes]
    BY <1>16, <2>2 DEF Complain
  <2>4. /\ counted.kept = parser.kept /\ counted.held = parser.held /\ counted.gone = parser.gone
    BY <1>0, <2>2, CountedIs
  <2>5. /\ parser' \in Parsers /\ parser'.kept = parser.kept /\ parser'.held = parser.held
        /\ parser'.gone = parser.gone /\ parser'.rows = among + 1 /\ parser'.over = FALSE /\ parser'.bad = yes
    BY <2>1, <2>2, <2>3, <2>4 DEF Parsers
  <2>6. lines[n + 1] = BadLine \/ lines[n + 1].key \in KeysAmong(lines, n)
    <3>1. lines[n + 1] # BadLine => Second(lines[n + 1])
      BY <1>6, <1>16 DEF Complain
    <3> QED  BY <1>5, <2>1, <3>1 DEF Second
  <2>7. ~Fair(lines, n + 1)
    <3>1. ASSUME lines[n + 1].key \in KeysAmong(lines, n) PROVE \E i \in RowsAmong(lines, n) : lines[i].key = lines[n + 1].key
      BY <3>1 DEF KeysAmong
    <3> QED  BY <1>3, <2>1, <2>6, <3>1, FairSoFar
  <2>8. KeysAmong(lines, n + 1) = KeysAmong(lines, n)
    <3>1. CASE lines[n + 1] = BadLine
      BY <1>3, <3>1, OneLineMore
    <3>2. CASE lines[n + 1] # BadLine
      <4>1. lines[n + 1] \notin {BlankLine, BadLine}
        BY <2>1, <3>2
      <4>2. KeysAmong(lines, n + 1) = KeysAmong(lines, n) \cup {lines[n + 1].key}
        BY <1>3, <4>1, OneLineMore
      <4> QED  BY <2>6, <3>2, <4>2
    <3> QED  BY <3>1, <3>2
  <2>9. RowsAmong(lines, n) \subseteq RowsAmong(lines, n + 1)
    BY <1>3, <2>1, OneLineMore
  <2>10. Cardinality(parser.kept) + Cardinality(parser.held) <= among + 1
    <3>1. Cardinality(parser.kept) \in Nat /\ Cardinality(parser.held) \in Nat
      BY <1>0, RowsAreFinite DEF Parsers
    <3> QED  BY <1>5, <2>1, <3>1
  <2>11. LinesFollow'
    <3>1. \A r \in parser.kept \cup parser.held : \E i \in RowsAmong(lines, n + 1) : lines[i] = r
      BY <1>5, <2>1, <2>9
    <3>2. ~parser'.over =>
            /\ parser'.rows = Cardinality(RowsAmong(lines, n + 1)) /\ parser'.rows <= RowBound
            /\ Cardinality(parser'.kept) + Cardinality(parser'.held) <= parser'.rows
            /\ parser'.bad <=> ~Fair(lines, n + 1)
            /\ ~parser'.bad => (parser'.blank <=> \E i \in 1 .. n + 1 : lines[i] = BlankLine)
            /\ \A r \in parser'.kept \cup parser'.held : \E i \in RowsAmong(lines, n + 1) : lines[i] = r
            /\ KeysIn(parser'.kept \cup parser'.held) \cup parser'.gone = KeysAmong(lines, n + 1)
      BY <1>5, <2>1, <2>2, <2>5, <2>7, <2>8, <2>10, <3>1
    <3> QED  BY <1>11, <2>5, <3>2
  <2> QED  BY <1>0, <1>8, <1>9, <1>10, <1>12, <2>5, <2>11, DbParts DEF DbInv
<1>17. CASE TakeRow
  <2>1. /\ ~parser.over /\ lines[n + 1] # BlankLine /\ parser.rows = among
        /\ Counted1 \in Parsers /\ Counted1.rows = among + 1 /\ Counted1.over = FALSE /\ Counted1.blank = FALSE
        /\ Cardinality(RowsAmong(lines, n + 1)) = among + 1 /\ among + 1 <= RowBound
    BY <1>15, <1>17 DEF TakeRow
  <2>2. PICK row \in BaselineRow : row = lines[n + 1] /\ row = NextLine
    BY <1>6, <1>17, <2>1 DEF TakeRow
  <2>3. ~Second(row) /\ parser' = Taken(row) /\ parser.rows < RowBound
    BY <1>17, <2>2 DEF TakeRow, Taken
  <2>4. PICK q : q = Taken(row) /\ parser' = q
    BY <2>3
  <2>5. /\ q \in Parsers /\ q.rows = Counted1.rows /\ q.blank = Counted1.blank
        /\ q.bad = Counted1.bad /\ q.over = Counted1.over
        /\ Cardinality(q.kept) + Cardinality(q.held) <= kMaxBaseline
        /\ Cardinality(q.kept) + Cardinality(q.held) <= Cardinality(parser.kept) + Cardinality(parser.held) + 1
        /\ q.kept \cup q.held \subseteq parser.kept \cup parser.held \cup {row}
        /\ KeysIn(q.kept \cup q.held) \cup q.gone = KeysIn(parser.kept \cup parser.held) \cup parser.gone \cup {row.key}
        /\ desk.file.head # "rc1" => q.held = {} /\ q.gone = {}
        /\ desk.file.head = "rc1" => \A r \in q.kept : r.key \in Lasting
        /\ \A r \in q.held : r.key \in Slotted
        /\ Distinct(q.kept \cup q.held)
        /\ q.gone # {} => Cardinality(q.kept) + Cardinality(q.held) = kMaxBaseline
        /\ \A k \in q.gone, r \in q.held : k \in Slotted /\ r.key < k
    BY <1>0, <2>1, <2>2, <2>3, <2>4, TakenIs
  <2>6. HeldInOrder'
    BY <1>1, <2>4, <2>5 DEF HeldInOrder, Distinct
  <2>7. q.bad = (parser.bad \/ parser.blank)
    BY <1>0, <2>5, CountedIs
  <2>8. row.key \notin KeysAmong(lines, n) /\ row # BadLine
    BY <1>5, <2>1, <2>2, <2>3, DbFacts DEF Second
  <2>9. Fair(lines, n) => \A i \in RowsAmong(lines, n) : lines[i].key # row.key
    BY <2>8 DEF Fair, KeysAmong
  <2>10. Fair(lines, n + 1) <=> Fair(lines, n) /\ \A j \in 1 .. n : lines[j] # BlankLine
    <3>1. Fair(lines, n + 1) <=>
            /\ Fair(lines, n) /\ lines[n + 1] # BadLine
            /\ \A i \in RowsAmong(lines, n) : lines[i].key # lines[n + 1].key
            /\ \A j \in 1 .. n : lines[j] # BlankLine
      BY <1>3, <2>1, FairSoFar
    <3> QED  BY <2>2, <2>8, <2>9, <3>1
  <2>11. q.bad <=> ~Fair(lines, n + 1)
    BY <1>5, <2>1, <2>7, <2>10
  <2>12. ~q.bad => ~\E i \in 1 .. n + 1 : lines[i] = BlankLine
    <3>1. ASSUME ~q.bad, NEW i \in 1 .. n + 1, lines[i] = BlankLine PROVE FALSE
      <4>1. i \in 1 .. n \/ i = n + 1
        BY <1>3
      <4> QED  BY <2>1, <2>10, <2>11, <3>1, <4>1
    <3> QED  BY <3>1
  <2>13. KeysIn(q.kept \cup q.held) \cup q.gone = KeysAmong(lines, n + 1)
    <3>1. KeysAmong(lines, n + 1) = KeysAmong(lines, n) \cup {row.key}
      BY <1>3, <2>1, <2>2, <2>8, OneLineMore, ZenonT(30)
    <3> QED  BY <1>5, <2>1, <2>5, <3>1
  <2>14. \A r \in q.kept \cup q.held : \E i \in RowsAmong(lines, n + 1) : lines[i] = r
    <3>1. RowsAmong(lines, n + 1) = RowsAmong(lines, n) \cup {n + 1}
      BY <1>3, <2>1, OneLineMore
    <3> QED  BY <1>5, <2>1, <2>2, <2>5, <3>1
  <2>15. Cardinality(q.kept) + Cardinality(q.held) <= among + 1
    <3>1. /\ Cardinality(parser.kept) \in Nat /\ Cardinality(parser.held) \in Nat
          /\ Cardinality(q.kept) \in Nat /\ Cardinality(q.held) \in Nat
      BY <1>0, <2>5, RowsAreFinite DEF Parsers
    <3> QED  BY <1>5, <2>1, <2>5, <3>1
  <2>16. LinesFollow'
    <3>1. ~q.over =>
            /\ q.rows = Cardinality(RowsAmong(lines, n + 1)) /\ q.rows <= RowBound
            /\ Cardinality(q.kept) + Cardinality(q.held) <= q.rows
            /\ q.bad <=> ~Fair(lines, n + 1)
            /\ ~q.bad => (q.blank <=> \E i \in 1 .. n + 1 : lines[i] = BlankLine)
            /\ \A r \in q.kept \cup q.held : \E i \in RowsAmong(lines, n + 1) : lines[i] = r
            /\ KeysIn(q.kept \cup q.held) \cup q.gone = KeysAmong(lines, n + 1)
      BY <2>1, <2>5, <2>11, <2>12, <2>13, <2>14, <2>15
    <3>2. ~q.over
      BY <2>1, <2>5
    <3> QED  BY <1>11, <2>4, <3>1, <3>2
  <2> QED  BY <1>8, <1>9, <1>10, <2>4, <2>5, <2>6, <2>16 DEF DbInv
<1> QED  BY <1>13, <1>14, <1>16, <1>17

(* A tick opens the file, or finds none it would read.                      *)
LEMMA LoadKeeps ==
    ASSUME DbInv, LoadBaseline
    PROVE  DbInv'
<1>0. DbTyped /\ CommitFollows
  BY DEF DbInv
<1>1. PICK none : none = NoLines
  OBVIOUS
<1>2. /\ none \in Parsers /\ none.kept = {} /\ none.held = {} /\ none.gone = {} /\ none.rows = 0
      /\ none.blank = FALSE /\ none.bad = FALSE /\ none.over = FALSE
  <2>1. PICK set \in SUBSET BaselineRow, keys \in SUBSET (Slotted \cup Lasting) : set = {} /\ keys = {}
    OBVIOUS
  <2>2. none = [kept |-> set, held |-> set, gone |-> keys, rows |-> 0, blank |-> FALSE, bad |-> FALSE, over |-> FALSE]
    BY <1>1, <2>1 DEF NoLines
  <2>3. none \in Parsers
    BY <2>2 DEF Parsers
  <2> QED  BY <2>1, <2>2, <2>3
<1>3. Cardinality({}) = 0 /\ kMaxBaseline \in Nat
  BY FS_EmptySet, DbFacts
<1>4. parser' = none /\ baseline' = {} /\ UNCHANGED <<db, truth>>
  BY <1>1 DEF LoadBaseline
<1>5. reads' \in 0 .. MaxReads /\ dbFaults' \in 0 .. MaxDbFaults
  <2>1. reads \in 0 .. MaxReads /\ dbFaults \in 0 .. MaxDbFaults /\ MaxReads \in Nat /\ MaxDbFaults \in Nat
    BY <1>0, DbFacts DEF DbTyped
  <2>2. reads < MaxReads /\ reads' = reads + 1
    BY DEF LoadBaseline
  <2>3. dbFaults' = dbFaults \/ (dbFaults < MaxDbFaults /\ dbFaults' = dbFaults + 1)
    BY Zenon DEF LoadBaseline, DbFault, DbCalm
  <2> QED  BY <2>1, <2>2, <2>3
<1>6. /\ desk' \in [at : DeskPlaces, file : Files0, n : Nat] /\ desk'.at \in {"lines", "ready"}
      /\ desk'.at = "lines" => desk'.file \in StateFiles /\ RowsAreRead(desk'.file) /\ desk'.n = 0
      /\ desk'.at = "ready" => desk'.file = NoFile
  <2>1. CASE desk' = [at |-> "lines", file |-> Found, n |-> 0] /\ Found # NoFile /\ RowsAreRead(Found)
    <3>1. PICK file \in StateFiles : file = Found
      BY <1>0, <2>1, DbParts DEF Found, Files0
    <3>2. desk' = [at |-> "lines", file |-> file, n |-> 0] /\ RowsAreRead(file)
      BY <2>1, <3>1
    <3> QED  BY <3>1, <3>2 DEF DeskPlaces, Files0
  <2>2. CASE desk' = [Idle EXCEPT !.at = "ready"]
    <3>1. desk' = [at |-> "ready", file |-> NoFile, n |-> 0]
      BY <2>2 DEF Idle
    <3> QED  BY <3>1 DEF DeskPlaces, Files0
  <2> QED  BY <2>1, <2>2, Zenon DEF LoadBaseline
<1>7. DbTyped'
  <2>1. Distinct({}) /\ Cardinality({}) <= kMaxBaseline
    BY <1>3 DEF Distinct
  <2>2. Cardinality(none.kept) + Cardinality(none.held) <= kMaxBaseline
    BY <1>2, <1>3
  <2> QED  BY <1>0, <1>2, <1>4, <1>5, <1>6, <2>1, <2>2 DEF DbTyped
<1>8. CommitFollows'
  BY <1>0, <1>4, <1>6 DEF CommitFollows, Found
<1>9. FirstRowsAreKept'
  BY <1>6 DEF FirstRowsAreKept
<1>10. HeldInOrder'
  BY <1>2, <1>4, <1>6 DEF HeldInOrder, Distinct
<1>11. LinesFollow'
  <2>1. SUFFICES ASSUME desk'.at = "lines" PROVE LinesFollow'
    BY DEF LinesFollow
  <2>2. PICK file, lines, n : file = desk'.file /\ lines = file.lines /\ n = desk'.n
    OBVIOUS
  <2>3. lines \in Seq(BaselineRow \cup {BadLine, BlankLine}) /\ Len(lines) \in Nat /\ n = 0 /\ n <= Len(lines)
    BY <1>6, <2>1, <2>2 DEF StateFiles
  <2>4. RowsAmong(lines, n) = {} /\ KeysAmong(lines, n) = {} /\ Fair(lines, n)
    BY <2>3 DEF RowsAmong, KeysAmong, Fair
  <2>5. KeysIn({}) = {}
    BY DEF KeysIn
  <2>6. PICK bound \in Nat : bound = RowBound'
    BY DbFacts DEF RowBound
  <2>7. ~parser'.over /\ ~parser'.bad /\ ~parser'.blank /\ parser'.rows = 0 /\ parser'.kept = {} /\ parser'.held = {}
        /\ parser'.gone = {}
    BY <1>2, <1>4
  <2>8. ~ \E i \in 1 .. n : lines[i] = BlankLine
    BY <2>3
  <2>9. file \in StateFiles /\ RowsAreRead(file)
    BY <1>6, <2>1, <2>2
  <2>10. /\ parser'.rows = Cardinality(RowsAmong(lines, n)) /\ parser'.rows <= bound
         /\ Cardinality(parser'.kept) + Cardinality(parser'.held) <= parser'.rows
    BY <1>3, <2>4, <2>6, <2>7
  <2>11. parser'.bad <=> ~Fair(lines, n)
    BY <2>4, <2>7, Zenon
  <2>12. ~parser'.bad => (parser'.blank <=> \E i \in 1 .. n : lines[i] = BlankLine)
    BY <2>7, <2>8, Zenon
  <2>13. \A r \in parser'.kept \cup parser'.held : \E i \in RowsAmong(lines, n) : lines[i] = r
    BY <2>7
  <2>14. KeysIn(parser'.kept \cup parser'.held) \cup parser'.gone = KeysAmong(lines, n)
    <3>1. parser'.kept \cup parser'.held = {}
      BY <2>7
    <3> QED  BY <2>4, <2>5, <2>7, <3>1
  <2> QED  BY <2>2, <2>3, <2>6, <2>7, <2>9, <2>10, <2>11, <2>12, <2>13, <2>14, Zenon DEF LinesFollow
<1> QED  BY <1>7, <1>8, <1>9, <1>10, <1>11 DEF DbInv

(* The lines are over: all of them count, or none.                          *)
LEMMA FinishLinesKeeps ==
    ASSUME DbInv, FinishLines
    PROVE  DbInv'
<1>0. /\ DbTyped /\ LinesFollow /\ HeldInOrder /\ CommitFollows
      /\ desk.at = "lines" /\ desk.n = Len(desk.file.lines) /\ parser \in Parsers
      /\ desk' = [desk EXCEPT !.at = "ready"] /\ baseline' = Adopted(parser')
      /\ UNCHANGED <<db, truth, reads, dbFaults>>
      /\ parser' = IF parser.over \/ parser.bad THEN NoLines ELSE parser
  BY DbParts DEF DbInv, FinishLines
<1>1. /\ desk' \in [at : DeskPlaces, file : Files0, n : Nat] /\ desk'.at = "ready" /\ desk'.file = desk.file
  BY <1>0, DbParts DEF DeskPlaces
<1>2. PICK file \in StateFiles : file = desk.file
  BY <1>0 DEF LinesFollow
<1>3. PICK lines, n : lines = file.lines /\ n = Len(file.lines)
  OBVIOUS
<1>4. lines \in Seq(BaselineRow \cup {BadLine, BlankLine}) /\ n \in Nat /\ DOMAIN lines = 1 .. n /\ desk.n = n
  BY <1>0, <1>2, <1>3 DEF StateFiles
<1>5. Intact(file) <=> Fair(lines, n) /\ Cardinality(RowsAmong(lines, n)) <= RowBound
  BY <1>2, <1>3, IntactIs DEF RowBound
<1>6. parser.over \/ parser.bad <=> ~Intact(file)
  <2>1. RowBound \in Nat
    BY DbFacts DEF RowBound
  <2>2. Cardinality(RowsAmong(lines, n)) \in Nat
    <3>1. IsFiniteSet(1 .. n) /\ RowsAmong(lines, n) \subseteq 1 .. n
      BY <1>4, FS_Interval DEF RowsAmong
    <3> QED  BY <3>1, FS_Subset, FS_CardinalityType
  <2>3. parser.over => Cardinality(RowsAmong(lines, n)) > RowBound
    BY <1>0, <1>2, <1>3, <1>4 DEF LinesFollow
  <2>4. ~parser.over => /\ Cardinality(RowsAmong(lines, n)) <= RowBound
                        /\ parser.bad <=> ~Fair(lines, n)
    BY <1>0, <1>2, <1>3, <1>4 DEF LinesFollow
  <2> QED  BY <1>5, <2>1, <2>2, <2>3, <2>4
<1>7. PICK q \in Parsers : /\ q = parser' /\ Distinct(q.kept \cup q.held) /\ \A r \in q.held : r.key \in Slotted
                           /\ q.held = {} \/ \A r \in q.kept : r.key \in Lasting
                           /\ Cardinality(q.kept) + Cardinality(q.held) <= kMaxBaseline
  <2>1. CASE parser.over \/ parser.bad
    <3>1. PICK set \in SUBSET BaselineRow, keys \in SUBSET (Slotted \cup Lasting) : set = {} /\ keys = {}
      OBVIOUS
    <3>2. PICK none : none = [kept |-> set, held |-> set, gone |-> keys, rows |-> 0, blank |-> FALSE, bad |-> FALSE,
                              over |-> FALSE]
      OBVIOUS
    <3>3. parser' = none
      BY <1>0, <2>1, <3>1, <3>2 DEF NoLines
    <3>4. none \in Parsers /\ none.kept = {} /\ none.held = {}
      BY <3>1, <3>2 DEF Parsers
    <3>5. Cardinality({}) = 0 /\ kMaxBaseline \in Nat
      BY FS_EmptySet, DbFacts
    <3> QED  BY <3>3, <3>4, <3>5 DEF Distinct
  <2>2. CASE ~(parser.over \/ parser.bad)
    <3>1. parser' = parser
      BY <1>0, <2>2
    <3>2. /\ Distinct(parser.kept \cup parser.held) /\ \A r \in parser.held : r.key \in Slotted
          /\ parser.held = {} \/ \A r \in parser.kept : r.key \in Lasting
      BY <1>0 DEF HeldInOrder
    <3> QED  BY <1>0, <3>1, <3>2, DbParts
  <2> QED  BY <2>1, <2>2
<1>8. /\ baseline' \in SUBSET BaselineRow /\ Distinct(baseline') /\ Cardinality(baseline') <= kMaxBaseline
  <2>1. /\ Adopted(q) \in SUBSET BaselineRow /\ Distinct(Adopted(q))
        /\ Cardinality(Adopted(q)) <= Cardinality(q.kept) + Cardinality(q.held)
    BY <1>7, AdoptedIs
  <2>2. /\ Cardinality(q.kept) \in Nat /\ Cardinality(q.held) \in Nat /\ kMaxBaseline \in Nat
        /\ Cardinality(Adopted(q)) \in Nat
    BY <1>7, <2>1, RowsAreFinite, DbFacts DEF Parsers
  <2> QED  BY <1>0, <1>7, <2>1, <2>2
<1>9. DbTyped'
  BY <1>0, <1>1, <1>7, <1>8 DEF DbTyped, Distinct
<1>10. LinesFollow' /\ HeldInOrder' /\ CommitFollows'
  BY <1>0, <1>1 DEF LinesFollow, HeldInOrder, CommitFollows, Found
<1>11. FirstRowsAreKept'
  <2>1. CASE ~Intact(file)
    <3>1. parser' = NoLines
      BY <1>0, <1>6, <2>1
    <3>2. parser'.kept \cup parser'.held = {}
      BY <3>1 DEF NoLines
    <3> QED  BY <1>1, <1>2, <2>1, <3>2 DEF FirstRowsAreKept
  <2>2. CASE Intact(file)
    <3>1. parser' = parser /\ ~parser.over /\ ~parser.bad
      BY <1>0, <1>6, <2>2
    <3>2. /\ \A r \in parser.kept \cup parser.held : \E i \in RowsAmong(lines, n) : lines[i] = r
          /\ KeysIn(parser.kept \cup parser.held) \cup parser.gone = KeysAmong(lines, n)
      BY <1>0, <1>2, <1>3, <1>4, <3>1 DEF LinesFollow
    <3>3. Fair(lines, n)
      BY <1>5, <2>2
    <3>4. \A r : r \in RowsOf(file) <=> \E i \in RowsAmong(lines, n) : lines[i] = r
      BY <1>3, <1>4, <3>3 DEF RowsOf, RowsAmong, Fair
    <3>5. PICK set : set = parser.kept \cup parser.held
      OBVIOUS
    <3>6. set \subseteq RowsOf(file)
      BY <3>2, <3>4, <3>5
    <3>7. ASSUME NEW gone \in RowsOf(file) \ set
          PROVE  /\ Cardinality(set) = kMaxBaseline /\ desk.file.head = "rc1"
                 /\ \A r \in set : ~Precedes(gone, r)
      <4>1. PICK i \in RowsAmong(lines, n) : lines[i] = gone
        BY <3>4
      <4>2. gone.key \in KeysAmong(lines, n)
        BY <3>3, <4>1 DEF KeysAmong, Fair
      <4>3. gone.key \notin KeysIn(set)
        <5>1. ASSUME NEW r \in set, r.key = gone.key PROVE FALSE
          <6>1. PICK j \in RowsAmong(lines, n) : lines[j] = r
            BY <3>2, <3>5
          <6>2. i \in Nat /\ j \in Nat
            BY DEF RowsAmong
          <6>3. i # j
            BY <3>7, <4>1, <5>1, <6>1
          <6> QED  BY <3>3, <4>1, <5>1, <6>1, <6>2, <6>3 DEF Fair
        <5> QED  BY <5>1 DEF KeysIn
      <4>4. gone.key \in parser.gone
        BY <3>2, <3>5, <4>2, <4>3
      <4>5. desk.file.head = "rc1" /\ Cardinality(parser.kept) + Cardinality(parser.held) = kMaxBaseline
        BY <1>0, <4>4 DEF HeldInOrder
      <4>6. Cardinality(set) = kMaxBaseline
        <5>1. parser.kept \cap parser.held = {}
          <6>1. ASSUME NEW r \in parser.kept \cap parser.held PROVE FALSE
            <7>1. r.key \in Lasting /\ r.key \in Slotted
              BY <1>0, <4>5, <6>1 DEF HeldInOrder
            <7> QED  BY <7>1, DbFacts
          <6> QED  BY <6>1
        <5>2. /\ IsFiniteSet(parser.kept) /\ IsFiniteSet(parser.held)
              /\ Cardinality(parser.kept) \in Nat /\ Cardinality(parser.held) \in Nat
          BY <1>0, RowsAreFinite DEF Parsers
        <5>3. Cardinality(set) = Cardinality(parser.kept) + Cardinality(parser.held) - Cardinality({})
          BY <3>5, <5>1, <5>2, FS_Union
        <5> QED  BY <4>5, <5>2, <5>3, FS_EmptySet
      <4>7. ASSUME NEW r \in set, Precedes(gone, r) PROVE FALSE
        <5>1. r.key \in Slotted /\ (gone.key \in Lasting \/ gone.key < r.key)
          BY <4>7 DEF Precedes
        <5>2. r \in parser.held
          <6>1. r \in parser.kept => r.key \in Lasting
            BY <1>0, <4>5 DEF HeldInOrder
          <6> QED  BY <3>5, <5>1, <6>1, DbFacts
        <5>3. gone.key \in Slotted /\ r.key < gone.key
          BY <1>0, <4>4, <5>2 DEF HeldInOrder
        <5>4. gone.key \in Nat /\ r.key \in Nat /\ gone.key \notin Lasting
          BY <5>1, <5>3, DbFacts
        <5> QED  BY <5>1, <5>3, <5>4
      <4> QED  BY <4>5, <4>6, <4>7
    <3> QED  BY <1>1, <1>2, <2>2, <3>1, <3>5, <3>6, <3>7 DEF FirstRowsAreKept
  <2> QED  BY <2>1, <2>2
<1> QED  BY <1>9, <1>10, <1>11 DEF DbInv

(* What a key's operation leaves of the rows is of no key two.              *)
LEMMA WithRowIs ==
    ASSUME NEW set \in SUBSET BaselineRow, Distinct(set), NEW key \in Slotted \cup Lasting, NEW there \in BOOLEAN
    PROVE  WithRow(set, key, there) \in SUBSET BaselineRow /\ Distinct(WithRow(set, key, there))
<1>1. PICK row : row = [key |-> key, hash |-> 2]
  OBVIOUS
<1>2. row \in BaselineRow /\ row.key = key
  BY <1>1 DEF BaselineRow
<1>3. \A r : r \in WithRow(set, key, there) <=> (r \in set /\ r.key # key) \/ (there /\ r = row)
  BY <1>1 DEF WithRow
<1> QED  BY <1>2, <1>3 DEF Distinct

(* Nothing is in hand between two ticks, nor while what was made is stored. *)
LEMMA NothingRead ==
    ASSUME desk'.at \notin {"lines", "ready"}
    PROVE  LinesFollow' /\ HeldInOrder' /\ FirstRowsAreKept'
  BY DEF LinesFollow, HeldInOrder, FirstRowsAreKept

(* A tick advances the baseline, and trims it.                              *)
LEMMA AdvanceKeeps ==
    ASSUME DbInv, AdvanceBaseline \/ AdvanceStates
    PROVE  DbInv'
<1>0. DbTyped /\ CommitFollows
  BY DEF DbInv
<1>1. /\ desk.at = "ready" /\ desk' = [desk EXCEPT !.at = "store"]
      /\ UNCHANGED <<db, parser, truth, reads, dbFaults>>
  BY DEF AdvanceBaseline, AdvanceStates, Store
<1>2. PICK key \in Slotted \cup Lasting, there \in BOOLEAN : baseline' \subseteq WithRow(baseline, key, there)
  <2>1. CASE AdvanceBaseline
    BY <2>1 DEF AdvanceBaseline, TrimToFit, Saves, Lasting
  <2>2. CASE AdvanceStates
    BY <2>2 DEF AdvanceStates, TrimStateRows, Lasting
  <2> QED  BY <2>1, <2>2
<1>3. baseline' \in SUBSET BaselineRow /\ Distinct(baseline')
  BY <1>0, <1>2, WithRowIs DEF DbTyped, Distinct
<1>4. /\ desk' \in [at : DeskPlaces, file : Files0, n : Nat] /\ desk'.at = "store"
  BY <1>0, <1>1, DbParts DEF DeskPlaces
<1>5. DbTyped'
  BY <1>0, <1>1, <1>3, <1>4 DEF DbTyped, Distinct
<1>6. CommitFollows'
  BY <1>0, <1>1, <1>4 DEF CommitFollows, Found
<1>7. LinesFollow' /\ HeldInOrder' /\ FirstRowsAreKept'
  BY <1>4, NothingRead
<1> QED  BY <1>5, <1>6, <1>7 DEF DbInv

(* What was made is refused, or it is staged and committed, or power is     *)
(* lost: the file that is found is the last that was committed.             *)
LEMMA StoreKeeps ==
    ASSUME DbInv, \/ SaveRefused \/ WriteStaged \/ CommitDrops \/ CommitMovesAside \/ CommitPublishes
                  \/ CommitTidies \/ DbPowerCut
    PROVE  DbInv'
<1>0. DbTyped /\ CommitFollows
  BY DEF DbInv
<1>1. PICK staged : staged = StateFile("now", SetToSeq(baseline), "small")
  OBVIOUS
<1>2. WriteStaged => staged \in StateFiles /\ Intact(staged) /\ RowsAreRead(staged)
  <2>1. SUFFICES ASSUME WriteStaged PROVE staged \in StateFiles /\ Intact(staged) /\ RowsAreRead(staged)
    OBVIOUS
  <2>2. Cardinality(baseline) <= kMaxBaseline
    <3>1. Cardinality(baseline) - kMaxBaseline <= 0
      BY <2>1 DEF WriteStaged, Fits, Excess
    <3>2. Cardinality(baseline) \in Nat /\ kMaxBaseline \in Nat
      BY <1>0, RowsAreFinite, DbFacts DEF DbTyped
    <3> QED  BY <3>1, <3>2
  <2> QED  BY <1>0, <1>1, <2>2, WrittenIsFair DEF DbTyped
<1>3. /\ db' \in [path : Files0, old : Files0, tmp : Files0]
      /\ truth' \in [file : Files0, ours : BOOLEAN]
  <2>1. NoFile \in Files0 /\ (staged \in StateFiles => staged \in Files0)
    BY DEF Files0
  <2>2. CASE WriteStaged
    BY <1>0, <1>1, <1>2, <2>1, <2>2, DbParts DEF WriteStaged
  <2>3. CASE CommitPublishes
    <3>1. CASE db' = [db EXCEPT !.path = db.tmp, !.tmp = NoFile] /\ truth' = [file |-> db.tmp, ours |-> TRUE]
      BY <1>0, <2>1, <3>1, DbParts
    <3>2. CASE truth' = truth /\ db' = [db EXCEPT !.tmp = NoFile]
      BY <1>0, <2>1, <3>2, DbParts
    <3>3. CASE truth' = truth /\ db' = [path |-> db.old, old |-> NoFile, tmp |-> NoFile]
      BY <1>0, <2>1, <3>3, DbParts
    <3> QED  BY <2>3, <3>1, <3>2, <3>3 DEF CommitPublishes
  <2>4. CASE ~(WriteStaged \/ CommitPublishes)
    <3>1. /\ truth' = truth
          /\ \/ db' = db \/ db' = [db EXCEPT !.old = NoFile] \/ db' = [db EXCEPT !.tmp = NoFile]
             \/ db' = [db EXCEPT !.old = db.path, !.path = NoFile]
      BY <2>4 DEF SaveRefused, CommitDrops, CommitMovesAside, CommitTidies, DbPowerCut
    <3> QED  BY <1>0, <2>1, <3>1, DbParts
  <2> QED  BY <2>2, <2>3, <2>4
<1>4. /\ desk' \in [at : DeskPlaces, file : Files0, n : Nat] /\ desk'.at \notin {"lines", "ready"}
  <2>1. CASE desk' = Idle
    BY <1>0, <2>1, DbParts
  <2>2. CASE desk' # Idle
    <3>1. \E at \in {"drop", "publish", "aside", "replace", "tidy"} : desk' = [desk EXCEPT !.at = at]
      BY <2>2 DEF SaveRefused, WriteStaged, CommitDrops, CommitMovesAside, CommitPublishes, CommitTidies,
                  DbPowerCut, Goes1, Ends1
    <3> QED  BY <1>0, <3>1, DbParts DEF DeskPlaces
  <2> QED  BY <2>1, <2>2
<1>5. dbFaults' \in 0 .. MaxDbFaults
  <2>1. dbFaults' = dbFaults \/ (dbFaults < MaxDbFaults /\ dbFaults' = dbFaults + 1)
    BY Zenon DEF SaveRefused, WriteStaged, CommitDrops, CommitMovesAside, CommitPublishes, CommitTidies, DbPowerCut,
                 DbFault, DbCalm
  <2> QED  BY <1>0, <2>1, DbFacts DEF DbTyped
<1>6. /\ parser' = parser \/ parser' = NoLines
      /\ baseline' = baseline \/ baseline' = {}
      /\ reads' = reads
  BY DEF SaveRefused, WriteStaged, CommitDrops, CommitMovesAside, CommitPublishes, CommitTidies, DbPowerCut, Steps
<1>7. parser' \in Parsers /\ Cardinality(parser'.kept) + Cardinality(parser'.held) <= kMaxBaseline
  <2>1. PICK set \in SUBSET BaselineRow, keys \in SUBSET (Slotted \cup Lasting) : set = {} /\ keys = {}
    OBVIOUS
  <2>2. PICK none : none = [kept |-> set, held |-> set, gone |-> keys, rows |-> 0, blank |-> FALSE, bad |-> FALSE,
                            over |-> FALSE]
    OBVIOUS
  <2>3. NoLines = none
    BY <2>1, <2>2 DEF NoLines
  <2>4. none \in Parsers /\ none.kept = {} /\ none.held = {}
    BY <2>1, <2>2 DEF Parsers
  <2>5. Cardinality({}) = 0 /\ kMaxBaseline \in Nat
    BY FS_EmptySet, DbFacts
  <2>6. CASE parser' = parser
    BY <1>0, <2>6, DbParts
  <2>7. CASE parser' = none
    BY <2>4, <2>5, <2>7
  <2> QED  BY <1>6, <2>3, <2>6, <2>7
<1>8. DbTyped'
  BY <1>0, <1>3, <1>4, <1>5, <1>6, <1>7 DEF DbTyped, Distinct
<1>9. CommitFollows'
  <2>0. /\ db.path \in Files0 /\ db.old \in Files0 /\ db.tmp \in Files0
        /\ db \in [path : Files0, old : Files0, tmp : Files0] /\ NoFile \notin StateFiles
        /\ desk.at \in DeskPlaces /\ Idle.at = "rest" /\ desk \in [at : DeskPlaces, file : Files0, n : Nat]
    BY <1>0, DbParts, DbFacts
  <2>1. CASE SaveRefused
    BY <1>0, <2>0, <2>1 DEF SaveRefused, CommitFollows, Found, Ends1
  <2>2. CASE WriteStaged
    <3>1. db' = [db EXCEPT !.tmp = staged] /\ truth' = truth
      BY <1>1, <2>2 DEF WriteStaged
    <3>2. db'.tmp = staged /\ db'.path = db.path /\ db'.old = db.old
      BY <2>0, <3>1
    <3>3. \/ desk'.at = "drop" /\ db.path # NoFile
          \/ desk'.at = "publish" /\ db.path = NoFile
      BY <2>0, <2>2 DEF WriteStaged, Goes1
    <3> QED  BY <1>0, <1>2, <2>2, <3>1, <3>2, <3>3 DEF CommitFollows, Found
  <2>3. CASE CommitDrops
    <3>1. db'.path = db.path /\ db'.tmp = db.tmp /\ truth' = truth /\ desk.at = "drop" /\ desk'.at = "aside"
      BY <2>0, <2>3 DEF CommitDrops, Goes1
    <3> QED  BY <1>0, <3>1 DEF CommitFollows, Found
  <2>4. CASE CommitMovesAside
    <3>1. truth' = truth /\ desk.at = "aside"
          /\ \/ db.old = NoFile /\ db'.old = db.path /\ db'.path = NoFile /\ db'.tmp = db.tmp /\ desk'.at = "replace"
             \/ db'.path = db.path /\ desk'.at = "rest"
      BY <2>0, <2>4 DEF CommitMovesAside, Goes1, Ends1
    <3> QED  BY <1>0, <3>1 DEF CommitFollows, Found
  <2>5. CASE CommitPublishes
    <3>1. /\ desk.at \in {"publish", "replace"} /\ db.path = NoFile
          /\ db.tmp \in StateFiles /\ Intact(db.tmp) /\ RowsAreRead(db.tmp)
      BY <1>0, <2>5 DEF CommitPublishes, CommitFollows
    <3>2. CASE db' = [db EXCEPT !.path = db.tmp, !.tmp = NoFile] /\ truth' = [file |-> db.tmp, ours |-> TRUE]
               /\ Goes1("tidy")
      <4>1. db'.path = db.tmp /\ desk'.at = "tidy" /\ truth'.file = db.tmp
        BY <2>0, <3>2 DEF Goes1
      <4> QED  BY <2>0, <3>1, <4>1 DEF CommitFollows, Found
    <3>3. CASE truth' = truth /\ Ends1 /\ db' = [db EXCEPT !.tmp = NoFile]
      <4>1. db'.path = db.path /\ db'.old = db.old /\ desk'.at = "rest"
        BY <2>0, <3>3 DEF Ends1
      <4> QED  BY <1>0, <3>3, <4>1 DEF CommitFollows, Found
    <3>4. CASE truth' = truth /\ Ends1 /\ db' = [path |-> db.old, old |-> NoFile, tmp |-> NoFile]
      <4>1. db'.path = db.old /\ db'.old = NoFile /\ desk'.at = "rest"
        BY <2>0, <3>4 DEF Ends1
      <4> QED  BY <1>0, <3>1, <3>4, <4>1 DEF CommitFollows, Found
    <3> QED  BY <2>5, <3>2, <3>3, <3>4 DEF CommitPublishes
  <2>6. CASE CommitTidies
    <3>1. db'.path = db.path /\ truth' = truth /\ desk.at = "tidy" /\ desk'.at = "rest"
      BY <2>0, <2>6 DEF CommitTidies, Ends1
    <3> QED  BY <1>0, <3>1 DEF CommitFollows, Found
  <2>7. CASE DbPowerCut
    BY <1>0, <2>0, <2>7 DEF DbPowerCut, CommitFollows, Found
  <2> QED  BY <2>1, <2>2, <2>3, <2>4, <2>5, <2>6, <2>7
<1>10. LinesFollow' /\ HeldInOrder' /\ FirstRowsAreKept'
  BY <1>4, NothingRead
<1> QED  BY <1>8, <1>9, <1>10 DEF DbInv

(* The invariant holds at boot, whatever file a release left.               *)
LEMMA DbInvInit ==
    ASSUME StateDbInit
    PROVE  DbInv
<1>1. PICK file \in Cards \cup {NoFile} :
        /\ db \in {[path |-> file, old |-> NoFile, tmp |-> NoFile],
                   [path |-> NoFile, old |-> file, tmp |-> NoFile]}
        /\ truth = [file |-> file, ours |-> FALSE]
  BY DEF StateDbInit
<1>2. file \in Files0 /\ NoFile \in Files0
  <2>1. ASSUME NEW card \in Cards PROVE card \in StateFiles
    <3>1. PICK all : all = BaselineRow \cup {BadLine, BlankLine}
      OBVIOUS
    <3>2. \A k \in Slotted \cup Lasting : OldRow(k) \in all
      BY <3>1 DEF BaselineRow, OldRow
    <3>3. OldLines \subseteq all
      BY <3>1, <3>2 DEF OldLines
    <3>4. ASSUME NEW s \in FewLines PROVE s \in Seq(all)
      <4>1. PICK n \in 0 .. 2 : s \in [1 .. n -> OldLines]
        BY DEF FewLines
      <4> QED  BY <3>3, <4>1
    <3>5. ASSUME NEW s \in FourLines PROVE s \in Seq(all)
      <4>1. PICK t \in [1 .. 3 -> OldLines], k \in Slotted \cup Lasting : s = t \o <<OldRow(k)>>
        BY DEF FourLines
      <4>2. PICK row \in all : row = OldRow(k)
        BY <3>2
      <4>3. PICK last \in Seq(all) : last = <<row>>
        <5>1. <<row>> \in Seq(all)
          OBVIOUS
        <5> QED  BY <5>1, Zenon
      <4>4. t \in Seq(all)
        <5>1. PICK n \in Nat : n = 3
          OBVIOUS
        <5>2. t \in [1 .. n -> OldLines]
          BY <5>1
        <5> QED  BY <3>3, <5>2
      <4>5. t \o last \in Seq(all)
        BY <4>3, <4>4, ConcatProperties
      <4> QED  BY <4>1, <4>2, <4>3, <4>5
    <3>6. ASSUME NEW s \in InOrderLines PROVE s \in Seq(all)
      <4>1. PICK n \in {2, 3} \cap Slotted : s = [i \in 1 .. n |-> OldRow(i)]
        BY DEF InOrderLines
      <4>2. n \in Nat /\ \A i \in 1 .. n : i \in Slotted
        BY DbFacts DEF Slotted
      <4>3. \A i \in 1 .. n : OldRow(i) \in all
        BY <3>2, <4>2
      <4> QED  BY <4>1, <4>2, <4>3, IsASeq
    <3>7. PICK head \in {"now", "rc1", "newer", "none"}, s \in Seq(all), weight \in {"small", "large", "vast"} :
            card = StateFile(head, s, weight)
      BY <3>4, <3>5, <3>6 DEF Cards
    <3> QED  BY <3>1, <3>7 DEF StateFile, StateFiles
  <2> QED  BY <2>1 DEF Files0
<1>3. desk = Idle /\ parser = NoLines /\ baseline = {} /\ reads = 0 /\ dbFaults = 0
  BY DEF StateDbInit
<1>4. parser \in Parsers /\ parser.kept = {} /\ parser.held = {}
  <2>1. PICK set \in SUBSET BaselineRow, keys \in SUBSET (Slotted \cup Lasting) : set = {} /\ keys = {}
    OBVIOUS
  <2>2. parser = [kept |-> set, held |-> set, gone |-> keys, rows |-> 0, blank |-> FALSE, bad |-> FALSE,
                  over |-> FALSE]
    BY <1>3, <2>1 DEF NoLines
  <2> QED  BY <2>1, <2>2 DEF Parsers
<1>5. desk \in [at : DeskPlaces, file : Files0, n : Nat] /\ desk.at = "rest"
  BY <1>2, <1>3 DEF Idle, DeskPlaces
<1>6. DbTyped
  <2>1. /\ db \in [path : Files0, old : Files0, tmp : Files0]
        /\ truth \in [file : Files0, ours : BOOLEAN]
    BY <1>1, <1>2
  <2>2. Cardinality({}) = 0
    BY FS_EmptySet
  <2> QED  BY <1>3, <1>4, <1>5, <2>1, <2>2, DbFacts DEF DbTyped, Distinct
<1>7. CommitFollows
  BY <1>1, <1>5 DEF CommitFollows, Found
<1> QED  BY <1>5, <1>6, <1>7 DEF DbInv, LinesFollow, HeldInOrder, FirstRowsAreKept

(* The invariant holds of every state of the baseline's file and of those   *)
(* who read it and write it.                                                *)
THEOREM DbInvariance == StateDbSpec => []DbInv
<1>1. ASSUME DbInv, [StateDbNext]_dbVars PROVE DbInv'
  <2>1. CASE StateDbNext
    BY <1>1, <2>1, LineKeeps, LoadKeeps, FinishLinesKeeps, AdvanceKeeps, StoreKeeps DEF StateDbNext
  <2>2. CASE UNCHANGED dbVars
    <3>1. /\ db' = db /\ desk' = desk /\ parser' = parser /\ baseline' = baseline /\ truth' = truth
          /\ reads' = reads /\ dbFaults' = dbFaults
      BY <2>2 DEF dbVars
    <3>2. DbTyped' /\ CommitFollows'
      BY <1>1, <3>1 DEF DbInv, DbTyped, Distinct, CommitFollows, Found
    <3>3. LinesFollow'
      BY <1>1, <3>1, Zenon DEF DbInv, LinesFollow, RowBound
    <3>4. HeldInOrder' /\ FirstRowsAreKept'
      BY <1>1, <3>1, Zenon DEF DbInv, HeldInOrder, FirstRowsAreKept
    <3> QED  BY <3>2, <3>3, <3>4 DEF DbInv
  <2> QED  BY <1>1, <2>1, <2>2
<1> QED  BY <1>1, DbInvInit, PTL DEF StateDbSpec

(* However a file was written, no more rows of it are in the heap than      *)
(* kMaxBaseline, while it is read and after: MakeRoom lets one go for one,  *)
(* and a baseline is of no key two (Parser::AddRow, AdoptLegacySaves).      *)
THEOREM DbTypeCorrect == StateDbSpec => []StateDbTypeOK
<1>1. ASSUME DbInv PROVE StateDbTypeOK
  BY <1>1, DbParts DEF DbInv, DbTyped, StateDbTypeOK, Distinct, Parsers, DeskPlaces
<1> QED  BY <1>1, DbInvariance, PTL

(* Of an intact file the rows in force are all of it, or as many as fit and *)
(* the first in the order of keys, for every order the lines come in; of a  *)
(* file that repeats a key there are none, also when the first of the two   *)
(* was let go and only its fingerprint is left (Parser, MakeRoom).          *)
THEOREM TheFirstRowsAreKept == StateDbSpec => []FirstRowsAreKept
<1>1. ASSUME DbInv PROVE FirstRowsAreKept
  BY <1>1 DEF DbInv
<1> QED  BY <1>1, DbInvariance, PTL

(* What LoadBaseline finds is what SaveBaseline last committed, across the  *)
(* two renames of CommitStaged, a call of it that is refused and the power  *)
(* going; and a file this build wrote is read back, every row of it.        *)
THEOREM TheLastStoredIsFound == StateDbSpec => []LastStoredIsFound
<1>1. ASSUME DbInv PROVE LastStoredIsFound
  BY <1>1 DEF DbInv, CommitFollows, LastStoredIsFound
<1> QED  BY <1>1, DbInvariance, PTL

-----------------------------------------------------------------------------
(* Ranks.                                                                   *)

(* In a finite set of numbers each has its own place, and each place one.   *)
LEMMA EachHasItsPlace ==
    ASSUME NEW set \in SUBSET Nat, IsFiniteSet(set), NEW place,
           place = [k \in set |-> Cardinality({other \in set : other <= k})]
    PROVE  /\ \A k \in set : place[k] \in 1 .. Cardinality(set)
           /\ \A k, m \in set : k < m => place[k] < place[m]
           /\ \A n \in 1 .. Cardinality(set) : \E k \in set : place[k] = n
<1>1. PICK size \in Nat : size = Cardinality(set)
  BY FS_CardinalityType
<1>2. ASSUME NEW k \in set
      PROVE  /\ IsFiniteSet({other \in set : other <= k})
             /\ place[k] = Cardinality({other \in set : other <= k}) /\ place[k] \in 1 .. size
  <2>1. PICK below \in SUBSET set : below = {other \in set : other <= k}
    OBVIOUS
  <2>2. IsFiniteSet(below) /\ Cardinality(below) <= size
    BY <1>1, FS_Subset
  <2>3. Cardinality(below) \in Nat
    BY <2>2, FS_CardinalityType
  <2>4. below # {}
    BY <2>1
  <2>5. Cardinality(below) # 0
    BY <2>2, <2>4, FS_EmptySet
  <2> QED  BY <1>1, <2>1, <2>2, <2>3, <2>5
<1>3. ASSUME NEW k \in set, NEW m \in set, k < m PROVE place[k] < place[m]
  <2>1. PICK few \in SUBSET set, many \in SUBSET set :
          few = {other \in set : other <= k} /\ many = {other \in set : other <= m}
    OBVIOUS
  <2>2. IsFiniteSet(few) /\ IsFiniteSet(many) /\ place[k] = Cardinality(few) /\ place[m] = Cardinality(many)
    BY <1>2, <2>1
  <2>3. m \notin few /\ few \cup {m} \subseteq many
    <3>1. k \in Nat /\ m \in Nat /\ ~(m <= k) /\ m <= m
      BY <1>3
    <3>2. ASSUME NEW other \in few PROVE other \in many
      <4>1. other \in Nat /\ other <= k
        BY <2>1
      <4>2. other <= m
        BY <1>3, <3>1, <4>1
      <4> QED  BY <2>1, <4>2
    <3> QED  BY <2>1, <3>1, <3>2
  <2>4. Cardinality(few \cup {m}) = Cardinality(few) + 1
    BY <2>2, <2>3, FS_AddElement
  <2>5. Cardinality(few \cup {m}) <= Cardinality(many)
    BY <2>2, <2>3, FS_Subset
  <2> QED  BY <1>2, <2>2, <2>4, <2>5
<1>4. place \in Injection(set, 1 .. size)
  <2>1. place \in [set -> 1 .. size]
    BY <1>2
  <2>2. ASSUME NEW k \in set, NEW m \in set, place[k] = place[m] PROVE k = m
    <3>1. k \in Nat /\ m \in Nat /\ place[k] \in Nat /\ place[m] \in Nat
      BY <1>2
    <3> QED  BY <1>3, <2>2, <3>1
  <2> QED  BY <2>1, <2>2 DEF Injection, IsInjective
<1>5. IsFiniteSet(1 .. size) /\ Cardinality(1 .. size) = size
  BY FS_Interval
<1>6. place \in Surjection(set, 1 .. size)
  BY <1>1, <1>4, <1>5, FS_Injection
<1>7. ASSUME NEW n \in 1 .. size PROVE \E k \in set : place[k] = n
  BY <1>6 DEF Surjection
<1> QED  BY <1>1, <1>2, <1>3, <1>7

-----------------------------------------------------------------------------
(* The library's index.                                                     *)

FetchRecord ==
    [at : {"asking"} \cup FetchEndings, size : 1 .. kDefaultPageSize, wait : 1 .. kMaxPages, streak : Nat,
     probing : BOOLEAN, offset : Nat, room : 0 .. kMaxIndexRoms, failures : Nat,
     pages : 0 .. kMaxPages, refused : 0 .. kMaxPages, leftOut : Nat, truncated : BOOLEAN,
     index : Seq(RomIds)]

IndexTyped ==
    /\ width \in [RomIds -> Widths]
    /\ newest \in 0 .. MaxRom /\ shelf \in SUBSET (1 .. newest) /\ steady \in SUBSET shelf
    /\ fetch \in FetchRecord /\ Len(fetch.index) <= fetch.room
    /\ stopping \in BOOLEAN /\ moves \in 0 .. MaxMoves

\* The index rises, and what is still to be read comes after all of it.
IndexRises == \A i, j \in 1 .. Len(fetch.index) : i < j => fetch.index[i] < fetch.index[j]
RestIsLater ==
    fetch.at = "asking" =>
        \A i \in 1 .. Len(fetch.index) : fetch.index[i] <= newest /\ PlaceOf(fetch.index[i]) <= fetch.offset

\* While no rom was removed, each the offset is past was read or marked.
NoneIsSkipped ==
    /\ Cardinality(shelf) <= Cardinality(steady) + moves
    /\ (Cardinality(shelf) = Cardinality(steady) + moves /\ ~fetch.truncated) =>
           \A id \in shelf : PlaceOf(id) <= fetch.offset => id \in Holds(fetch)
    /\ (Cardinality(shelf) = Cardinality(steady) + moves /\ ~fetch.truncated /\ fetch.at = "asking") =>
           fetch.offset <= Cardinality(shelf)
    /\ (fetch.at = "ok" /\ ~fetch.truncated) => fetch.offset >= Cardinality(shelf)

RomInv == IndexTyped /\ IndexRises /\ RestIsLater /\ NoneIsSkipped

LEMMA OneIsLess == \A k, m \in Nat : ~(m <= k) => k < m
  OBVIOUS

LEMMA RomFacts ==
    /\ MaxRom \in Nat \ {0} /\ Ceiling \in Nat \ {0} /\ kDefaultPageSize \in Nat \ {0}
    /\ ServerCap \in Nat \ {0} /\ kMaxPages \in Nat \ {0} /\ kMaxIndexRoms \in Nat \ {0}
    /\ kMaxAttempts \in Nat \ {0} /\ MaxMoves \in Nat
  BY RomIndexConstants

(* The shelf in the order of the ids.                                       *)
LEMMA ShelfIs ==
    ASSUME IndexTyped
    PROVE  /\ IsFiniteSet(shelf) /\ Cardinality(shelf) \in Nat /\ shelf \subseteq RomIds
           /\ IsFiniteSet(steady) /\ Cardinality(steady) \in Nat /\ Cardinality(steady) <= Cardinality(shelf)
           /\ \A k \in Nat : PlaceOf(k) \in Nat /\ PlaceOf(k) <= Cardinality(shelf)
           /\ \A k, m \in Nat : k <= m => PlaceOf(k) <= PlaceOf(m)
<1>1. newest \in Nat /\ MaxRom \in Nat /\ newest <= MaxRom
  BY RomFacts DEF IndexTyped
<1>2. IsFiniteSet(1 .. newest) /\ Cardinality(1 .. newest) = newest
  BY <1>1, FS_Interval
<1>3. IsFiniteSet(shelf)
  BY <1>2, FS_Subset DEF IndexTyped
<1>4. IsFiniteSet(steady) /\ Cardinality(steady) <= Cardinality(shelf)
  BY <1>3, FS_Subset DEF IndexTyped
<1>5. Cardinality(shelf) \in Nat /\ Cardinality(steady) \in Nat
  BY <1>3, <1>4, FS_CardinalityType
<1>6. ASSUME NEW k \in Nat, NEW m \in Nat, k <= m
      PROVE  PlaceOf(k) \in Nat /\ PlaceOf(k) <= PlaceOf(m) /\ PlaceOf(m) <= Cardinality(shelf)
  <2>1. PICK few \in SUBSET shelf, many \in SUBSET shelf :
          few = {other \in shelf : other <= k} /\ many = {other \in shelf : other <= m}
    OBVIOUS
  <2>2. few \subseteq many
    <3>1. ASSUME NEW other \in few PROVE other \in many
      <4>1. other \in 1 .. newest /\ other <= k
        BY <2>1 DEF IndexTyped
      <4>2. other <= m
        BY <1>1, <1>6, <4>1
      <4> QED  BY <2>1, <4>2
    <3> QED  BY <3>1
  <2>3. IsFiniteSet(many) /\ Cardinality(many) <= Cardinality(shelf)
    BY <1>3, FS_Subset
  <2>4. IsFiniteSet(few) /\ Cardinality(few) <= Cardinality(many)
    BY <2>2, <2>3, FS_Subset
  <2>5. Cardinality(few) \in Nat
    BY <2>4, FS_CardinalityType
  <2> QED  BY <2>1, <2>3, <2>4, <2>5 DEF PlaceOf
<1>7. shelf \subseteq RomIds
  BY <1>1 DEF IndexTyped, RomIds
<1> QED  BY <1>3, <1>4, <1>5, <1>6, <1>7

LEMMA InOrderIs ==
    ASSUME IndexTyped
    PROVE  /\ InOrder \in Seq(shelf) /\ Len(InOrder) = Cardinality(shelf)
           /\ \A k \in 1 .. Cardinality(shelf) : InOrder[k] \in shelf /\ PlaceOf(InOrder[k]) = k
           /\ \A id \in shelf : PlaceOf(id) \in 1 .. Cardinality(shelf)
           /\ \A id, other \in shelf : id < other => PlaceOf(id) < PlaceOf(other)
<1>1. PICK place : place = [id \in shelf |-> Cardinality({other \in shelf : other <= id})]
  OBVIOUS
<1>2. \A id \in shelf : place[id] = PlaceOf(id)
  BY <1>1 DEF PlaceOf
<1>3. shelf \in SUBSET Nat
  BY DEF IndexTyped
<1>4. PICK size \in Nat : size = Cardinality(shelf)
  BY ShelfIs
<1>5. /\ \A id \in shelf : place[id] \in 1 .. size
      /\ \A id, other \in shelf : id < other => place[id] < place[other]
      /\ \A n \in 1 .. size : \E id \in shelf : place[id] = n
  <2>1. PICK set \in SUBSET Nat : set = shelf
    BY <1>3
  <2>2. IsFiniteSet(set) /\ place = [k \in set |-> Cardinality({other \in set : other <= k})]
    BY <1>1, <2>1, ShelfIs
  <2>3. /\ \A k \in set : place[k] \in 1 .. Cardinality(set)
        /\ \A k, m \in set : k < m => place[k] < place[m]
        /\ \A n \in 1 .. Cardinality(set) : \E k \in set : place[k] = n
    BY <2>2, EachHasItsPlace
  <2> QED  BY <1>4, <2>1, <2>3
<1>6. \A k \in 1 .. size : InOrder[k] \in shelf /\ PlaceOf(InOrder[k]) = k
  BY <1>2, <1>4, <1>5 DEF InOrder
<1>7. InOrder \in Seq(shelf) /\ Len(InOrder) = size
  <2>1. InOrder \in [1 .. size -> shelf]
    BY <1>4, <1>6 DEF InOrder
  <2> QED  BY <2>1
<1> QED  BY <1>2, <1>4, <1>5, <1>6, <1>7

(* The page a request is given: those after the offset, in order.           *)
LEMMA PageIs ==
    ASSUME IndexTyped, NEW page, page = PageAt(fetch)
    PROVE  /\ page \in Seq(shelf) /\ Len(page) \in Nat
           /\ \A k \in 1 .. Len(page) : page[k] \in shelf /\ PlaceOf(page[k]) = fetch.offset + k
           /\ page = <<>> => fetch.offset >= Cardinality(shelf)
<1>1. PICK offset \in Nat, size \in Nat : offset = fetch.offset /\ size = fetch.size /\ size > 0
  BY RomFacts DEF IndexTyped, FetchRecord
<1>2. PICK whole \in Nat : whole = Cardinality(shelf)
  BY ShelfIs
<1>3. PICK given \in Nat \ {0} : given = Narrower(fetch.size, ServerCap)
  BY <1>1, RomFacts DEF Narrower
<1>4. PICK last \in Nat : /\ last = Narrower(fetch.offset + given, Len(InOrder))
                          /\ last <= whole /\ last <= offset + given
                          /\ last = whole \/ last = offset + given
  BY <1>1, <1>2, <1>3, InOrderIs DEF Narrower
<1>5. page = SubSeq(InOrder, offset + 1, last)
  BY <1>1, <1>3, <1>4, Zenon DEF PageAt
<1>6. CASE offset + 1 > last
  <2>1. page = <<>> /\ offset >= whole
    BY <1>2, <1>4, <1>5, <1>6, InOrderIs, SubSeqProperties
  <2> QED  BY <1>1, <1>2, <2>1
<1>7. CASE offset + 1 <= last
  <2>1. InOrder \in Seq(shelf) /\ Len(InOrder) = whole
    BY <1>2, InOrderIs
  <2>2. /\ page \in Seq(shelf) /\ Len(page) = last - offset
        /\ \A k \in 1 .. last - offset : page[k] = InOrder[offset + k]
    <3>1. \A i \in (offset + 1) .. last : i \in 1 .. Len(InOrder)
      BY <1>4, <2>1
    <3>2. /\ SubSeq(InOrder, offset + 1, last) \in Seq(shelf)
          /\ Len(SubSeq(InOrder, offset + 1, last)) = last - (offset + 1) + 1
          /\ \A i \in 1 .. last - (offset + 1) + 1 : SubSeq(InOrder, offset + 1, last)[i] = InOrder[offset + 1 + i - 1]
      BY <1>4, <1>7, <2>1, <3>1, SubSeqProperties
    <3>3. last - (offset + 1) + 1 = last - offset /\ \A i \in Int : offset + 1 + i - 1 = offset + i
      BY <1>1, <1>4
    <3>4. PICK many \in Int : many = last - offset
      BY <1>1, <1>4
    <3>5. page \in Seq(shelf) /\ Len(page) = many
      BY <1>5, <3>2, <3>3, <3>4
    <3>6. ASSUME NEW i \in 1 .. many PROVE page[i] = InOrder[offset + i]
      <4>1. page[i] = InOrder[offset + 1 + i - 1]
        BY <1>5, <3>2, <3>3, <3>4
      <4> QED  BY <3>3, <4>1
    <3> QED  BY <3>4, <3>5, <3>6
  <2>3. Len(page) > 0
    BY <1>4, <1>7, <2>2
  <2>4. ASSUME NEW k \in 1 .. Len(page) PROVE page[k] \in shelf /\ PlaceOf(page[k]) = offset + k
    <3>1. Len(page) = last - offset /\ page[k] = InOrder[offset + k]
      <4>1. k \in 1 .. last - offset
        BY <2>2, <2>4, Zenon
      <4> QED  BY <2>2, <4>1, Zenon
    <3>2. offset + k \in 1 .. whole
      <4>1. k \in 1 .. last - offset
        BY <2>4, <3>1, Zenon
      <4>2. last \in Nat /\ last <= whole
        BY <1>4, Zenon
      <4> QED  BY <4>1, <4>2
    <3>3. InOrder[offset + k] \in shelf /\ PlaceOf(InOrder[offset + k]) = offset + k
      BY <1>2, <3>2, InOrderIs, Zenon
    <3> QED  BY <3>1, <3>3, Zenon
  <2> QED  BY <1>1, <1>4, <2>2, <2>3, <2>4
<1> QED  BY <1>4, <1>6, <1>7

(* What a page does to the fetch's own counters.                            *)
LEMMA GrownIs ==
    ASSUME NEW f \in FetchRecord
    PROVE  /\ Grown(f) \in FetchRecord /\ Grown(f).at = f.at /\ Grown(f).offset = f.offset
           /\ Grown(f).room = f.room /\ Grown(f).truncated = f.truncated /\ Grown(f).index = f.index
<1>1. PICK no \in BOOLEAN, yes \in BOOLEAN : no = FALSE /\ yes = TRUE
  OBVIOUS
<1>2. PICK calm : calm = IF f.probing THEN [f EXCEPT !.wait = 1, !.probing = FALSE] ELSE f
  OBVIOUS
<1>3. /\ calm \in FetchRecord /\ calm.at = f.at /\ calm.offset = f.offset /\ calm.room = f.room
      /\ calm.truncated = f.truncated /\ calm.index = f.index
  <2>1. 1 \in 1 .. kMaxPages
    BY RomFacts
  <2>2. CASE f.probing
    <3>1. calm = [f EXCEPT !.wait = 1, !.probing = no]
      BY <1>1, <1>2, <2>2
    <3> QED  BY <2>1, <3>1 DEF FetchRecord
  <2>3. CASE ~f.probing
    BY <1>2, <2>3
  <2> QED  BY <2>2, <2>3
<1>4. PICK seen \in Nat, size \in 1 .. kDefaultPageSize : seen = calm.streak + 1
                                                          /\ size = Narrower(calm.size * 2, kDefaultPageSize)
  <2>1. calm.streak \in Nat /\ calm.size \in 1 .. kDefaultPageSize
    BY <1>3 DEF FetchRecord
  <2>2. Narrower(calm.size * 2, kDefaultPageSize) \in 1 .. kDefaultPageSize
    BY <2>1, RomFacts DEF Narrower
  <2> QED  BY <2>1, <2>2
<1>5. PICK next : next = IF calm.size >= kDefaultPageSize THEN calm
                         ELSE IF seen < calm.wait THEN [calm EXCEPT !.streak = seen]
                         ELSE [calm EXCEPT !.size = Narrower(@ * 2, kDefaultPageSize), !.streak = 0, !.probing = TRUE]
  OBVIOUS
<1>6. Grown(f) = next
  BY <1>2, <1>4, <1>5, Zenon DEF Grown
<1>7. \/ next = calm \/ next = [calm EXCEPT !.streak = seen]
      \/ next = [calm EXCEPT !.size = size, !.streak = 0, !.probing = yes]
  BY <1>1, <1>4, <1>5
<1>8. /\ next \in FetchRecord /\ next.at = calm.at /\ next.offset = calm.offset /\ next.room = calm.room
      /\ next.truncated = calm.truncated /\ next.index = calm.index
  <2>1. CASE next = calm
    BY <1>3, <2>1
  <2>2. CASE next = [calm EXCEPT !.streak = seen]
    BY <1>3, <2>2 DEF FetchRecord
  <2>3. CASE next = [calm EXCEPT !.size = size, !.streak = 0, !.probing = yes]
    BY <1>3, <2>3 DEF FetchRecord
  <2> QED  BY <1>7, <2>1, <2>2, <2>3
<1> QED  BY <1>3, <1>6, <1>8

LEMMA ReservedIs ==
    ASSUME IndexTyped, NEW f \in FetchRecord, shelf # {}
    PROVE  /\ Reserved(f) \in FetchRecord /\ Reserved(f).at = f.at /\ Reserved(f).offset = f.offset
           /\ Reserved(f).truncated = f.truncated /\ Reserved(f).index = f.index
           /\ f.room > 0 => Reserved(f).room = f.room
<1>1. PICK room \in 0 .. kMaxIndexRoms : room = Narrower(Cardinality(shelf), kMaxIndexRoms)
  BY ShelfIs, RomFacts DEF Narrower
<1>2. (Reserved(f) = f /\ f.room > 0) \/ (Reserved(f) = [f EXCEPT !.room = room] /\ ~(f.room > 0))
  BY <1>1 DEF Reserved
<1>3. CASE Reserved(f) = f
  BY <1>2, <1>3, RomFacts DEF FetchRecord
<1>4. CASE Reserved(f) = [f EXCEPT !.room = room] /\ ~(f.room > 0)
  BY <1>4 DEF FetchRecord
<1> QED  BY <1>2, <1>3, <1>4

(* An ended fetch.                                                          *)
LEMMA FinishedIs ==
    ASSUME NEW f \in FetchRecord, NEW how \in FetchEndings
    PROVE  /\ Finished(f, how) \in FetchRecord /\ Finished(f, how).at = how
           /\ Finished(f, how).offset = f.offset /\ Finished(f, how).room = f.room
           /\ Finished(f, how).truncated = f.truncated /\ Finished(f, how).index = f.index
<1>1. Finished(f, how) = [f EXCEPT !.at = how]
  BY DEF Finished
<1> QED  BY <1>1 DEF FetchRecord

\* What an index is once `part` of a page has been added to it.
GrownBy(index, part, page) ==
    /\ index \in Seq(RomIds) /\ Len(index) = Len(fetch.index) + Len(part)
    /\ \A i \in 1 .. Len(fetch.index) : index[i] = fetch.index[i]
    /\ \A k \in 1 .. Len(part) : index[Len(fetch.index) + k] = page[k]
    /\ \A i, j \in 1 .. Len(index) : i < j => index[i] < index[j]
    /\ \A i \in 1 .. Len(index) : index[i] <= newest /\ PlaceOf(index[i]) <= fetch.offset + Len(part)

(* A page, or the part of it there is room for, follows what was read.      *)
LEMMA PageFollows ==
    ASSUME RomInv, fetch.at = "asking", NEW page, page = PageAt(fetch),
           NEW part \in Seq(shelf), Len(part) <= Len(page), \A k \in 1 .. Len(part) : part[k] = page[k],
           NEW index, index = fetch.index \o part
    PROVE  GrownBy(index, part, page)
<1>1. IndexTyped /\ IndexRises /\ RestIsLater
  BY DEF RomInv
<1>2. PICK n \in Nat, m \in Nat, offset \in Nat : n = Len(fetch.index) /\ m = Len(part) /\ offset = fetch.offset
  <2>1. fetch.index \in Seq(RomIds) /\ fetch.offset \in Nat
    BY <1>1 DEF IndexTyped, FetchRecord
  <2>2. Len(fetch.index) \in Nat /\ Len(part) \in Nat
    BY <2>1
  <2> QED  BY <2>1, <2>2
<1>0. newest \in Nat
  BY <1>1, RomFacts DEF IndexTyped
<1>3. PICK old \in Seq(RomIds), more \in Seq(RomIds) : old = fetch.index /\ more = part
  <2>1. shelf \subseteq RomIds
    BY <1>1, ShelfIs
  <2>2. part \in Seq(RomIds)
    BY <2>1
  <2> QED  BY <1>1, <2>2 DEF IndexTyped, FetchRecord
<1>4. /\ index \in Seq(RomIds) /\ Len(index) = n + m
      /\ \A i \in 1 .. n : index[i] = old[i]
      /\ \A k \in 1 .. m : index[n + k] = more[k]
  <2>1. /\ old \o more \in Seq(RomIds) /\ Len(old \o more) = Len(old) + Len(more)
        /\ \A i \in 1 .. Len(old) + Len(more) :
             (old \o more)[i] = IF i <= Len(old) THEN old[i] ELSE more[i - Len(old)]
    BY ConcatProperties
  <2>2. index = old \o more /\ Len(old) = n /\ Len(more) = m
    BY <1>2, <1>3
  <2>3. ASSUME NEW i \in 1 .. n PROVE index[i] = old[i]
    <3>1. i \in 1 .. n + m /\ i <= n
      OBVIOUS
    <3> QED  BY <2>1, <2>2, <3>1
  <2>4. ASSUME NEW k \in 1 .. m PROVE index[n + k] = more[k]
    <3>1. n + k \in 1 .. n + m /\ ~(n + k <= n) /\ n + k - n = k
      OBVIOUS
    <3> QED  BY <2>1, <2>2, <3>1
  <2> QED  BY <2>1, <2>2, <2>3, <2>4
<1>5. \A k \in 1 .. m : more[k] = page[k] /\ page[k] \in shelf /\ PlaceOf(page[k]) = offset + k
  <2>1. Len(page) \in Nat
    BY <1>1, PageIs
  <2> QED  BY <1>1, <1>2, <1>3, <2>1, PageIs
<1>6. \A i \in 1 .. n : old[i] \in Nat /\ old[i] <= newest /\ PlaceOf(old[i]) <= offset /\ PlaceOf(old[i]) \in Nat
  <2>1. ASSUME NEW i \in 1 .. n PROVE old[i] \in Nat
    <3>1. old[i] \in RomIds
      BY <1>2, <1>3
    <3> QED  BY <3>1, RomFacts DEF RomIds
  <2>2. ASSUME NEW i \in 1 .. n PROVE old[i] <= newest /\ PlaceOf(old[i]) <= offset
    BY <1>1, <1>2, <1>3 DEF RestIsLater
  <2>3. ASSUME NEW i \in 1 .. n PROVE PlaceOf(old[i]) \in Nat
    <3>1. PICK k \in Nat : k = old[i]
      BY <2>1, <2>3
    <3>2. PlaceOf(k) \in Nat
      BY <1>1, <3>1, ShelfIs, Zenon
    <3> QED  BY <3>1, <3>2
  <2> QED  BY <2>1, <2>2, <2>3
<1>7. \A k \in 1 .. m : more[k] \in Nat /\ more[k] <= newest
  <2>1. \A id \in shelf : id \in Nat /\ id <= newest
    BY <1>0, <1>1 DEF IndexTyped
  <2> QED  BY <1>5, <2>1
<1>8. ASSUME NEW i \in 1 .. n + m
      PROVE  index[i] \in Nat /\ index[i] <= newest /\ PlaceOf(index[i]) <= offset + m
  <2>1. CASE i \in 1 .. n
    <3>1. index[i] = old[i]
      BY <1>4, <2>1, Zenon
    <3>2. old[i] \in Nat /\ old[i] <= newest /\ PlaceOf(old[i]) <= offset /\ PlaceOf(old[i]) \in Nat
      BY <1>6, <2>1, Zenon
    <3>3. PICK place \in Nat : place = PlaceOf(old[i]) /\ place <= offset
      BY <3>2, Zenon
    <3>4. place <= offset + m
      BY <1>2, <3>3
    <3> QED  BY <3>1, <3>2, <3>3, <3>4, Zenon
  <2>2. CASE i \notin 1 .. n
    <3>1. PICK k \in 1 .. m : i = n + k
      <4>1. i - n \in 1 .. m /\ i = n + (i - n)
        BY <1>2, <1>8, <2>2
      <4> QED  BY <4>1
    <3>2. index[i] = more[k] /\ more[k] \in Nat /\ more[k] <= newest /\ PlaceOf(more[k]) = offset + k
      BY <1>4, <1>5, <1>7, <3>1
    <3>3. offset + k <= offset + m
      BY <1>2, <3>1
    <3> QED  BY <3>2, <3>3
  <2> QED  BY <2>1, <2>2
<1>9. ASSUME NEW i \in 1 .. n + m, NEW j \in 1 .. n + m, i < j PROVE index[i] < index[j]
  <2>1. CASE j \in 1 .. n
    <3>1. i \in 1 .. n /\ j \in 1 .. n
      BY <1>2, <1>9, <2>1
    <3>2. old[i] < old[j]
      BY <1>1, <1>2, <1>3, <1>9, <3>1 DEF IndexRises
    <3> QED  BY <1>4, <3>1, <3>2
  <2>2. CASE i \in 1 .. n /\ j \notin 1 .. n
    <3>1. PICK k \in 1 .. m : j = n + k
      <4>1. j - n \in 1 .. m /\ j = n + (j - n)
        BY <1>2, <1>9, <2>2
      <4> QED  BY <4>1
    <3>2. index[i] = old[i] /\ index[j] = page[k] /\ PlaceOf(page[k]) = offset + k
      BY <1>4, <1>5, <2>2, <3>1
    <3>3. ASSUME index[j] <= index[i] PROVE FALSE
      <4>1. PlaceOf(index[j]) <= PlaceOf(index[i])
        <5>1. PICK a \in Nat, b \in Nat : a = index[j] /\ b = index[i]
          BY <1>8, <1>9
        <5>2. a <= b
          BY <3>3, <5>1
        <5>3. PlaceOf(a) <= PlaceOf(b)
          BY <1>1, <5>1, <5>2, ShelfIs, Zenon
        <5> QED  BY <5>1, <5>3
      <4>2. PlaceOf(index[i]) <= offset /\ PlaceOf(index[i]) \in Nat
        BY <1>4, <1>6, <2>2
      <4> QED  BY <1>2, <3>1, <3>2, <4>1, <4>2
    <3>4. index[i] \in Nat /\ index[j] \in Nat
      BY <1>8, <1>9
    <3> QED  BY <3>3, <3>4, OneIsLess, Zenon
  <2>3. CASE i \notin 1 .. n /\ j \notin 1 .. n
    <3>1. PICK k \in 1 .. m, q \in 1 .. m : i = n + k /\ j = n + q
      <4>1. i - n \in 1 .. m /\ i = n + (i - n) /\ j - n \in 1 .. m /\ j = n + (j - n)
        BY <1>2, <1>9, <2>3
      <4> QED  BY <4>1
    <3>2. index[i] = page[k] /\ index[j] = page[q] /\ PlaceOf(page[k]) = offset + k /\ PlaceOf(page[q]) = offset + q
      BY <1>4, <1>5, <3>1
    <3>3. ASSUME index[j] <= index[i] PROVE FALSE
      <4>1. PlaceOf(index[j]) <= PlaceOf(index[i])
        <5>1. PICK a \in Nat, b \in Nat : a = index[j] /\ b = index[i]
          BY <1>8, <1>9
        <5>2. a <= b
          BY <3>3, <5>1
        <5>3. PlaceOf(a) <= PlaceOf(b)
          BY <1>1, <5>1, <5>2, ShelfIs, Zenon
        <5> QED  BY <5>1, <5>3
      <4> QED  BY <1>2, <1>9, <3>1, <3>2, <4>1, SMTT(60)
    <3>4. index[i] \in Nat /\ index[j] \in Nat
      BY <1>8, <1>9
    <3> QED  BY <3>3, <3>4, OneIsLess, Zenon
  <2> QED  BY <1>9, <2>1, <2>2, <2>3
<1>10. \A k \in 1 .. m : index[n + k] = page[k]
  BY <1>4, <1>5
<1> QED  BY <1>2, <1>3, <1>4, <1>8, <1>9, <1>10 DEF GrownBy

(* A step of the fetch that reads no page.                                  *)
LEMMA CountersKeep ==
    ASSUME RomInv, UNCHANGED <<width, shelf, newest, steady, stopping, moves>>,
           NEW f \in FetchRecord, fetch' = f, f.index = fetch.index, f.offset >= fetch.offset, f.room = fetch.room,
           f.truncated \/ (f.offset = fetch.offset /\ ~fetch.truncated), f.at = "asking" => fetch.at = "asking",
           f.at = "ok" /\ ~f.truncated => f.offset >= Cardinality(shelf)
    PROVE  RomInv'
<1>1. IndexTyped /\ IndexRises /\ RestIsLater /\ NoneIsSkipped
  BY DEF RomInv
<1>2. IndexTyped'
  BY <1>1 DEF IndexTyped
<1>3. IndexRises'
  BY <1>1 DEF IndexRises
<1>4. ASSUME NEW k PROVE PlaceOf(k)' = PlaceOf(k)
  BY DEF PlaceOf
<1>5. RestIsLater'
  <2>1. SUFFICES ASSUME f.at = "asking", NEW i \in 1 .. Len(fetch.index)
                 PROVE  fetch.index[i] <= newest /\ PlaceOf(fetch.index[i]) <= f.offset
    BY <1>4 DEF RestIsLater
  <2>2. PICK k \in Nat : k = fetch.index[i]
    <3>1. fetch.index[i] \in RomIds
      <4>1. PICK s \in Seq(RomIds) : s = fetch.index
        BY <1>1 DEF IndexTyped, FetchRecord
      <4>2. s[i] \in RomIds
        BY <2>1, <4>1
      <4> QED  BY <4>1, <4>2
    <3> QED  BY <3>1, RomFacts DEF RomIds
  <2>3. fetch.index[i] <= newest /\ PlaceOf(fetch.index[i]) <= fetch.offset
    BY <1>1, <2>1 DEF RestIsLater
  <2>4. PlaceOf(k) \in Nat
    BY <1>1, <2>2, ShelfIs, Zenon
  <2>5. fetch.offset \in Nat /\ f.offset \in Nat
    BY <1>1 DEF IndexTyped, FetchRecord
  <2> QED  BY <2>2, <2>3, <2>4, <2>5
<1>6. NoneIsSkipped'
  <2>1. Holds(f) = Holds(fetch)
    BY DEF Holds
  <2>2. \A id \in shelf : PlaceOf(id)' = PlaceOf(id)
    BY <1>4
  <2>3. Cardinality(shelf)' = Cardinality(shelf) /\ Cardinality(steady)' = Cardinality(steady) /\ moves' = moves
    OBVIOUS
  <2>4. f.truncated \/ \A id \in shelf : PlaceOf(id) <= f.offset => PlaceOf(id) <= fetch.offset
    OBVIOUS
  <2>5. shelf' = shelf /\ fetch' = f
    OBVIOUS
  <2>6. ASSUME Cardinality(shelf) = Cardinality(steady) + moves, ~f.truncated, NEW id \in shelf, PlaceOf(id) <= f.offset
        PROVE  id \in Holds(f)
    BY <1>1, <2>1, <2>4, <2>6 DEF NoneIsSkipped
  <2>7. Cardinality(shelf) <= Cardinality(steady) + moves
    BY <1>1 DEF NoneIsSkipped
  <2>8. f.at = "ok" /\ ~f.truncated => f.offset >= Cardinality(shelf)
    OBVIOUS
  <2>9. Cardinality(shelf) = Cardinality(steady) + moves /\ ~f.truncated /\ f.at = "asking" => f.offset <= Cardinality(shelf)
    BY <1>1 DEF NoneIsSkipped
  <2> QED  BY <2>2, <2>3, <2>5, <2>6, <2>7, <2>8, <2>9, Zenon DEF NoneIsSkipped
<1> QED  BY <1>2, <1>3, <1>5, <1>6 DEF RomInv

(* The fetch ends or asks again, with what it has.                          *)
LEMMA WithoutAPage ==
    ASSUME RomInv, Stopped \/ PageLost \/ TooLarge \/ Refused \/ Exhausted
    PROVE  RomInv'
<1>1. IndexTyped /\ fetch \in FetchRecord /\ fetch.at = "asking"
      /\ UNCHANGED <<width, shelf, newest, steady, stopping, moves>>
  BY DEF RomInv, IndexTyped, Stopped, PageLost, TooLarge, Refused, Exhausted, Asks, Asking
<1>2. /\ fetch.offset \in Nat /\ fetch.truncated \in BOOLEAN
  BY <1>1 DEF FetchRecord
<1>3. CASE Stopped
  <2>1. fetch' = Finished(fetch, "canceled")
    BY <1>3 DEF Stopped
  <2> QED  BY <1>1, <1>2, <2>1, FinishedIs, CountersKeep DEF FetchEndings
<1>4. CASE PageLost
  <2>1. CASE fetch' = [fetch EXCEPT !.failures = @ + 1]
    <3>0. PICK n \in Nat : n = fetch.failures + 1
      BY <1>1 DEF FetchRecord
    <3>1. PICK f : f = [fetch EXCEPT !.failures = n]
      OBVIOUS
    <3>2. /\ f \in FetchRecord /\ f.at = "asking" /\ f.index = fetch.index /\ f.offset = fetch.offset
          /\ f.room = fetch.room /\ f.truncated = fetch.truncated
      BY <1>1, <3>1 DEF FetchRecord
    <3>3. fetch' = f
      BY <2>1, <3>0, <3>1
    <3> QED  BY <1>1, <1>2, <3>2, <3>3, CountersKeep
  <2>2. CASE \E how \in {"transport", "status"} : fetch' = Finished(fetch, how)
    <3>1. PICK how \in {"transport", "status"} : fetch' = Finished(fetch, how)
      BY <2>2
    <3> QED  BY <1>1, <1>2, <3>1, FinishedIs, CountersKeep DEF FetchEndings
  <2> QED  BY <1>4, <2>1, <2>2 DEF PageLost
<1>5. CASE TooLarge
  <2>1. PICK no \in BOOLEAN, yes \in BOOLEAN : no = FALSE /\ yes = TRUE
    OBVIOUS
  <2>2. PICK slower : slower = IF fetch.probing THEN Narrower(fetch.wait * 2, kMaxPages) ELSE fetch.wait
    OBVIOUS
  <2>3. slower \in 1 .. kMaxPages
    <3>1. fetch.wait \in 1 .. kMaxPages
      BY <1>1 DEF FetchRecord
    <3> QED  BY <2>2, <3>1, RomFacts DEF Narrower
  <2>4. PICK refused \in 0 .. kMaxPages : refused = fetch.refused + 1
    <3>1. fetch.refused \in 0 .. kMaxPages /\ fetch.refused < kMaxPages
      BY <1>1, <1>5 DEF FetchRecord, TooLarge, Asks, Asking
    <3> QED  BY <3>1, RomFacts
  <2>5. PICK f : f = [fetch EXCEPT !.failures = 0, !.refused = @ + 1, !.streak = 0, !.wait = slower, !.probing = FALSE]
    OBVIOUS
  <2>6. fetch' = IF f.size > 1 THEN Halved(f) ELSE LeftOut(f)
    BY <1>5, <2>2, <2>5, Zenon DEF TooLarge
  <2>7. /\ f \in FetchRecord /\ f.at = "asking" /\ f.index = fetch.index /\ f.offset = fetch.offset
        /\ f.room = fetch.room /\ f.truncated = fetch.truncated
    <3>1. f = [fetch EXCEPT !.failures = 0, !.refused = refused, !.streak = 0, !.wait = slower, !.probing = no]
      BY <2>1, <2>4, <2>5
    <3> QED  BY <1>1, <2>3, <3>1 DEF FetchRecord
  <2>8. CASE f.size > 1
    <3>1. PICK half : half = f.size \div 2
      OBVIOUS
    <3>2. half \in 1 .. kDefaultPageSize
      <4>1. f.size \in 1 .. kDefaultPageSize
        BY <2>7 DEF FetchRecord
      <4> QED  BY <2>8, <3>1, <4>1, RomFacts
    <3>3. PICK g : g = [f EXCEPT !.size = half]
      OBVIOUS
    <3>4. /\ g \in FetchRecord /\ g.at = "asking" /\ g.index = fetch.index /\ g.offset = fetch.offset
          /\ g.room = fetch.room /\ g.truncated = fetch.truncated
      BY <2>7, <3>2, <3>3 DEF FetchRecord
    <3>5. fetch' = g
      BY <2>6, <2>8, <3>1, <3>3 DEF Halved
    <3> QED  BY <1>1, <1>2, <3>4, <3>5, CountersKeep
  <2>9. CASE ~(f.size > 1)
    <3>1. PICK left \in Nat, offset \in Nat : left = f.leftOut + 1 /\ offset = f.offset + 1
      <4>1. f.leftOut \in Nat /\ f.offset \in Nat
        BY <2>7 DEF FetchRecord
      <4> QED  BY <4>1
    <3>2. PICK g : g = [f EXCEPT !.truncated = yes, !.leftOut = left, !.offset = offset,
                                 !.size = kDefaultPageSize, !.wait = 1]
      OBVIOUS
    <3>3. /\ g \in FetchRecord /\ g.at = "asking" /\ g.index = fetch.index /\ g.offset >= fetch.offset
          /\ g.room = fetch.room /\ g.truncated = yes
      <4>1. kDefaultPageSize \in 1 .. kDefaultPageSize /\ 1 \in 1 .. kMaxPages
        BY RomFacts
      <4>2. offset >= fetch.offset
        BY <1>2, <2>7, <3>1
      <4> QED  BY <2>7, <3>1, <3>2, <4>1, <4>2, ZenonT(60) DEF FetchRecord
    <3>4. fetch' = g
      BY <2>1, <2>6, <2>9, <3>1, <3>2 DEF LeftOut
    <3> QED  BY <1>1, <1>2, <2>1, <3>3, <3>4, CountersKeep
  <2> QED  BY <2>8, <2>9
<1>6. CASE Refused
  <2>1. PICK how \in BadAnswers : fetch' = Finished([fetch EXCEPT !.pages = @ + 1], how)
    BY <1>6 DEF Refused
  <2>2. PICK pages \in 0 .. kMaxPages : pages = fetch.pages + 1
    <3>1. fetch.pages \in 0 .. kMaxPages /\ fetch.pages < kMaxPages
      BY <1>1, <1>6 DEF FetchRecord, Refused, Asks, Asking
    <3> QED  BY <3>1, RomFacts
  <2>3. PICK f : f = [fetch EXCEPT !.pages = @ + 1]
    OBVIOUS
  <2>4. /\ f \in FetchRecord /\ f.index = fetch.index /\ f.offset = fetch.offset
        /\ f.room = fetch.room /\ f.truncated = fetch.truncated
    BY <1>1, <2>2, <2>3 DEF FetchRecord
  <2>5. PICK g : g = Finished(f, how)
    OBVIOUS
  <2>6. /\ g \in FetchRecord /\ g.at = how /\ g.index = fetch.index /\ g.offset = fetch.offset
        /\ g.room = fetch.room /\ g.truncated = fetch.truncated /\ how \in {"status", "shape"}
    BY <2>4, <2>5, FinishedIs DEF BadAnswers, FetchEndings
  <2>7. fetch' = g
    BY <2>1, <2>3, <2>5
  <2> QED  BY <1>1, <1>2, <2>6, <2>7, CountersKeep
<1>7. CASE Exhausted
  <2>1. PICK yes \in BOOLEAN : yes = TRUE
    OBVIOUS
  <2>2. PICK f : f = [fetch EXCEPT !.truncated = yes]
    OBVIOUS
  <2>3. /\ f \in FetchRecord /\ f.index = fetch.index /\ f.offset = fetch.offset
        /\ f.room = fetch.room /\ f.truncated = yes
    BY <1>1, <2>2 DEF FetchRecord
  <2>4. PICK g : g = Finished(f, "ok")
    OBVIOUS
  <2>5. /\ g \in FetchRecord /\ g.at = "ok" /\ g.index = fetch.index /\ g.offset = fetch.offset
        /\ g.room = fetch.room /\ g.truncated = yes
    BY <2>3, <2>4, FinishedIs DEF FetchEndings
  <2>6. fetch' = g
    BY <1>7, <2>1, <2>2, <2>4 DEF Exhausted
  <2>7. g.truncated
    BY <2>1, <2>5
  <2>8. (g.at = "asking" => fetch.at = "asking") /\ g.offset >= fetch.offset
    BY <1>1, <1>2, <2>5
  <2> QED  BY <1>1, <2>5, <2>6, <2>7, <2>8, CountersKeep
<1> QED  BY <1>3, <1>4, <1>5, <1>6, <1>7

(* A page is read.                                                          *)
LEMMA APageKeeps ==
    ASSUME RomInv, PageRead
    PROVE  RomInv'
<1>1. IndexTyped /\ IndexRises /\ RestIsLater /\ NoneIsSkipped /\ fetch \in FetchRecord /\ fetch.at = "asking"
      /\ UNCHANGED <<width, shelf, newest, steady, stopping, moves>>
  BY DEF RomInv, IndexTyped, PageRead, Asks, Asking
<1>2. PICK pages \in 0 .. kMaxPages : pages = fetch.pages + 1
  <2>1. fetch.pages \in 0 .. kMaxPages /\ fetch.pages < kMaxPages
    BY <1>1 DEF FetchRecord, PageRead, Asks, Asking
  <2> QED  BY <2>1, RomFacts
<1>3. PICK page, f : page = PageAt(fetch) /\ f = [fetch EXCEPT !.failures = 0, !.pages = @ + 1]
  OBVIOUS
<1>4. fetch' = IF page = <<>> THEN RanOut(f) ELSE Added(Reserved(Grown(f)), page)
  BY <1>3, Zenon DEF PageRead
<1>5. /\ f \in FetchRecord /\ f.at = "asking" /\ f.index = fetch.index /\ f.offset = fetch.offset
      /\ f.room = fetch.room /\ f.truncated = fetch.truncated
  <2>1. f = [fetch EXCEPT !.failures = 0, !.pages = pages]
    BY <1>2, <1>3
  <2> QED  BY <1>1, <2>1 DEF FetchRecord
<1>6. PICK offset \in Nat, whole \in Nat, was \in BOOLEAN, size \in Nat :
         offset = fetch.offset /\ whole = Cardinality(shelf) /\ was = fetch.truncated /\ size = Len(page)
  <2>1. fetch.offset \in Nat /\ fetch.truncated \in BOOLEAN
    BY <1>1 DEF FetchRecord
  <2>2. Cardinality(shelf) \in Nat /\ Len(page) \in Nat
    BY <1>1, <1>3, ShelfIs, PageIs
  <2> QED  BY <2>1, <2>2
<1>7. CASE page = <<>>
  <2>1. offset >= whole
    BY <1>1, <1>3, <1>6, <1>7, PageIs
  <2>2. PICK g : g = [f EXCEPT !.truncated = was]
    OBVIOUS
  <2>3. /\ g \in FetchRecord /\ g.index = fetch.index /\ g.offset = fetch.offset
        /\ g.room = fetch.room /\ g.truncated = was
    BY <1>5, <2>2 DEF FetchRecord
  <2>4. (f.truncated \/ f.offset < Cardinality(shelf)) = was
    <3>1. ~(f.offset < Cardinality(shelf))
      BY <1>5, <1>6, <2>1
    <3>2. f.truncated = was
      BY <1>5, <1>6
    <3> QED  BY <3>1, <3>2, Zenon
  <2>5. PICK ended : ended = Finished(g, "ok")
    OBVIOUS
  <2>6. /\ ended \in FetchRecord /\ ended.at = "ok" /\ ended.index = fetch.index /\ ended.offset = fetch.offset
        /\ ended.room = fetch.room /\ ended.truncated = was
    BY <2>3, <2>5, FinishedIs DEF FetchEndings
  <2>7. fetch' = ended
    <3>1. fetch' = RanOut(f)
      BY <1>4, <1>7
    <3>2. [f EXCEPT !.truncated = @ \/ f.offset < Cardinality(shelf)] = g
      BY <2>2, <2>4, Zenon
    <3> QED  BY <2>5, <3>1, <3>2, Zenon DEF RanOut
  <2>8. ended.truncated \/ (ended.offset = fetch.offset /\ ~fetch.truncated)
    BY <1>6, <2>6, Zenon
  <2>9. ended.offset >= fetch.offset /\ ended.offset >= Cardinality(shelf) /\ (ended.at = "asking" => fetch.at = "asking")
    BY <1>1, <1>6, <2>1, <2>6
  <2> QED  BY <1>1, <2>6, <2>7, <2>8, <2>9, CountersKeep
<1>8. CASE page # <<>>
  <2>1. shelf # {} /\ size > 0
    <3>1. page \in Seq(shelf)
      BY <1>1, <1>3, PageIs
    <3>2. size > 0
      BY <1>6, <1>8, <3>1, EmptySeq
    <3>3. 1 \in 1 .. Len(page)
      BY <1>6, <3>2
    <3> QED  BY <3>1, <3>2, <3>3, ElementOfSeq
  <2>2. PICK g : g = Reserved(Grown(f))
    OBVIOUS
  <2>3. /\ g \in FetchRecord /\ g.at = "asking" /\ g.index = fetch.index /\ g.offset = offset
        /\ g.truncated = was /\ (fetch.room > 0 => g.room = fetch.room)
    <3>1. PICK h : h = Grown(f)
      OBVIOUS
    <3>2. /\ h \in FetchRecord /\ h.at = "asking" /\ h.index = fetch.index /\ h.offset = offset
          /\ h.room = fetch.room /\ h.truncated = was
      BY <1>5, <1>6, <3>1, GrownIs
    <3>3. g = Reserved(h)
      BY <2>2, <3>1
    <3> QED  BY <1>1, <2>1, <3>2, <3>3, ReservedIs
  <2>4. PICK n \in Nat, room \in Nat : n = Len(fetch.index) /\ room = g.room /\ n <= room /\ room <= kMaxIndexRoms
    <3>1. fetch.index \in Seq(RomIds) /\ fetch.room \in Nat /\ g.room \in 0 .. kMaxIndexRoms
      BY <1>1, <2>3 DEF FetchRecord
    <3>2. Len(fetch.index) \in Nat /\ Len(fetch.index) <= fetch.room
      BY <1>1, <3>1 DEF IndexTyped
    <3> QED  BY <2>3, <3>1, <3>2, RomFacts
  <2>5. PICK free \in Nat : free = g.room - Len(g.index) /\ free = room - n
    BY <2>3, <2>4
  <2>6. fetch' = Added(g, page)
    BY <1>4, <1>8, <2>2
  <2>7. CASE size > free
    <3>1. PICK part : part = SubSeq(page, 1, free)
      OBVIOUS
    <3>2. part \in Seq(shelf) /\ Len(part) = free /\ \A k \in 1 .. free : part[k] = page[k]
      <4>1. page \in Seq(shelf) /\ size = Len(page)
        BY <1>1, <1>3, <1>6, PageIs
      <4>2. ASSUME free = 0 PROVE part = <<>>
        BY <3>1, <4>1, <4>2, SubSeqProperties
      <4>3. CASE free = 0
        <5>1. part = <<>>
          BY <4>2, <4>3
        <5>2. part \in Seq(shelf) /\ Len(part) = 0
          BY <5>1
        <5> QED  BY <4>3, <5>2
      <4>4. CASE free > 0
        <5>1. \A i \in 1 .. free : i \in 1 .. Len(page)
          BY <1>6, <2>7
        <5>2. /\ part \in Seq(shelf) /\ Len(part) = free - 1 + 1
              /\ \A i \in 1 .. free - 1 + 1 : part[i] = page[1 + i - 1]
          BY <3>1, <4>1, <4>4, <5>1, SubSeqProperties
        <5>3. free - 1 + 1 = free /\ \A i \in Int : 1 + i - 1 = i
          OBVIOUS
        <5> QED  BY <5>2, <5>3
      <4> QED  BY <2>5, <4>3, <4>4
    <3>3. PICK index : index = fetch.index \o part
      OBVIOUS
    <3>4. Len(part) <= Len(page) /\ \A k \in 1 .. Len(part) : part[k] = page[k]
      BY <1>6, <2>7, <3>2
    <3>5. /\ index \in Seq(RomIds) /\ Len(index) = Len(fetch.index) + Len(part)
          /\ \A i, j \in 1 .. Len(index) : i < j => index[i] < index[j]
      <4>1. GrownBy(index, part, page)
        BY <1>1, <1>3, <3>2, <3>3, <3>4, PageFollows, Zenon
      <4> QED  BY <4>1, Zenon DEF GrownBy
    <3>6. PICK yes \in BOOLEAN : yes = TRUE
      OBVIOUS
    <3>7. PICK cut : cut = [g EXCEPT !.index = index, !.truncated = yes]
      OBVIOUS
    <3>8. cut \in FetchRecord /\ cut.index = index /\ cut.truncated = yes /\ cut.room = room
      BY <2>3, <2>4, <3>5, <3>7 DEF FetchRecord
    <3>9. PICK ended : ended = Finished(cut, "ok")
      OBVIOUS
    <3>10. ended \in FetchRecord /\ ended.at = "ok" /\ ended.index = index /\ ended.truncated = yes /\ ended.room = room
      BY <3>8, <3>9, FinishedIs DEF FetchEndings
    <3>11. fetch' = ended
      <4>1. fetch' = Finished([g EXCEPT !.index = @ \o SubSeq(page, 1, free), !.truncated = TRUE], "ok")
        BY <1>6, <2>5, <2>6, <2>7 DEF Added
      <4>2. cut = [g EXCEPT !.index = @ \o SubSeq(page, 1, free), !.truncated = TRUE]
        BY <2>3, <3>1, <3>3, <3>6, <3>7
      <4> QED  BY <3>9, <4>1, <4>2
    <3>12. Len(index) <= room
      BY <2>4, <2>5, <3>2, <3>5
    <3>13. IndexTyped'
      BY <1>1, <3>10, <3>11, <3>12 DEF IndexTyped
    <3>14. IndexRises'
      BY <3>5, <3>10, <3>11 DEF IndexRises
    <3>15. fetch'.at # "asking" /\ fetch'.truncated
      BY <3>6, <3>10, <3>11
    <3>16. RestIsLater'
      BY <3>15 DEF RestIsLater
    <3>17. Cardinality(shelf)' <= Cardinality(steady)' + moves'
      BY <1>1 DEF NoneIsSkipped
    <3>18. NoneIsSkipped'
      BY <3>15, <3>17, Zenon DEF NoneIsSkipped
    <3> QED  BY <3>13, <3>14, <3>16, <3>18 DEF RomInv
  <2>8. CASE ~(size > free)
    <3>1. PICK index : index = fetch.index \o page
      OBVIOUS
    <3>2. page \in Seq(shelf) /\ Len(page) <= Len(page) /\ \A k \in 1 .. Len(page) : page[k] = page[k]
      BY <1>1, <1>3, <1>6, PageIs
    <3>3. /\ index \in Seq(RomIds) /\ Len(index) = n + size
          /\ \A i \in 1 .. n : index[i] = fetch.index[i]
          /\ \A k \in 1 .. size : index[n + k] = page[k]
          /\ \A i, j \in 1 .. Len(index) : i < j => index[i] < index[j]
          /\ \A i \in 1 .. Len(index) : index[i] <= newest /\ PlaceOf(index[i]) <= offset + size
      <4>1. /\ index \in Seq(RomIds) /\ Len(index) = Len(fetch.index) + Len(page)
            /\ \A i \in 1 .. Len(fetch.index) : index[i] = fetch.index[i]
            /\ \A k \in 1 .. Len(page) : index[Len(fetch.index) + k] = page[k]
            /\ \A i, j \in 1 .. Len(index) : i < j => index[i] < index[j]
            /\ \A i \in 1 .. Len(index) : index[i] <= newest /\ PlaceOf(index[i]) <= fetch.offset + Len(page)
        <5>1. PICK part \in Seq(shelf) : part = page
          BY <3>2
        <5>2. Len(part) <= Len(page) /\ \A k \in 1 .. Len(part) : part[k] = page[k]
          BY <3>2, <5>1
        <5>3. index = fetch.index \o part
          BY <3>1, <5>1
        <5>4. /\ index \in Seq(RomIds) /\ Len(index) = Len(fetch.index) + Len(part)
              /\ \A i \in 1 .. Len(fetch.index) : index[i] = fetch.index[i]
              /\ \A k \in 1 .. Len(part) : index[Len(fetch.index) + k] = page[k]
              /\ \A i, j \in 1 .. Len(index) : i < j => index[i] < index[j]
              /\ \A i \in 1 .. Len(index) : index[i] <= newest /\ PlaceOf(index[i]) <= fetch.offset + Len(part)
          <6>1. GrownBy(index, part, page)
            BY <1>1, <1>3, <5>1, <5>2, <5>3, PageFollows, Zenon
          <6> QED  BY <5>1, <6>1, Zenon DEF GrownBy
        <5> QED  BY <5>1, <5>4, Zenon
      <4> QED  BY <1>6, <2>4, <4>1, Zenon
    <3>4. PICK beyond \in Nat : beyond = offset + size
      BY <1>6
    <3>5. PICK grown : grown = [g EXCEPT !.index = index, !.offset = beyond]
      OBVIOUS
    <3>6. /\ grown \in FetchRecord /\ grown.index = index /\ grown.offset = beyond /\ grown.room = room
          /\ grown.truncated = was /\ grown.at = "asking"
      BY <2>3, <2>4, <3>3, <3>5 DEF FetchRecord
    <3>7. grown = Advance(g, page)
      BY <1>6, <2>3, <3>1, <3>4, <3>5 DEF Advance
    <3>8. PICK ended : ended = Finished(grown, "ok")
      OBVIOUS
    <3>9. /\ ended \in FetchRecord /\ ended.index = index /\ ended.offset = beyond /\ ended.room = room
          /\ ended.truncated = was /\ ended.at = "ok"
      BY <3>6, <3>8, FinishedIs DEF FetchEndings
    <3>10. fetch' = IF grown.offset >= Cardinality(shelf) THEN ended ELSE grown
      BY <1>6, <2>5, <2>6, <2>8, <3>7, <3>8 DEF Added
    <3>11. PICK e : e = fetch'
      OBVIOUS
    <3>12. /\ e \in FetchRecord /\ e.index = index /\ e.offset = beyond /\ e.room = room /\ e.truncated = was
           /\ (e.at = "asking" => beyond <= whole) /\ (e.at = "ok" => beyond >= whole)
      <4>1. CASE beyond >= whole
        <5>1. e = ended
          BY <1>6, <3>6, <3>10, <3>11, <4>1
        <5> QED  BY <3>9, <4>1, <5>1
      <4>2. CASE ~(beyond >= whole)
        <5>1. e = grown
          BY <1>6, <3>6, <3>10, <3>11, <4>2
        <5> QED  BY <3>4, <3>6, <4>2, <5>1
      <4> QED  BY <4>1, <4>2
    <3>13. Len(index) <= room
      BY <1>6, <2>4, <2>5, <2>8, <3>3
    <3>14. IndexTyped'
      BY <1>1, <3>11, <3>12, <3>13 DEF IndexTyped
    <3>15. IndexRises'
      BY <3>3, <3>11, <3>12 DEF IndexRises
    <3>16. ASSUME NEW k PROVE PlaceOf(k)' = PlaceOf(k)
      BY <1>1 DEF PlaceOf
    <3>17. RestIsLater'
      BY <1>1, <3>3, <3>4, <3>11, <3>12, <3>16 DEF RestIsLater
    <3>18. ASSUME Cardinality(shelf) = Cardinality(steady) + moves, ~was, NEW id \in shelf, PlaceOf(id) <= beyond
           PROVE  id \in Holds(e)
      <4>1. PlaceOf(id) \in Nat /\ PlaceOf(id) \in 1 .. whole
        BY <1>1, <1>6, InOrderIs
      <4>2. CASE PlaceOf(id) <= offset
        <5>1. id \in Holds(fetch)
          BY <1>1, <1>6, <3>18, <4>2 DEF NoneIsSkipped
        <5>2. PICK i \in 1 .. n : fetch.index[i] = id
          BY <2>4, <5>1 DEF Holds
        <5>3. i \in 1 .. Len(index) /\ index[i] = id
          BY <1>6, <2>4, <3>3, <5>2
        <5> QED  BY <3>12, <5>3 DEF Holds
      <4>3. CASE ~(PlaceOf(id) <= offset)
        <5>1. PICK k \in 1 .. size : PlaceOf(id) = offset + k
          <6>1. PICK place \in Nat : place = PlaceOf(id) /\ place <= offset + size /\ ~(place <= offset)
            BY <3>4, <3>18, <4>1, <4>3, Zenon
          <6>2. place - offset \in 1 .. size /\ place = offset + (place - offset)
            BY <6>1
          <6> QED  BY <6>1, <6>2, Zenon
        <5>2. page[k] \in shelf /\ PlaceOf(page[k]) = PlaceOf(id)
          BY <1>1, <1>3, <1>6, <5>1, PageIs
        <5>3. page[k] = id
          <6>1. \A a, b \in shelf : a < b => PlaceOf(a) < PlaceOf(b)
            BY <1>1, InOrderIs
          <6>2. page[k] \in Nat /\ id \in Nat
            <7>1. shelf \subseteq RomIds
              BY <1>1, ShelfIs
            <7>2. page[k] \in RomIds /\ id \in RomIds
              BY <5>2, <7>1
            <7> QED  BY <7>2, RomFacts DEF RomIds
          <6> QED  BY <4>1, <5>2, <6>1, <6>2
        <5>4. n + k \in 1 .. Len(index) /\ index[n + k] = id
          <6>1. n + k \in 1 .. n + size
            BY <1>6, <2>4, <5>1
          <6>2. index[n + k] = page[k]
            BY <3>3, <5>1
          <6> QED  BY <3>3, <5>3, <6>1, <6>2
        <5> QED  BY <3>12, <5>4 DEF Holds
      <4> QED  BY <4>2, <4>3
    <3>19. NoneIsSkipped'
      <4>1. /\ \A id \in shelf : PlaceOf(id)' = PlaceOf(id)
            /\ shelf' = shelf /\ Cardinality(shelf)' = Cardinality(shelf) /\ Cardinality(steady)' = Cardinality(steady)
            /\ moves' = moves
        BY <1>1, <3>16
      <4>2. Cardinality(shelf) <= Cardinality(steady) + moves
        BY <1>1 DEF NoneIsSkipped
      <4> QED  BY <1>6, <3>11, <3>12, <3>18, <4>1, <4>2, Zenon DEF NoneIsSkipped
    <3> QED  BY <3>14, <3>15, <3>17, <3>19 DEF RomInv
  <2> QED  BY <2>7, <2>8
<1> QED  BY <1>7, <1>8

(* The server's library changes meanwhile, and the tick is cancelled.       *)
LEMMA AnAddedRomKeeps ==
    ASSUME RomInv, RomAdded
    PROVE  RomInv'
<1>1. IndexTyped /\ IndexRises /\ RestIsLater /\ NoneIsSkipped /\ fetch \in FetchRecord /\ fetch.at = "asking"
      /\ UNCHANGED <<width, steady, fetch, stopping>>
  BY DEF RomInv, IndexTyped, RomAdded
<1>2. PICK id \in RomIds : id > newest /\ newest' = id /\ shelf' = shelf \cup {id}
  BY DEF RomAdded
<1>3. newest \in Nat /\ id \in Nat /\ id <= MaxRom /\ MaxRom \in Nat
  BY <1>1, RomFacts DEF IndexTyped, RomIds
<1>4. IsFiniteSet(shelf) /\ Cardinality(shelf) \in Nat /\ Cardinality(steady) \in Nat
  BY <1>1, ShelfIs
<1>5. \A other \in shelf : other \in Nat /\ other <= newest
  BY <1>1, <1>3 DEF IndexTyped
<1>6. Cardinality(shelf)' = Cardinality(shelf) + 1
  <2>1. id \notin shelf
    BY <1>2, <1>3, <1>5
  <2>2. Cardinality(shelf \cup {id}) = Cardinality(shelf) + 1
    BY <1>4, <2>1, FS_AddElement
  <2> QED  BY <1>2, <2>2
<1>7. moves' = moves + 1 /\ moves \in 0 .. MaxMoves /\ moves < MaxMoves /\ MaxMoves \in Nat
  BY <1>1, RomFacts DEF RomAdded, IndexTyped
<1>8. IndexTyped'
  <2>1. newest' \in 0 .. MaxRom /\ moves' \in 0 .. MaxMoves
    BY <1>2, <1>3, <1>7
  <2>2. shelf' \in SUBSET (1 .. newest') /\ steady' \in SUBSET shelf'
    <3>1. \A other \in shelf' : other \in 1 .. newest'
      <4>1. id >= 1
        BY <1>3, RomFacts DEF RomIds
      <4>2. ASSUME NEW other \in shelf PROVE other \in 1 .. id
        <5>1. other \in 1 .. newest
          BY <1>1 DEF IndexTyped
        <5> QED  BY <1>2, <1>3, <5>1
      <4> QED  BY <1>2, <1>3, <4>1, <4>2
    <3>2. steady' \in SUBSET shelf'
      BY <1>1, <1>2 DEF IndexTyped
    <3> QED  BY <3>1, <3>2
  <2> QED  BY <1>1, <2>1, <2>2 DEF IndexTyped
<1>9. IndexRises'
  BY <1>1 DEF IndexRises
<1>10. ASSUME NEW k \in Nat, k <= newest PROVE PlaceOf(k)' = PlaceOf(k)
  <2>1. ~(id <= k)
    BY <1>2, <1>3, <1>10
  <2>2. {other \in shelf' : other <= k} = {other \in shelf : other <= k}
    BY <1>2, <2>1
  <2> QED  BY <2>2 DEF PlaceOf
<1>11. RestIsLater'
  <2>1. ASSUME NEW i \in 1 .. Len(fetch.index)
        PROVE  fetch.index[i] <= newest' /\ PlaceOf(fetch.index[i])' <= fetch.offset
    <3>1. PICK k \in Nat : k = fetch.index[i]
      <4>1. PICK s \in Seq(RomIds) : s = fetch.index
        BY <1>1 DEF FetchRecord
      <4>2. s[i] \in RomIds
        BY <2>1, <4>1
      <4> QED  BY <4>1, <4>2, RomFacts DEF RomIds
    <3>2. fetch.index[i] <= newest /\ PlaceOf(fetch.index[i]) <= fetch.offset
      BY <1>1, <2>1 DEF RestIsLater
    <3>3. k <= newest /\ PlaceOf(k)' = PlaceOf(k)
      BY <1>10, <3>1, <3>2
    <3>4. PlaceOf(fetch.index[i])' = PlaceOf(k)'
      BY <1>1, <3>1
    <3>5. k <= newest'
      BY <1>2, <1>3, <3>1, <3>3
    <3> QED  BY <3>1, <3>2, <3>3, <3>4, <3>5
  <2> QED  BY <1>1, <2>1 DEF RestIsLater
<1>12. NoneIsSkipped'
  <2>1. Cardinality(steady)' = Cardinality(steady)
    BY <1>1
  <2>2. Cardinality(shelf)' <= Cardinality(steady)' + moves'
    BY <1>1, <1>4, <1>6, <1>7, <2>1 DEF NoneIsSkipped
  <2>3. ASSUME Cardinality(shelf)' = Cardinality(steady)' + moves', ~fetch.truncated
        PROVE  Cardinality(shelf) = Cardinality(steady) + moves /\ fetch.offset <= Cardinality(shelf)
    <3>1. Cardinality(shelf) = Cardinality(steady) + moves
      BY <1>4, <1>6, <1>7, <2>1, <2>3
    <3> QED  BY <1>1, <2>3, <3>1 DEF NoneIsSkipped
  <2>4. fetch.offset \in Nat
    BY <1>1 DEF FetchRecord
  <2>5. ASSUME Cardinality(shelf)' = Cardinality(steady)' + moves', ~fetch.truncated,
               NEW other \in shelf', PlaceOf(other)' <= fetch.offset
        PROVE  other \in Holds(fetch)
    <3>1. CASE other \in shelf
      <4>1. PlaceOf(other)' = PlaceOf(other)
        BY <1>5, <1>10, <3>1
      <4> QED  BY <1>1, <2>3, <2>5, <3>1, <4>1 DEF NoneIsSkipped
    <3>2. CASE other = id
      <4>1. {it \in shelf' : it <= id} = shelf'
        BY <1>2, <1>3, <1>5
      <4>2. PlaceOf(id)' = Cardinality(shelf)'
        BY <1>2, <4>1 DEF PlaceOf
      <4>3. Cardinality(shelf)' <= fetch.offset
        BY <2>5, <3>2, <4>2
      <4> QED  BY <1>4, <1>6, <2>3, <2>4, <2>5, <4>3
    <3> QED  BY <1>2, <3>1, <3>2
  <2>6. Cardinality(shelf)' = Cardinality(steady)' + moves' /\ ~fetch.truncated => fetch.offset <= Cardinality(shelf)'
    BY <1>4, <1>6, <2>3, <2>4
  <2>7. fetch' = fetch /\ fetch.at # "ok"
    BY <1>1
  <2> QED  BY <2>2, <2>5, <2>6, <2>7, Zenon DEF NoneIsSkipped
<1> QED  BY <1>8, <1>9, <1>11, <1>12 DEF RomInv

LEMMA ARemovedRomKeeps ==
    ASSUME RomInv, RomRemoved
    PROVE  RomInv'
<1>1. IndexTyped /\ IndexRises /\ RestIsLater /\ NoneIsSkipped /\ fetch \in FetchRecord /\ fetch.at = "asking"
      /\ UNCHANGED <<width, newest, fetch, stopping>>
  BY DEF RomInv, IndexTyped, RomRemoved
<1>2. PICK id \in shelf : shelf' = shelf \ {id} /\ steady' = steady \ {id}
  BY DEF RomRemoved
<1>3. IsFiniteSet(shelf) /\ Cardinality(shelf) \in Nat /\ IsFiniteSet(steady) /\ Cardinality(steady) \in Nat
  BY <1>1, ShelfIs
<1>4. PICK before \in Nat, after \in Nat, held \in Nat, holds \in Nat :
         /\ before = Cardinality(shelf) /\ after = Cardinality(shelf \ {id}) /\ after + 1 = before
         /\ held = Cardinality(steady) /\ holds = Cardinality(steady \ {id}) /\ holds + 1 >= held
  <2>1. IsFiniteSet(shelf \ {id}) /\ Cardinality(shelf \ {id}) = Cardinality(shelf) - 1
    BY <1>2, <1>3, FS_RemoveElement
  <2>2. Cardinality(shelf \ {id}) \in Nat
    BY <2>1, FS_CardinalityType
  <2>3. IsFiniteSet(steady \ {id}) /\ Cardinality(steady \ {id}) + 1 >= Cardinality(steady)
    <3>1. CASE id \in steady
      <4>1. Cardinality(steady \ {id}) = Cardinality(steady) - 1 /\ IsFiniteSet(steady \ {id})
        BY <1>3, <3>1, FS_RemoveElement
      <4> QED  BY <1>3, <4>1
    <3>2. CASE id \notin steady
      <4>1. steady \ {id} = steady
        BY <3>2
      <4> QED  BY <1>3, <4>1
    <3> QED  BY <3>1, <3>2
  <2>4. Cardinality(steady \ {id}) \in Nat
    BY <2>3, FS_CardinalityType
  <2> QED  BY <1>3, <2>1, <2>2, <2>3, <2>4
<1>5. moves' = moves + 1 /\ moves \in 0 .. MaxMoves /\ moves < MaxMoves /\ MaxMoves \in Nat
  BY <1>1, RomFacts DEF RomRemoved, IndexTyped
<1>6. IndexTyped'
  <2>1. moves' \in 0 .. MaxMoves
    BY <1>5
  <2>2. shelf' \in SUBSET (1 .. newest) /\ steady' \in SUBSET shelf'
    BY <1>1, <1>2 DEF IndexTyped
  <2> QED  BY <1>1, <2>1, <2>2 DEF IndexTyped
<1>7. IndexRises'
  BY <1>1 DEF IndexRises
<1>8. ASSUME NEW k \in Nat PROVE PlaceOf(k)' \in Nat /\ PlaceOf(k)' <= PlaceOf(k) /\ PlaceOf(k) \in Nat
  <2>1. {other \in shelf' : other <= k} \subseteq {other \in shelf : other <= k}
    BY <1>2
  <2>2. IsFiniteSet({other \in shelf : other <= k})
    <3>1. {other \in shelf : other <= k} \subseteq shelf
      OBVIOUS
    <3> QED  BY <1>3, <3>1, FS_Subset
  <2>3. IsFiniteSet({other \in shelf' : other <= k})
        /\ Cardinality({other \in shelf' : other <= k}) <= Cardinality({other \in shelf : other <= k})
    BY <2>1, <2>2, FS_Subset
  <2>4. Cardinality({other \in shelf' : other <= k}) \in Nat /\ Cardinality({other \in shelf : other <= k}) \in Nat
    BY <2>2, <2>3, FS_CardinalityType
  <2> QED  BY <2>3, <2>4 DEF PlaceOf
<1>9. RestIsLater'
  <2>1. ASSUME NEW i \in 1 .. Len(fetch.index)
        PROVE  fetch.index[i] <= newest /\ PlaceOf(fetch.index[i])' <= fetch.offset
    <3>1. PICK k \in Nat : k = fetch.index[i]
      <4>1. PICK s \in Seq(RomIds) : s = fetch.index
        BY <1>1 DEF FetchRecord
      <4>2. s[i] \in RomIds
        BY <2>1, <4>1
      <4> QED  BY <4>1, <4>2, RomFacts DEF RomIds
    <3>2. fetch.index[i] <= newest /\ PlaceOf(fetch.index[i]) <= fetch.offset
      BY <1>1, <2>1 DEF RestIsLater
    <3>3. PlaceOf(k)' \in Nat /\ PlaceOf(k)' <= PlaceOf(k) /\ PlaceOf(k) \in Nat
      BY <1>8
    <3>4. PlaceOf(fetch.index[i])' = PlaceOf(k)'
      BY <1>1, <3>1
    <3>5. fetch.offset \in Nat
      BY <1>1 DEF FetchRecord
    <3> QED  BY <3>1, <3>2, <3>3, <3>4, <3>5
  <2> QED  BY <1>1, <2>1 DEF RestIsLater
<1>10. NoneIsSkipped'
  <2>1. Cardinality(shelf)' = after /\ Cardinality(steady)' = holds
    BY <1>2, <1>4
  <2>2. before <= held + moves
    BY <1>1, <1>4 DEF NoneIsSkipped
  <2>3. after < holds + moves'
    BY <1>4, <1>5, <2>2
  <2>4. ~(after = holds + moves') /\ after <= holds + moves'
    BY <1>4, <1>5, <2>3
  <2>5. Cardinality(shelf)' <= Cardinality(steady)' + moves' /\ ~(Cardinality(shelf)' = Cardinality(steady)' + moves')
    BY <2>1, <2>4, Zenon
  <2>6. fetch'.at # "ok"
    BY <1>1
  <2> QED  BY <2>5, <2>6, Zenon DEF NoneIsSkipped
<1> QED  BY <1>6, <1>7, <1>9, <1>10 DEF RomInv

LEMMA RomInit ==
    ASSUME RomIndexInit
    PROVE  RomInv
<1>1. IndexTyped
  <2>1. 1 \in 1 .. kMaxPages /\ kDefaultPageSize \in 1 .. kDefaultPageSize /\ 0 \in 0 .. kMaxPages
        /\ 0 \in 0 .. kMaxIndexRoms /\ 0 \in 0 .. MaxMoves
    BY RomFacts
  <2>2. PICK no \in BOOLEAN, none \in Seq(RomIds) : no = FALSE /\ none = <<>>
    <3>1. FALSE \in BOOLEAN
      OBVIOUS
    <3>2. <<>> \in Seq(RomIds)
      OBVIOUS
    <3> QED  BY <3>1, <3>2, Zenon
  <2>3. PICK f : f = [at |-> "asking", size |-> kDefaultPageSize, wait |-> 1, streak |-> 0,
                      probing |-> no, offset |-> 0, room |-> 0, failures |-> 0, pages |-> 0,
                      refused |-> 0, leftOut |-> 0, truncated |-> no, index |-> none]
    OBVIOUS
  <2>4. f \in FetchRecord /\ f.index = <<>> /\ f.room = 0
    BY <2>1, <2>2, <2>3 DEF FetchRecord
  <2>5. fetch = f
    BY <2>2, <2>3 DEF RomIndexInit, Fresh
  <2>6. Len(fetch.index) <= fetch.room
    BY <2>4, <2>5
  <2> QED  BY <2>1, <2>4, <2>5, <2>6 DEF IndexTyped, RomIndexInit
<1>2. /\ fetch.index = <<>> /\ fetch.offset = 0 /\ fetch.at = "asking" /\ Len(fetch.index) = 0
  BY DEF RomIndexInit, Fresh
<1>3. IndexRises /\ RestIsLater
  BY <1>2 DEF IndexRises, RestIsLater
<1>4. NoneIsSkipped
  <2>1. Cardinality(shelf) \in Nat /\ steady = shelf /\ moves = 0
    BY <1>1, ShelfIs DEF RomIndexInit
  <2>2. Cardinality(shelf) <= Cardinality(steady) + moves /\ fetch.offset <= Cardinality(shelf) /\ fetch.at # "ok"
    BY <1>2, <2>1
  <2>3. \A id \in shelf : ~(PlaceOf(id) <= fetch.offset)
    <3>1. \A id \in shelf : PlaceOf(id) \in 1 .. Cardinality(shelf)
      BY <1>1, InOrderIs
    <3> QED  BY <1>2, <2>1, <3>1
  <2> QED  BY <2>2, <2>3 DEF NoneIsSkipped
<1> QED  BY <1>1, <1>3, <1>4 DEF RomInv

LEMMA RomStep ==
    ASSUME RomInv, [RomIndexNext]_indexVars
    PROVE  RomInv'
<1>1. CASE RomIndexNext
  <2>1. CASE Fetches
    BY <2>1, WithoutAPage, APageKeeps DEF Fetches
  <2>2. CASE RomAdded
    BY <2>2, AnAddedRomKeeps
  <2>3. CASE RomRemoved
    BY <2>3, ARemovedRomKeeps
  <2>4. CASE TokenFires
    <3>1. fetch.at = "asking" /\ stopping' \in BOOLEAN /\ UNCHANGED <<width, shelf, newest, steady, fetch, moves>>
      BY <2>4 DEF TokenFires
    <3>2. \A k : PlaceOf(k)' = PlaceOf(k)
      BY <3>1 DEF PlaceOf
    <3>3. IndexTyped' /\ IndexRises' /\ RestIsLater'
      BY <3>1, <3>2 DEF RomInv, IndexTyped, IndexRises, RestIsLater
    <3>4. NoneIsSkipped'
      BY <3>1, <3>2 DEF RomInv, NoneIsSkipped, Holds
    <3> QED  BY <3>3, <3>4 DEF RomInv
  <2> QED  BY <1>1, <2>1, <2>2, <2>3, <2>4 DEF RomIndexNext
<1>2. CASE UNCHANGED indexVars
  <2>1. UNCHANGED <<width, shelf, newest, steady, fetch, stopping, moves>>
    BY <1>2 DEF indexVars
  <2>2. \A k : PlaceOf(k)' = PlaceOf(k)
    BY <2>1 DEF PlaceOf
  <2>3. IndexTyped' /\ IndexRises' /\ RestIsLater'
    BY <2>1, <2>2 DEF RomInv, IndexTyped, IndexRises, RestIsLater
  <2>4. NoneIsSkipped'
    BY <2>1, <2>2 DEF RomInv, NoneIsSkipped, Holds
  <2> QED  BY <2>3, <2>4 DEF RomInv
<1> QED  BY <1>1, <1>2

(* The inductive invariant: the index rises and holds all that the offset   *)
(* is past, unless it is marked or the library lost a rom.                  *)
THEOREM RomInvariance == RomIndexSpec => []RomInv
<1>1. RomIndexInit => RomInv
  BY RomInit
<1>2. RomInv /\ [RomIndexNext]_indexVars => RomInv'
  BY RomStep
<1> QED  BY <1>1, <1>2, PTL DEF RomIndexSpec

(* Every variable of a fetch keeps its type, and its counters their bounds. *)
THEOREM RomTypeCorrect == RomIndexSpec => []RomIndexTypeOK
<1>1. RomInv => RomIndexTypeOK
  <2>1. SUFFICES ASSUME RomInv PROVE RomIndexTypeOK
    OBVIOUS
  <2>2. IndexTyped
    BY <2>1 DEF RomInv
  <2>3. fetch \in FetchRecord
    BY <2>2 DEF IndexTyped
  <2>4. fetch.room <= kMaxIndexRoms
    BY <2>3, RomFacts DEF FetchRecord
  <2> QED  BY <2>2, <2>3, <2>4 DEF IndexTyped, FetchRecord, RomIndexTypeOK
<1> QED  BY <1>1, RomInvariance, PTL

LEMMA TheLibraryIsHeld ==
    ASSUME RomInv
    PROVE  IndexIsTheLibrary
<1>1. IndexTyped /\ IndexRises /\ NoneIsSkipped /\ fetch \in FetchRecord
  BY DEF RomInv, IndexTyped
<1>2. ASSUME NEW i \in 1 .. Len(fetch.index), NEW j \in 1 .. Len(fetch.index), i # j
      PROVE  fetch.index[i] # fetch.index[j]
  <2>1. PICK s \in Seq(RomIds) : s = fetch.index
    BY <1>1 DEF FetchRecord
  <2>2. s[i] \in RomIds /\ s[j] \in RomIds
    BY <1>2, <2>1
  <2>3. fetch.index[i] \in Nat /\ fetch.index[j] \in Nat
    BY <2>1, <2>2, RomFacts DEF RomIds
  <2>4. i < j \/ j < i
    BY <1>2
  <2> QED  BY <1>1, <1>2, <2>3, <2>4 DEF IndexRises
<1>3. ASSUME fetch.at = "ok", ~fetch.truncated, Cardinality(shelf) = Cardinality(steady) + moves, NEW id \in steady
      PROVE  id \in Holds(fetch)
  <2>1. id \in shelf
    BY <1>1, <1>3 DEF IndexTyped
  <2>2. PlaceOf(id) \in 1 .. Cardinality(shelf) /\ Cardinality(shelf) \in Nat
    BY <1>1, <2>1, InOrderIs, ShelfIs
  <2>3. fetch.offset >= Cardinality(shelf) /\ fetch.offset \in Nat
    BY <1>1, <1>3 DEF NoneIsSkipped, FetchRecord
  <2> QED  BY <1>1, <1>3, <2>1, <2>2, <2>3 DEF NoneIsSkipped
<1> QED  BY <1>2, <1>3 DEF IndexIsTheLibrary

(* An index that is not marked truncated has no rom twice and, unless a rom *)
(* was removed while it was read, every rom that was there all along.       *)
THEOREM AnUnmarkedIndexIsWhole == RomIndexSpec => []IndexIsTheLibrary
<1>1. RomInv => IndexIsTheLibrary
  BY TheLibraryIsHeld
<1> QED  BY <1>1, RomInvariance, PTL

-----------------------------------------------------------------------------
(* The scan of the card.                                                    *)

\* The record a file of a folder makes, and a scan's value field by field.
RecordOf(folder, name, hashed) ==
    [dir |-> folder.dir, name |-> name,
     key |-> KeyOf(folder, name, CHOOSE r \in Matches(folder, name) : TRUE),
     played |-> PlayedIn(folder), hashed |-> hashed]

ScanRecords == {RecordOf(x[1], x[2], x[3]) : x \in Range(PlanFolders) \X FileNames \X BOOLEAN}

IsScan(s) ==
    s \in [at : {"plan", "list", "walk", "done"}, plan : {s.plan}, left : {s.left}, records : {s.records},
           held : {s.held}, skips : {s.skips}, unhashed : {s.unhashed}, stopped : BOOLEAN, swept : {s.swept}]

DirsOf(plan) == {f.dir : f \in Range(plan)}

ScanTyped(s) ==
    /\ IsScan(s)
    /\ s.plan \in Seq(Range(PlanFolders)) /\ (s.at = "walk" => s.plan # <<>>)
    /\ s.left \in SUBSET FileNames
    /\ s.records \in Seq(ScanRecords) /\ Len(s.records) <= kMaxSaves
    /\ \A skip \in s.skips : skip.reason \in SkipReasons
    /\ (s.stopped => s.at = "done")

\* Each record's key is held for it, and each key held for one.
HeldAgrees(records, held) ==
    /\ \A i \in 1 .. Len(records) : records[i].key \in DOMAIN held /\ held[records[i].key].at = i
    /\ \A key \in DOMAIN held :
          /\ held[key].at \in 1 .. Len(records)
          /\ records[held[key].at].key = key
          /\ held[key].played = records[held[key].at].played

CopiesTold(s) ==
    /\ \A skip \in s.skips : skip.reason = "duplicate" =>
          \E r \in Range(s.records) : r.key = KeyAt(skip) /\ (PlayedIn(FolderAt(skip.dir)) => r.played)
    /\ \A skip \in s.skips : skip.reason = "too many" =>
          s.at = "done" /\ \A r \in Range(s.records) : r.key # KeyAt(skip)

DigestsTold(records, unhashed) ==
    unhashed = {Skip("unhashed", r.dir, r.name) : r \in {r \in Range(records) : ~r.hashed}}

\* What a file is in the end, and one whose turn is still to come.
Accounted(s, file) ==
    \/ PassedOver(FolderAt(file.dir), file.name)
    \/ \E r \in Range(s.records) : r.dir = file.dir /\ r.name = file.name
    \/ \E skip \in s.skips : skip.dir = file.dir /\ skip.name \in {file.name, NoName}

ToCome(s, file) ==
    \/ s.at = "list" /\ file.dir \in DirsOf(s.plan)
    \/ s.at = "walk" /\ \/ file.dir \in DirsOf(Tail(s.plan))
                        \/ file.dir = s.plan[1].dir /\ file.name \in s.left

EachIsHeard(s) ==
    s.at # "plan" => \A file \in stayed : file.dir \in DirsOf(PlanFolders) =>
                        s.stopped \/ Accounted(s, file) \/ ToCome(s, file)

ScanGood(s) == ScanTyped(s) /\ HeldAgrees(s.records, s.held) /\ CopiesTold(s) /\ DigestsTold(s.records, s.unhashed) /\ EachIsHeard(s)

ScanInv ==
    /\ want \in Wants /\ stayed \subseteq files /\ stirs \in 0 .. MaxStirs
    /\ \A file \in files : file.name \in FileNames
    /\ (scan.at = "plan" => scan = FreshScan)
    /\ ScanGood(scan)

(* No two folders of a plan are one directory.                              *)
LEMMA FoldersApart ==
    ASSUME want \in Wants
    PROVE  /\ PlanFolders \in Seq(Range(PlanFolders))
           /\ \A f, g \in Range(PlanFolders) : f.dir = g.dir => f = g
<1>1. PICK first, second, flat, roms, legacy, account :
         /\ first = Folder("coreA", "retroarch", "", FALSE) /\ second = Folder("coreB", "retroarch", "", FALSE)
         /\ flat = Folder("flat", "retroarch", "", FALSE) /\ roms = Folder("roms", "retroarch", "psx", TRUE)
         /\ legacy = Folder("tico", "tico", "psx", FALSE) /\ account = Folder("account", "tico", "psx", FALSE)
  OBVIOUS
<1>2. PICK all : all = {first, second, flat, roms, legacy, account}
  OBVIOUS
<1>3. /\ first.dir = "coreA" /\ second.dir = "coreB" /\ flat.dir = "flat" /\ roms.dir = "roms"
      /\ legacy.dir = "tico" /\ account.dir = "account"
  BY <1>1 DEF Folder
<1>4. \A f, g \in all : f.dir = g.dir => f = g
  BY <1>2, <1>3
<1>5. RetroArchPlan \in Seq(all)
  <2>1. <<>> \in Seq(all) /\ <<flat>> \in Seq(all) /\ <<roms>> \in Seq(all) /\ <<first, second>> \in Seq(all)
    BY <1>2
  <2>2. CoreFolders = <<first, second>>
    BY <1>1 DEF CoreFolders
  <2>3. PICK n \in 1 .. 2 : n = IF kMaxRetroArchFolders < 2 THEN kMaxRetroArchFolders ELSE 2
    BY SaveScanConstants
  <2>4. SubSeq(CoreFolders, 1, n) \in Seq(all)
    <3>1. <<first, second>> \in Seq(all) /\ Len(<<first, second>>) = 2
      BY <2>1
    <3>2. \A i \in 1 .. n : i \in 1 .. Len(<<first, second>>)
      BY <2>3, <3>1
    <3> QED  BY <2>2, <2>3, <3>1, <3>2, SubSeqProperties
  <2> QED  BY <1>1, <2>1, <2>3, <2>4 DEF RetroArchPlan
<1>6. TicoPlan \in Seq(all)
  <2>1. <<>> \in Seq(all) /\ <<legacy>> \in Seq(all) /\ <<account>> \in Seq(all)
    BY <1>2
  <2>2. want.tico \in {"legacy", "account", "undecided"}
    BY DEF Wants
  <2>3. CASE want.tico = "legacy"
    BY <1>1, <2>1, <2>3 DEF TicoPlan
  <2>4. CASE want.tico = "account"
    BY <1>1, <2>1, <2>4 DEF TicoPlan
  <2>5. CASE want.tico = "undecided"
    BY <2>1, <2>5 DEF TicoPlan
  <2> QED  BY <2>2, <2>3, <2>4, <2>5
<1>7. PICK plan \in Seq(all) : plan = PlanFolders
  BY <1>5, <1>6, ConcatProperties DEF PlanFolders
<1>8. Range(plan) \subseteq all
  <2>1. ASSUME NEW f \in Range(plan) PROVE f \in all
    <3>1. PICK i \in 1 .. Len(plan) : f = plan[i]
      BY DEF Range
    <3> QED  BY <3>1, ElementOfSeq
  <2> QED  BY <2>1
<1>9. plan \in Seq(Range(plan))
  <2>1. plan \in [1 .. Len(plan) -> Range(plan)] /\ Len(plan) \in Nat
    BY DEF Range
  <2> QED  BY <2>1
<1> QED  BY <1>4, <1>7, <1>8, <1>9

(* A folder of the plan is the one a path in it is found in.                *)
LEMMA FolderOfAPath ==
    ASSUME want \in Wants, NEW folder \in Range(PlanFolders)
    PROVE  FolderAt(folder.dir) = folder
  BY FoldersApart DEF FolderAt

LEMMA ARecordIs ==
    ASSUME want \in Wants, NEW folder \in Range(PlanFolders), NEW name \in FileNames, NEW hashed \in BOOLEAN,
           NEW r, r = RecordOf(folder, name, hashed)
    PROVE  /\ r \in ScanRecords /\ r.dir = folder.dir /\ r.name = name /\ r.hashed = hashed
           /\ r.played = PlayedIn(folder) /\ r.key = KeyAt(r) /\ FolderAt(r.dir) = folder
<1>1. r \in ScanRecords
  <2>1. <<folder, name, hashed>> \in Range(PlanFolders) \X FileNames \X BOOLEAN
    OBVIOUS
  <2> QED  BY <2>1 DEF ScanRecords
<1>2. r.dir = folder.dir /\ r.name = name /\ r.hashed = hashed /\ r.played = PlayedIn(folder)
      /\ r.key = KeyOf(folder, name, CHOOSE rom \in Matches(folder, name) : TRUE)
  BY DEF RecordOf
<1>3. FolderAt(r.dir) = folder
  BY <1>2, FolderOfAPath
<1>4. KeyAt(r) = r.key
  BY <1>2, <1>3 DEF KeyAt
<1> QED  BY <1>1, <1>2, <1>3, <1>4

LEMMA RecordsAre ==
    ASSUME want \in Wants, NEW r \in ScanRecords
    PROVE  /\ r.dir \in DirsOf(PlanFolders) /\ r.name \in FileNames /\ r.hashed \in BOOLEAN
           /\ r.played = PlayedIn(FolderAt(r.dir)) /\ r.key = KeyAt(r) /\ r.played \in BOOLEAN
<1>1. PICK x \in Range(PlanFolders) \X FileNames \X BOOLEAN : r = RecordOf(x[1], x[2], x[3])
  BY DEF ScanRecords
<1>2. x[1] \in Range(PlanFolders) /\ x[2] \in FileNames /\ x[3] \in BOOLEAN
  OBVIOUS
<1>3. r.dir = x[1].dir /\ r.name = x[2] /\ r.hashed = x[3] /\ r.played = PlayedIn(x[1]) /\ r.key = KeyAt(r)
      /\ FolderAt(r.dir) = x[1]
  BY <1>1, <1>2, ARecordIs
<1>4. r.played \in BOOLEAN
  BY <1>3 DEF PlayedIn
<1> QED  BY <1>2, <1>3, <1>4 DEF DirsOf

(* The next entry is one of those left.                                     *)
LEMMA NextIsLeft ==
    ASSUME NEW entries \in SUBSET FileNames, entries # {}
    PROVE  NextOf(entries) \in entries
<1>1. PICK places : places = {i \in 1 .. 5 : FileOrder[i] \in entries}
  OBVIOUS
<1>4. places \in SUBSET Nat
  <2>1. \A i \in places : i \in Nat
    BY <1>1
  <2> QED  BY <2>1
<1>2. places # {}
  BY <1>1 DEF FileNames
<1>3. Min(places) \in places
  BY <1>2, <1>4, LeastOf
<1> QED  BY <1>1, <1>3 DEF NextOf

\* A file is named by a record or a skip.
Named(s, dir, name) ==
    \/ \E r \in Range(s.records) : r.dir = dir /\ r.name = name
    \/ \E skip \in s.skips : skip.dir = dir /\ skip.name = name

(* One entry considered: the others keep their turn, or what was said of    *)
(* them.                                                                    *)
LEMMA TheRestWaits ==
    ASSUME ScanInv, scan.at = "walk", NEW folder \in Range(PlanFolders), folder = scan.plan[1], NEW name, NEW t,
           t.at = "walk", t.plan = scan.plan, t.left = scan.left \ {name}, scan.skips \subseteq t.skips,
           \A r \in Range(scan.records) : Named(t, r.dir, r.name),
           PassedOver(folder, name) \/ Named(t, folder.dir, name)
    PROVE  EachIsHeard(t)
<1>1. ScanTyped(scan) /\ EachIsHeard(scan) /\ want \in Wants
  BY DEF ScanInv, ScanGood
<1>2. SUFFICES ASSUME NEW file \in stayed, file.dir \in DirsOf(PlanFolders)
               PROVE  Accounted(t, file) \/ ToCome(t, file)
  BY DEF EachIsHeard
<1>3. Accounted(scan, file) \/ ToCome(scan, file)
  <2>1. ~scan.stopped
    BY <1>1 DEF ScanTyped
  <2> QED  BY <1>1, <1>2, <2>1 DEF EachIsHeard
<1>4. CASE PassedOver(FolderAt(file.dir), file.name)
  BY <1>4 DEF Accounted
<1>5. CASE \E r \in Range(scan.records) : r.dir = file.dir /\ r.name = file.name
  <2>1. Named(t, file.dir, file.name)
    BY <1>5
  <2> QED  BY <2>1 DEF Named, Accounted
<1>6. CASE \E skip \in scan.skips : skip.dir = file.dir /\ skip.name \in {file.name, NoName}
  BY <1>6 DEF Accounted
<1>7. CASE file.dir \in DirsOf(Tail(scan.plan))
  BY <1>7 DEF ToCome
<1>8. CASE file.dir = scan.plan[1].dir /\ file.name \in scan.left
  <2>1. CASE file.name # name
    BY <1>8, <2>1 DEF ToCome
  <2>2. CASE file.name = name
    <3>1. CASE PassedOver(folder, name)
      <4>1. FolderAt(file.dir) = folder
        BY <1>1, <1>8, FolderOfAPath
      <4> QED  BY <2>2, <3>1, <4>1 DEF Accounted
    <3>2. CASE Named(t, folder.dir, name)
      BY <1>8, <2>2, <3>2 DEF Named, Accounted
    <3> QED  BY <3>1, <3>2
  <2> QED  BY <2>1, <2>2
<1> QED  BY <1>3, <1>4, <1>5, <1>6, <1>7, <1>8 DEF Accounted, ToCome

(* A file that is passed over, or told and left.                            *)
LEMMA ToldKeeps ==
    ASSUME ScanInv, scan.at = "walk", NEW folder \in Range(PlanFolders), folder = scan.plan[1],
           NEW name \in scan.left, NEW skips, scan.skips \subseteq skips,
           \A skip \in skips : skip.reason \in SkipReasons /\ (skip.reason = "too many" => skip \in scan.skips),
           \A skip \in skips : skip.reason = "duplicate" /\ skip \notin scan.skips =>
              \E r \in Range(scan.records) : r.key = KeyAt(skip) /\ (PlayedIn(FolderAt(skip.dir)) => r.played),
           PassedOver(folder, name) \/ \E skip \in skips : skip.dir = folder.dir /\ skip.name = name,
           NEW t, IsScan(t), t.left = scan.left \ {name}, t.skips = skips, t.at = "walk", t.plan = scan.plan,
           t.records = scan.records, t.held = scan.held, t.unhashed = scan.unhashed, t.stopped = scan.stopped
    PROVE  ScanGood(t)
<1>1. ScanTyped(scan) /\ HeldAgrees(scan.records, scan.held) /\ CopiesTold(scan) /\ DigestsTold(scan.records, scan.unhashed)
  BY DEF ScanInv, ScanGood
<1>2. /\ IsScan(t) /\ t.left = scan.left \ {name} /\ t.skips = skips /\ t.at = "walk" /\ t.plan = scan.plan
      /\ t.records = scan.records /\ t.held = scan.held /\ t.unhashed = scan.unhashed /\ t.stopped = scan.stopped
  OBVIOUS
<1>3. ScanTyped(t)
  BY <1>1, <1>2 DEF ScanTyped
<1>4. HeldAgrees(t.records, t.held) /\ DigestsTold(t.records, t.unhashed)
  <2>1. HeldAgrees(t.records, t.held)
    BY <1>1, <1>2, Zenon
  <2>2. DigestsTold(t.records, t.unhashed)
    BY <1>1, <1>2, Zenon
  <2> QED  BY <2>1, <2>2
<1>5. CopiesTold(t)
  BY <1>1, <1>2 DEF CopiesTold
<1>6. EachIsHeard(t)
  <2>1. \A r \in Range(scan.records) : Named(t, r.dir, r.name)
    BY <1>2 DEF Named
  <2>2. PassedOver(folder, name) \/ Named(t, folder.dir, name)
    BY <1>2 DEF Named
  <2> QED  BY <1>2, <2>1, <2>2, TheRestWaits
<1> QED  BY <1>3, <1>4, <1>5, <1>6 DEF ScanGood

(* What a sequence holds once one is put at its end, or in another's place. *)
LEMMA RangeOfAppend ==
    ASSUME NEW S, NEW s \in Seq(S), NEW e
    PROVE  Range(Append(s, e)) = Range(s) \cup {e}
<1>1. Len(s) \in Nat /\ DOMAIN s = 1 .. Len(s) /\ DOMAIN Append(s, e) = 1 .. Len(s) + 1
  BY AppendProperties
<1>2. \A i \in 1 .. Len(s) : Append(s, e)[i] = s[i]
  BY AppendProperties
<1>3. Append(s, e)[Len(s) + 1] = e
  BY AppendProperties
<1>4. \A i \in 1 .. Len(s) + 1 : i \in 1 .. Len(s) \/ i = Len(s) + 1
  BY <1>1
<1>5. \A i \in 1 .. Len(s) : i \in 1 .. Len(s) + 1
  BY <1>1
<1>6. Len(s) + 1 \in 1 .. Len(s) + 1
  BY <1>1
<1>7. ASSUME NEW x \in Range(Append(s, e)) PROVE x \in Range(s) \cup {e}
  BY <1>1, <1>2, <1>3, <1>4, <1>7 DEF Range
<1>8. ASSUME NEW x \in Range(s) \cup {e} PROVE x \in Range(Append(s, e))
  BY <1>1, <1>2, <1>3, <1>5, <1>6, <1>8 DEF Range
<1> QED  BY <1>7, <1>8

\* What a scan is once `record` was added to it.
RecordAdded(s, t, record, said) ==
    /\ IsScan(t) /\ t.left = s.left \ {record.name} /\ t.skips = s.skips /\ t.at = s.at /\ t.plan = s.plan
    /\ t.stopped = s.stopped /\ t.records = Append(s.records, record)
    /\ DOMAIN t.held = DOMAIN s.held \cup {record.key} /\ \A k \in DOMAIN s.held : t.held[k] = s.held[k]
    /\ t.held[record.key].at = Len(s.records) + 1 /\ t.held[record.key].played = record.played
    /\ t.unhashed = s.unhashed \cup said

(* A record is added: the key was nobody's.                                 *)
LEMMA EmitKeeps ==
    ASSUME ScanInv, scan.at = "walk", NEW folder \in Range(PlanFolders), folder = scan.plan[1],
           NEW name \in scan.left, NEW hashed \in BOOLEAN, NEW record, record = RecordOf(folder, name, hashed),
           record.key \notin DOMAIN scan.held, Len(scan.records) < kMaxSaves,
           NEW t, RecordAdded(scan, t, record, IF hashed THEN {} ELSE {Skip("unhashed", folder.dir, name)})
    PROVE  ScanGood(t)
<1>0. /\ IsScan(t) /\ t.left = scan.left \ {name} /\ t.skips = scan.skips /\ t.at = "walk" /\ t.plan = scan.plan
      /\ t.stopped = scan.stopped /\ t.records = Append(scan.records, record)
      /\ DOMAIN t.held = DOMAIN scan.held \cup {record.key} /\ \A k \in DOMAIN scan.held : t.held[k] = scan.held[k]
      /\ t.held[record.key].at = Len(scan.records) + 1 /\ t.held[record.key].played = record.played
      /\ t.unhashed = scan.unhashed \cup (IF hashed THEN {} ELSE {Skip("unhashed", folder.dir, name)})
  <2>1. record.name = name
    BY DEF RecordOf
  <2> QED  BY <2>1, Zenon DEF RecordAdded
<1>1. /\ ScanTyped(scan) /\ HeldAgrees(scan.records, scan.held) /\ CopiesTold(scan)
      /\ DigestsTold(scan.records, scan.unhashed) /\ want \in Wants
  BY DEF ScanInv, ScanGood
<1>2. PICK s \in Seq(ScanRecords), n \in Nat : s = scan.records /\ n = Len(scan.records)
  BY <1>0, <1>1 DEF ScanTyped
<1>3. /\ record \in ScanRecords /\ record.dir = folder.dir /\ record.name = name /\ record.hashed = hashed
  <2>1. name \in FileNames
    BY <1>0, <1>1 DEF ScanTyped
  <2> QED  BY <1>0, <1>1, <2>1, ARecordIs
<1>4. /\ t.records \in Seq(ScanRecords) /\ Len(t.records) = n + 1 /\ t.records[n + 1] = record
      /\ \A i \in 1 .. n : t.records[i] = scan.records[i]
  BY <1>0, <1>2, <1>3, AppendProperties
<1>5. Range(t.records) = Range(scan.records) \cup {record}
  BY <1>0, <1>2, RangeOfAppend
<1>6. \A i \in 1 .. n + 1 : i \in 1 .. n \/ i = n + 1
  BY <1>0, <1>2
<1>7. ScanTyped(t)
  <2>1. Len(t.records) <= kMaxSaves
    <3>1. n < kMaxSaves /\ kMaxSaves \in Nat
      BY <1>2, SaveScanConstants, Zenon
    <3>2. n + 1 <= kMaxSaves
      BY <3>1
    <3> QED  BY <1>4, <3>2, Zenon
  <2> QED  BY <1>0, <1>1, <1>4, <2>1 DEF ScanTyped
<1>8. HeldAgrees(t.records, t.held)
  <2>1. ASSUME NEW i \in 1 .. n + 1
        PROVE  t.records[i].key \in DOMAIN t.held /\ t.held[t.records[i].key].at = i
    <3>1. CASE i \in 1 .. n
      <4>1. t.records[i] = scan.records[i] /\ scan.records[i].key \in DOMAIN scan.held
            /\ scan.held[scan.records[i].key].at = i
        BY <1>0, <1>1, <1>2, <1>4, <3>1 DEF HeldAgrees
      <4> QED  BY <1>0, <4>1
    <3>2. CASE i = n + 1
      BY <1>0, <1>2, <1>4, <3>2
    <3> QED  BY <1>0, <1>6, <2>1, <3>1, <3>2
  <2>2. ASSUME NEW key \in DOMAIN t.held
        PROVE  /\ t.held[key].at \in 1 .. n + 1 /\ t.records[t.held[key].at].key = key
               /\ t.held[key].played = t.records[t.held[key].at].played
    <3>1. CASE key \in DOMAIN scan.held
      <4>1. PICK i \in 1 .. n : i = scan.held[key].at /\ scan.records[i].key = key
                                /\ scan.held[key].played = scan.records[i].played
        <5>1. /\ scan.held[key].at \in 1 .. Len(scan.records)
              /\ scan.records[scan.held[key].at].key = key
              /\ scan.held[key].played = scan.records[scan.held[key].at].played
          BY <1>1, <3>1, Zenon DEF HeldAgrees
        <5>2. scan.held[key].at \in 1 .. n
          BY <1>2, <5>1, Zenon
        <5> QED  BY <5>1, <5>2, Zenon
      <4>2. t.held[key] = scan.held[key] /\ t.records[i] = scan.records[i] /\ i \in 1 .. n + 1
        <5>1. i \in 1 .. n + 1
          OBVIOUS
        <5>2. t.held[key] = scan.held[key]
          BY <1>0, <3>1, Zenon
        <5>3. t.records[i] = scan.records[i]
          BY <1>4, Zenon
        <5> QED  BY <5>1, <5>2, <5>3, Zenon
      <4> QED  BY <1>0, <4>1, <4>2
    <3>2. CASE key = record.key
      <4>1. n + 1 \in 1 .. n + 1
        BY <1>0, <1>2
      <4> QED  BY <1>0, <1>2, <1>4, <3>2, <4>1
    <3> QED  BY <1>0, <2>2, <3>1, <3>2
  <2> QED  BY <1>0, <1>4, <2>1, <2>2 DEF HeldAgrees
<1>9. CopiesTold(t)
  <2>1. ASSUME NEW skip \in scan.skips, skip.reason = "duplicate"
        PROVE  \E r \in Range(t.records) : r.key = KeyAt(skip) /\ (PlayedIn(FolderAt(skip.dir)) => r.played)
    BY <1>0, <1>1, <1>5, <2>1 DEF CopiesTold
  <2>2. \A skip \in scan.skips : skip.reason # "too many"
    BY <1>0, <1>1 DEF CopiesTold
  <2> QED  BY <1>0, <2>1, <2>2 DEF CopiesTold
<1>10. DigestsTold(t.records, t.unhashed)
  <2>1. scan.unhashed = {Skip("unhashed", r.dir, r.name) : r \in {r \in Range(scan.records) : ~r.hashed}}
    BY <1>0, <1>1 DEF DigestsTold
  <2>2. {Skip("unhashed", r.dir, r.name) : r \in {r \in Range(t.records) : ~r.hashed}}
        = {Skip("unhashed", r.dir, r.name) : r \in {r \in Range(scan.records) : ~r.hashed}}
          \cup (IF hashed THEN {} ELSE {Skip("unhashed", folder.dir, name)})
    <3>1. CASE hashed
      <4>1. {r \in Range(t.records) : ~r.hashed} = {r \in Range(scan.records) : ~r.hashed}
        BY <1>0, <1>3, <1>5, <3>1
      <4> QED  BY <1>0, <3>1, <4>1
    <3>2. CASE ~hashed
      <4>1. {r \in Range(t.records) : ~r.hashed} = {r \in Range(scan.records) : ~r.hashed} \cup {record}
        BY <1>0, <1>3, <1>5, <3>2
      <4> QED  BY <1>0, <1>3, <3>2, <4>1
    <3> QED  BY <1>0, <3>1, <3>2
  <2> QED  BY <1>0, <2>1, <2>2 DEF DigestsTold
<1>11. EachIsHeard(t)
  <2>1. \A r \in Range(scan.records) : Named(t, r.dir, r.name)
    BY <1>0, <1>5 DEF Named
  <2>2. Named(t, folder.dir, name)
    BY <1>0, <1>3, <1>5 DEF Named
  <2> QED  BY <1>0, <2>1, <2>2, TheRestWaits
<1> QED  BY <1>0, <1>7, <1>8, <1>9, <1>10, <1>11 DEF ScanGood

\* One element put in another's place; one key passed to another's holder; and
\* what is said of a record whose digest did not read when one replaces another.
SequencePut(s, t, at, e) == Len(t) = Len(s) /\ t[at] = e /\ \A i \in 1 .. Len(s) : i # at => t[i] = s[i]

RangePut(s, t, at, e) ==
    /\ e \in Range(t) /\ s[at] \in Range(s)
    /\ \A r \in Range(t) : r = e \/ \E i \in 1 .. Len(s) : i # at /\ r = s[i]
    /\ \A r \in Range(s) : r = s[at] \/ (r \in Range(t) /\ \E i \in 1 .. Len(s) : i # at /\ r = s[i])

KeyPassed(held, next, key, at, played) ==
    /\ DOMAIN next = DOMAIN held
    /\ \A k \in DOMAIN held : k # key => next[k] = held[k]
    /\ next[key].at = at /\ next[key].played = played

Retold(now, was, gone, e) ==
    \A x : x \in now <=> \/ (x \in was /\ x # Skip("unhashed", gone.dir, gone.name))
                        \/ (~e.hashed /\ x = Skip("unhashed", e.dir, e.name))

LEMMA PutInPlace ==
    ASSUME NEW S, NEW s \in Seq(S), NEW at \in 1 .. Len(s), NEW e \in S, NEW t \in Seq(S), SequencePut(s, t, at, e)
    PROVE  RangePut(s, t, at, e)
<1>1. t \in Seq(S) /\ Len(t) = Len(s) /\ t[at] = e /\ \A i \in 1 .. Len(s) : i # at => t[i] = s[i]
  BY DEF SequencePut
<1>2. DOMAIN s = 1 .. Len(s) /\ DOMAIN t = 1 .. Len(s)
  BY <1>1
<1>3. e \in Range(t) /\ s[at] \in Range(s)
  BY <1>1, <1>2 DEF Range
<1>4. ASSUME NEW r \in Range(t) PROVE r = e \/ \E i \in 1 .. Len(s) : i # at /\ r = s[i]
  <2>1. PICK i \in 1 .. Len(s) : r = t[i]
    BY <1>2 DEF Range
  <2> QED  BY <1>1, <2>1
<1>5. ASSUME NEW r \in Range(s)
      PROVE  r = s[at] \/ (r \in Range(t) /\ \E i \in 1 .. Len(s) : i # at /\ r = s[i])
  <2>1. PICK i \in 1 .. Len(s) : r = s[i]
    BY <1>2 DEF Range
  <2>2. t[i] \in Range(t)
    BY <1>2 DEF Range
  <2> QED  BY <1>1, <2>1, <2>2
<1> QED  BY <1>3, <1>4, <1>5 DEF RangePut

LEMMA HeldStays ==
    ASSUME NEW S, NEW s \in Seq(S), NEW t \in Seq(S), NEW at \in 1 .. Len(s), NEW e, SequencePut(s, t, at, e),
           e.key = s[at].key, NEW held, HeldAgrees(s, held), NEW next, KeyPassed(held, next, e.key, at, e.played)
    PROVE  HeldAgrees(t, next)
<1>0. /\ Len(t) = Len(s) /\ t[at] = e /\ \A i \in 1 .. Len(s) : i # at => t[i] = s[i]
      /\ DOMAIN next = DOMAIN held /\ \A k \in DOMAIN held : k # s[at].key => next[k] = held[k]
      /\ next[s[at].key].at = at /\ next[s[at].key].played = t[at].played /\ t[at].key = s[at].key
  BY DEF SequencePut, KeyPassed
<1>1. /\ \A i \in 1 .. Len(s) : s[i].key \in DOMAIN held /\ held[s[i].key].at = i
      /\ \A key \in DOMAIN held : /\ held[key].at \in 1 .. Len(s)
                                  /\ s[held[key].at].key = key
                                  /\ held[key].played = s[held[key].at].played
  BY DEF HeldAgrees
<1>2. ASSUME NEW i \in 1 .. Len(s)
      PROVE  t[i].key \in DOMAIN next /\ next[t[i].key].at = i
  <2>1. CASE i = at
    <3>1. s[at].key \in DOMAIN next
      BY <1>0, <1>1
    <3> QED  BY <1>0, <2>1, <3>1
  <2>2. CASE i # at
    <3>1. t[i] = s[i] /\ s[i].key \in DOMAIN held /\ held[s[i].key].at = i
      BY <1>0, <1>1, <2>2
    <3>2. s[i].key # s[at].key
      BY <1>1, <2>2
    <3> QED  BY <1>0, <3>1, <3>2
  <2> QED  BY <2>1, <2>2
<1>3. ASSUME NEW key \in DOMAIN next
      PROVE  /\ next[key].at \in 1 .. Len(s) /\ t[next[key].at].key = key
             /\ next[key].played = t[next[key].at].played
  <2>1. CASE key = s[at].key
    BY <1>0, <2>1
  <2>2. CASE key # s[at].key
    <3>1. PICK i \in 1 .. Len(s) : i = held[key].at /\ s[i].key = key
      BY <1>0, <1>1, <1>3
    <3>2. i # at /\ next[key] = held[key]
      BY <1>0, <1>3, <2>2, <3>1
    <3>3. t[i] = s[i] /\ held[key].played = s[held[key].at].played
      BY <1>0, <1>1, <1>3, <3>2
    <3> QED  BY <1>0, <3>1, <3>2, <3>3, Zenon
  <2> QED  BY <2>1, <2>2
<1>4. Len(t) = Len(s)
  BY <1>0
<1> QED  BY <1>2, <1>3, <1>4, Zenon DEF HeldAgrees

\* What is said of the records whose digest did not read.
Unread(set) == {Skip("unhashed", r.dir, r.name) : r \in {r \in set : ~r.hashed}}

LEMMA SkipsDiffer ==
    ASSUME NEW reason, NEW d, NEW n, NEW e, NEW m, Skip(reason, d, n) = Skip(reason, e, m)
    PROVE  d = e /\ n = m
<1>1. Skip(reason, d, n).dir = d /\ Skip(reason, d, n).name = n /\ Skip(reason, e, m).dir = e /\ Skip(reason, e, m).name = m
  BY DEF Skip
<1> QED  BY <1>1, Zenon

LEMMA DigestsStay ==
    ASSUME NEW before, NEW after, NEW old \in before, NEW e \in after,
           \A r \in after : r = e \/ (r \in before /\ r # old),
           \A r \in before : r = old \/ r \in after,
           \A r \in before : r # old => Skip("unhashed", r.dir, r.name) # Skip("unhashed", old.dir, old.name),
           NEW told, Retold(told, Unread(before), old, e)
    PROVE  told = Unread(after)
<1>0. \A x : x \in told <=> \/ (x \in Unread(before) /\ x # Skip("unhashed", old.dir, old.name))
                            \/ (~e.hashed /\ x = Skip("unhashed", e.dir, e.name))
  BY Zenon DEF Retold
<1>1. ASSUME NEW x \in told PROVE x \in Unread(after)
  <2>1. CASE x \in Unread(before) /\ x # Skip("unhashed", old.dir, old.name)
    <3>1. PICK r \in before : ~r.hashed /\ x = Skip("unhashed", r.dir, r.name)
      BY <2>1, Zenon DEF Unread
    <3>2. r \in after
      BY <2>1, <3>1, Zenon
    <3> QED  BY <3>1, <3>2, Zenon DEF Unread
  <2>2. CASE ~e.hashed /\ x = Skip("unhashed", e.dir, e.name)
    BY <2>2, Zenon DEF Unread
  <2> QED  BY <1>0, <1>1, <2>1, <2>2, Zenon
<1>2. ASSUME NEW x \in Unread(after) PROVE x \in told
  <2>1. PICK r \in after : ~r.hashed /\ x = Skip("unhashed", r.dir, r.name)
    BY <1>2, Zenon DEF Unread
  <2>2. CASE r = e
    BY <1>0, <2>1, <2>2, Zenon
  <2>3. CASE r # e
    <3>1. r \in before /\ r # old
      BY <2>3, Zenon
    <3>2. x \in Unread(before)
      BY <2>1, <3>1, Zenon DEF Unread
    <3>3. x # Skip("unhashed", old.dir, old.name)
      BY <2>1, <3>1, Zenon
    <3> QED  BY <1>0, <3>2, <3>3, Zenon
  <2> QED  BY <2>2, <2>3
<1> QED  BY <1>1, <1>2, Zenon

(* A record takes the place of another, which is told.                      *)
LEMMA CopiesStayTold ==
    ASSUME CopiesTold(scan), want \in Wants, scan.at # "done", NEW old \in ScanRecords, NEW e, e.key = old.key, e.played,
           NEW t, \A r \in Range(scan.records) : r = old \/ r \in Range(t.records), e \in Range(t.records),
           \A skip \in t.skips : skip \in scan.skips \/ skip = Skip("duplicate", old.dir, old.name)
    PROVE  CopiesTold(t)
<1>1. /\ \A skip \in scan.skips : skip.reason = "duplicate" =>
             \E r \in Range(scan.records) : r.key = KeyAt(skip) /\ (PlayedIn(FolderAt(skip.dir)) => r.played)
      /\ \A skip \in scan.skips : skip.reason # "too many"
  BY Zenon DEF CopiesTold
<1>2. PICK mine : mine = Skip("duplicate", old.dir, old.name)
  OBVIOUS
<1>3. mine.reason = "duplicate" /\ mine.dir = old.dir /\ mine.name = old.name
  BY <1>2 DEF Skip
<1>4. KeyAt(mine) = e.key
  <2>1. KeyAt(mine) = KeyAt(old)
    BY <1>3 DEF KeyAt
  <2>2. KeyAt(old) = old.key
    BY RecordsAre
  <2> QED  BY <2>1, <2>2
<1>5. ASSUME NEW skip \in t.skips, skip.reason = "duplicate"
      PROVE  \E r \in Range(t.records) : r.key = KeyAt(skip) /\ (PlayedIn(FolderAt(skip.dir)) => r.played)
  <2>1. CASE skip = mine
    BY <1>4, <2>1, Zenon
  <2>2. CASE skip \in scan.skips
    <3>1. PICK r \in Range(scan.records) : r.key = KeyAt(skip) /\ (PlayedIn(FolderAt(skip.dir)) => r.played)
      BY <1>1, <1>5, <2>2, Zenon
    <3>2. CASE r = old
      <4>1. e.key = KeyAt(skip)
        BY <3>1, <3>2
      <4> QED  BY <4>1, Zenon
    <3>3. CASE r \in Range(t.records)
      BY <3>1, <3>3, Zenon
    <3> QED  BY <3>2, <3>3, Zenon
  <2> QED  BY <1>2, <1>5, <2>1, <2>2, Zenon
<1>6. ASSUME NEW skip \in t.skips PROVE skip.reason # "too many"
  <2>1. mine.reason # "too many"
    BY <1>3
  <2> QED  BY <1>1, <1>2, <1>6, <2>1, Zenon
<1> QED  BY <1>5, <1>6, Zenon DEF CopiesTold

\* What a scan is once `record` has the place and the key that `old` had.
PlaceTaken(s, t, record, gone, at) ==
    /\ \A skip : skip \in t.skips <=> skip \in s.skips \/ skip = Skip("duplicate", gone.dir, gone.name)
    /\ KeyPassed(s.held, t.held, record.key, at, record.played)
    /\ Retold(t.unhashed, s.unhashed, gone, record)

LEMMA ReplaceKeeps ==
    ASSUME ScanInv, scan.at = "walk", NEW folder \in Range(PlanFolders), folder = scan.plan[1],
           NEW name \in scan.left, NEW record \in ScanRecords, record.dir = folder.dir, record.name = name,
           record.key \in DOMAIN scan.held, record.played = TRUE,
           NEW at, at = scan.held[record.key].at, NEW old, old = scan.records[at],
           NEW t, IsScan(t), t.left = scan.left \ {name}, t.at = "walk", t.plan = scan.plan, t.stopped = scan.stopped,
           NEW recs \in Seq(ScanRecords), t.records = recs, SequencePut(scan.records, recs, at, record),
           PlaceTaken(scan, t, record, old, at)
    PROVE  ScanGood(t)
<1>1. /\ ScanTyped(scan) /\ HeldAgrees(scan.records, scan.held) /\ CopiesTold(scan)
      /\ DigestsTold(scan.records, scan.unhashed) /\ want \in Wants
  BY Zenon DEF ScanInv, ScanGood
<1>2. scan.records \in Seq(ScanRecords) /\ name \in FileNames
  BY <1>1, Zenon DEF ScanTyped
<1>3. /\ \A skip : skip \in t.skips <=> skip \in scan.skips \/ skip = Skip("duplicate", old.dir, old.name)
      /\ KeyPassed(scan.held, t.held, record.key, at, record.played)
      /\ Retold(t.unhashed, scan.unhashed, old, record)
  BY Zenon DEF PlaceTaken
<1>4. at \in 1 .. Len(scan.records) /\ old.key = record.key
  BY <1>1, Zenon DEF HeldAgrees
<1>5. \A i \in 1 .. Len(scan.records) : scan.records[i].key = record.key => i = at
  <2>1. \A i \in 1 .. Len(scan.records) : scan.held[scan.records[i].key].at = i
    BY <1>1 DEF HeldAgrees
  <2> QED  BY <2>1
<1>6. /\ recs \in Seq(ScanRecords) /\ Len(recs) = Len(scan.records) /\ recs[at] = record
      /\ \A i \in 1 .. Len(scan.records) : i # at => recs[i] = scan.records[i]
      /\ record \in Range(recs) /\ old \in Range(scan.records)
      /\ \A r \in Range(recs) : r = record \/ \E i \in 1 .. Len(scan.records) : i # at /\ r = scan.records[i]
      /\ \A r \in Range(scan.records) :
            r = old \/ (r \in Range(recs) /\ \E i \in 1 .. Len(scan.records) : i # at /\ r = scan.records[i])
  <2>1. /\ Len(recs) = Len(scan.records) /\ recs[at] = record
        /\ \A i \in 1 .. Len(scan.records) : i # at => recs[i] = scan.records[i]
    BY Zenon DEF SequencePut
  <2>2. RangePut(scan.records, recs, at, record)
    BY <1>2, <1>4, PutInPlace, Zenon
  <2> QED  BY <2>1, <2>2, Zenon DEF RangePut
<1>7. /\ \A r \in Range(recs) : r = record \/ (r \in Range(scan.records) /\ r.key # record.key)
      /\ \A r \in Range(scan.records) : r = old \/ (r \in Range(recs) /\ r.key # record.key)
  <2>1. \A i \in 1 .. Len(scan.records) : scan.records[i] \in Range(scan.records)
    BY <1>2 DEF Range
  <2>2. ASSUME NEW i \in 1 .. Len(scan.records), i # at
        PROVE  scan.records[i] \in Range(scan.records) /\ scan.records[i].key # record.key
    BY <1>5, <2>1, <2>2, Zenon
  <2>3. ASSUME NEW r \in Range(recs)
        PROVE  r = record \/ (r \in Range(scan.records) /\ r.key # record.key)
    <3>1. CASE r = record
      BY <3>1, Zenon
    <3>2. CASE r # record
      <4>1. PICK i \in 1 .. Len(scan.records) : i # at /\ r = scan.records[i]
        BY <1>6, <2>3, <3>2, Zenon
      <4>2. scan.records[i] \in Range(scan.records) /\ scan.records[i].key # record.key
        BY <2>2, <4>1, Zenon
      <4> QED  BY <4>1, <4>2, Zenon
    <3> QED  BY <3>1, <3>2, Zenon
  <2>4. ASSUME NEW r \in Range(scan.records)
        PROVE  r = old \/ (r \in Range(recs) /\ r.key # record.key)
    <3>1. CASE r = old
      BY <3>1, Zenon
    <3>2. CASE r # old
      <4>1. PICK i \in 1 .. Len(scan.records) : i # at /\ r = scan.records[i] /\ r \in Range(recs)
        BY <1>6, <2>4, <3>2, Zenon
      <4>2. scan.records[i].key # record.key
        BY <2>2, <4>1, Zenon
      <4> QED  BY <4>1, <4>2, Zenon
    <3> QED  BY <3>1, <3>2, Zenon
  <2> QED  BY <2>3, <2>4, Zenon
<1>8. old \in ScanRecords /\ \A r \in Range(scan.records) : r \in ScanRecords
  <2>1. \A i \in 1 .. Len(scan.records) : scan.records[i] \in ScanRecords
    BY <1>2, ElementOfSeq
  <2>2. old \in ScanRecords
    BY <1>4, <2>1, Zenon
  <2>3. ASSUME NEW r \in Range(scan.records) PROVE r \in ScanRecords
    <3>1. r = old \/ \E i \in 1 .. Len(scan.records) : r = scan.records[i]
      BY <1>6, <2>3, Zenon
    <3> QED  BY <2>1, <2>2, <3>1, Zenon
  <2> QED  BY <2>2, <2>3, Zenon
<1>9. ScanTyped(t)
  <2>1. Len(recs) <= kMaxSaves
    BY <1>1, <1>6, Zenon DEF ScanTyped
  <2>2. \A skip \in t.skips : skip.reason \in SkipReasons
    <3>1. Skip("duplicate", old.dir, old.name).reason \in SkipReasons
      BY DEF Skip, SkipReasons
    <3>2. \A skip \in scan.skips : skip.reason \in SkipReasons
      BY <1>1, Zenon DEF ScanTyped
    <3> QED  BY <1>3, <3>1, <3>2, Zenon
  <2>3. t.left \in SUBSET FileNames /\ t.plan \in Seq(Range(PlanFolders)) /\ t.plan # <<>> /\ ~t.stopped
    <3>1. scan.left \in SUBSET FileNames /\ scan.plan \in Seq(Range(PlanFolders)) /\ scan.plan # <<>>
          /\ (scan.stopped => scan.at = "done")
      BY <1>1, Zenon DEF ScanTyped
    <3>2. scan.at # "done"
      OBVIOUS
    <3> QED  BY <3>1, <3>2, Zenon
  <2> QED  BY <1>6, <2>1, <2>2, <2>3, Zenon DEF ScanTyped
<1>10. HeldAgrees(t.records, t.held)
  <2>2. HeldAgrees(recs, t.held)
    <3>1. record.key = scan.records[at].key
      BY <1>4, Zenon
    <3> QED  BY <1>1, <1>2, <1>3, <1>4, <3>1, HeldStays, ZenonT(30)
  <2> QED  BY <2>2, Zenon
<1>11. CopiesTold(t)
  <2>1. scan.at # "done" /\ record.key = old.key /\ record.played
    BY <1>4
  <2>2. /\ \A r \in Range(scan.records) : r = old \/ r \in Range(t.records)
        /\ record \in Range(t.records)
    BY <1>6, <1>7, Zenon
  <2> QED  BY <1>1, <1>3, <1>8, <2>1, <2>2, CopiesStayTold, Zenon
<1>12. DigestsTold(t.records, t.unhashed)
  <2>1. scan.unhashed = Unread(Range(scan.records))
    BY <1>1, Zenon DEF DigestsTold, Unread
  <2>2. ASSUME NEW r \in Range(scan.records), r # old
        PROVE  Skip("unhashed", r.dir, r.name) # Skip("unhashed", old.dir, old.name)
    <3>1. r.key # old.key /\ r.key = KeyAt(r) /\ old.key = KeyAt(old)
      <4>1. r \in ScanRecords
        BY <1>8, <2>2, Zenon
      <4>2. r.key = KeyAt(r) /\ old.key = KeyAt(old)
        BY <1>1, <1>8, <4>1, RecordsAre, Zenon
      <4>3. r.key # old.key
        BY <1>4, <1>7, <2>2, Zenon
      <4> QED  BY <4>2, <4>3, Zenon
    <3>2. ASSUME r.dir = old.dir, r.name = old.name PROVE FALSE
      <4>1. KeyAt(r) = KeyAt(old)
        BY <3>2, Zenon DEF KeyAt
      <4> QED  BY <3>1, <4>1, Zenon
    <3>3. ASSUME Skip("unhashed", r.dir, r.name) = Skip("unhashed", old.dir, old.name) PROVE FALSE
      <4>1. r.dir = old.dir /\ r.name = old.name
        <5>1. Skip("unhashed", r.dir, r.name).dir = r.dir /\ Skip("unhashed", r.dir, r.name).name = r.name
          BY DEF Skip
        <5>2. Skip("unhashed", old.dir, old.name).dir = old.dir /\ Skip("unhashed", old.dir, old.name).name = old.name
          BY DEF Skip
        <5> QED  BY <3>3, <5>1, <5>2, Zenon
      <4> QED  BY <3>2, <4>1, Zenon
    <3> QED  BY <3>3, Zenon
  <2>3. \A r \in Range(recs) : r = record \/ (r \in Range(scan.records) /\ r # old)
    BY <1>4, <1>7, Zenon
  <2>4. Retold(t.unhashed, Unread(Range(scan.records)), old, record)
    BY <1>3, <2>1, Zenon
  <2>5. t.unhashed = Unread(Range(recs))
    <3>1. old \in Range(scan.records) /\ record \in Range(recs)
          /\ \A r \in Range(scan.records) : r = old \/ r \in Range(recs)
      BY <1>6, <1>7, Zenon
    <3> QED  BY <2>2, <2>3, <2>4, <3>1, DigestsStay, Zenon
  <2> QED  BY <2>5, Zenon DEF DigestsTold, Unread
<1>13. EachIsHeard(t)
  <2>1. ASSUME NEW r \in Range(scan.records) PROVE Named(t, r.dir, r.name)
    <3>1. CASE r = old
      <4>1. Skip("duplicate", old.dir, old.name).dir = old.dir /\ Skip("duplicate", old.dir, old.name).name = old.name
        BY DEF Skip
      <4>2. Skip("duplicate", old.dir, old.name) \in t.skips
        BY <1>3, Zenon
      <4> QED  BY <3>1, <4>1, <4>2, Zenon DEF Named
    <3>2. CASE r # old
      BY <1>7, <2>1, <3>2, Zenon DEF Named
    <3> QED  BY <3>1, <3>2
  <2>2. Named(t, folder.dir, name)
    BY <1>6, Zenon DEF Named
  <2>3. scan.skips \subseteq t.skips
    BY <1>3, Zenon
  <2> QED  BY <2>1, <2>2, <2>3, TheRestWaits, Zenon
<1> QED  BY <1>9, <1>10, <1>11, <1>12, <1>13 DEF ScanGood

(* What the walk's operators do to a scan's fields.                         *)
FieldsAre(s, t, left, records, held, skips, unhashed) ==
    /\ IsScan(t) /\ t.at = s.at /\ t.plan = s.plan /\ t.stopped = s.stopped
    /\ t.left = left /\ t.records = records /\ t.held = held /\ t.skips = skips /\ t.unhashed = unhashed

LEMMA HeldField ==
    ASSUME NEW s, IsScan(s), NEW held
    PROVE  FieldsAre(s, [s EXCEPT !.held = held], s.left, s.records, held, s.skips, s.unhashed)
  BY DEF IsScan, FieldsAre

LEMMA RecordFields ==
    ASSUME NEW s, IsScan(s), NEW records, NEW skips
    PROVE  FieldsAre(s, [s EXCEPT !.records = records, !.skips = skips], s.left, records, s.held, skips, s.unhashed)
  BY DEF IsScan, FieldsAre

LEMMA AddedFields ==
    ASSUME NEW s, IsScan(s), NEW left, NEW records
    PROVE  FieldsAre(s, [s EXCEPT !.left = left, !.records = records], left, records, s.held, s.skips, s.unhashed)
  BY DEF IsScan, FieldsAre

LEMMA LeftField ==
    ASSUME NEW s, IsScan(s), NEW left
    PROVE  FieldsAre(s, [s EXCEPT !.left = left], left, s.records, s.held, s.skips, s.unhashed)
  BY DEF IsScan, FieldsAre

LEMMA UnhashedField ==
    ASSUME NEW s, IsScan(s), NEW unhashed
    PROVE  FieldsAre(s, [s EXCEPT !.unhashed = unhashed], s.left, s.records, s.held, s.skips, unhashed)
  BY DEF IsScan, FieldsAre

\* The holder of a key, and the records said to have no digest.
KeyHeld(was, now, key, at, played) ==
    /\ DOMAIN now = DOMAIN was \cup {key}
    /\ \A k \in DOMAIN was : k # key => now[k] = was[k]
    /\ now[key].at = at /\ now[key].played = played

SaidUnhashed(was, now, r) ==
    \A x : x \in now <=> x \in was \/ (~r.hashed /\ x = Skip("unhashed", r.dir, r.name))

LEMMA HoldIs ==
    ASSUME NEW s, IsScan(s), NEW key, NEW at, NEW played
    PROVE  \E held : /\ FieldsAre(s, Hold(s, key, at, played), s.left, s.records, held, s.skips, s.unhashed)
                     /\ KeyHeld(s.held, held, key, at, played)
<1>1. PICK held : held = [k \in DOMAIN s.held \cup {key} |->
                             IF k = key THEN [at |-> at, played |-> played] ELSE s.held[k]]
  OBVIOUS
<1>2. Hold(s, key, at, played) = [s EXCEPT !.held = held]
  BY <1>1, Zenon DEF Hold
<1>3. FieldsAre(s, Hold(s, key, at, played), s.left, s.records, held, s.skips, s.unhashed)
  BY <1>2, HeldField, Zenon
<1>4. /\ DOMAIN held = DOMAIN s.held \cup {key}
      /\ \A k \in DOMAIN s.held : k # key => held[k] = s.held[k]
      /\ held[key] = [at |-> at, played |-> played]
  BY <1>1
<1>5. [at |-> at, played |-> played].at = at /\ [at |-> at, played |-> played].played = played
  OBVIOUS
<1>6. KeyHeld(s.held, held, key, at, played)
  BY <1>4, <1>5, Zenon DEF KeyHeld
<1> QED  BY <1>3, <1>6, Zenon

LEMMA HashedIs ==
    ASSUME NEW s, IsScan(s), NEW r
    PROVE  \E unhashed : /\ FieldsAre(s, Hashed(s, r), s.left, s.records, s.held, s.skips, unhashed)
                         /\ SaidUnhashed(s.unhashed, unhashed, r)
<1>1. PICK unhashed : unhashed = s.unhashed \cup {Skip("unhashed", r.dir, r.name)}
  OBVIOUS
<1>2. CASE r.hashed
  <2>1. Hashed(s, r) = s
    BY <1>2, Zenon DEF Hashed
  <2>2. FieldsAre(s, s, s.left, s.records, s.held, s.skips, s.unhashed)
    BY Zenon DEF FieldsAre
  <2>3. SaidUnhashed(s.unhashed, s.unhashed, r)
    BY <1>2, Zenon DEF SaidUnhashed
  <2> QED  BY <2>1, <2>2, <2>3, Zenon
<1>3. CASE ~r.hashed
  <2>1. Hashed(s, r) = [s EXCEPT !.unhashed = unhashed]
    BY <1>1, <1>3, Zenon DEF Hashed
  <2>2. FieldsAre(s, Hashed(s, r), s.left, s.records, s.held, s.skips, unhashed)
    BY <2>1, UnhashedField, Zenon
  <2>3. SaidUnhashed(s.unhashed, unhashed, r)
    BY <1>1, <1>3, Zenon DEF SaidUnhashed
  <2> QED  BY <2>2, <2>3, Zenon
<1> QED  BY <1>2, <1>3, Zenon

LEMMA EmitIs ==
    ASSUME NEW s, IsScan(s), NEW key, NEW r
    PROVE  \E held, unhashed :
              /\ FieldsAre(s, Emit(s, key, r), s.left \ {r.name}, Append(s.records, r), held, s.skips, unhashed)
              /\ KeyHeld(s.held, held, key, Len(s.records) + 1, r.played)
              /\ SaidUnhashed(s.unhashed, unhashed, r)
<1>1. PICK u : u = Hold(s, key, Len(s.records) + 1, r.played)
  OBVIOUS
<1>2. PICK held : /\ FieldsAre(s, u, s.left, s.records, held, s.skips, s.unhashed)
                  /\ KeyHeld(s.held, held, key, Len(s.records) + 1, r.played)
  BY <1>1, HoldIs, Zenon
<1>3. PICK v : v = [u EXCEPT !.left = u.left \ {r.name}, !.records = Append(u.records, r)]
  OBVIOUS
<1>4. IsScan(u)
  BY <1>2, Zenon DEF FieldsAre
<1>5. FieldsAre(u, v, u.left \ {r.name}, Append(u.records, r), u.held, u.skips, u.unhashed)
  BY <1>3, <1>4, AddedFields, Zenon
<1>6. Emit(s, key, r) = Hashed(v, r)
  BY <1>1, <1>3, Zenon DEF Emit
<1>7. IsScan(v)
  BY <1>5, Zenon DEF FieldsAre
<1>8. PICK unhashed : /\ FieldsAre(v, Emit(s, key, r), v.left, v.records, v.held, v.skips, unhashed)
                      /\ SaidUnhashed(v.unhashed, unhashed, r)
  BY <1>6, <1>7, HashedIs, Zenon
<1>9. /\ u.at = s.at /\ u.plan = s.plan /\ u.stopped = s.stopped /\ u.left = s.left /\ u.records = s.records
      /\ u.held = held /\ u.skips = s.skips /\ u.unhashed = s.unhashed
  BY <1>2, Zenon DEF FieldsAre
<1>10. /\ v.at = u.at /\ v.plan = u.plan /\ v.stopped = u.stopped /\ v.left = u.left \ {r.name}
       /\ v.records = Append(u.records, r) /\ v.held = u.held /\ v.skips = u.skips /\ v.unhashed = u.unhashed
  BY <1>5, Zenon DEF FieldsAre
<1>11. FieldsAre(s, Emit(s, key, r), s.left \ {r.name}, Append(s.records, r), held, s.skips, unhashed)
  BY <1>8, <1>9, <1>10, Zenon DEF FieldsAre
<1>12. SaidUnhashed(s.unhashed, unhashed, r)
  BY <1>8, <1>9, <1>10, Zenon
<1> QED  BY <1>2, <1>11, <1>12, Zenon

LEMMA ForgetIs ==
    ASSUME NEW s, IsScan(s), NEW r, NEW kept, kept = s.unhashed \ {Skip("unhashed", r.dir, r.name)}
    PROVE  FieldsAre(s, ForgetUnhashed(s, r), s.left, s.records, s.held, s.skips, kept)
<1>1. ForgetUnhashed(s, r) = [s EXCEPT !.unhashed = kept]
  BY Zenon DEF ForgetUnhashed
<1> QED  BY <1>1, UnhashedField, Zenon

LEMMA DisplaceIs ==
    ASSUME NEW s, IsScan(s), NEW at, NEW r, NEW records, records = [s.records EXCEPT ![at] = r],
           NEW skips, skips = s.skips \cup {Skip("duplicate", s.records[at].dir, s.records[at].name)},
           NEW kept, kept = s.unhashed \ {Skip("unhashed", s.records[at].dir, s.records[at].name)}
    PROVE  FieldsAre(s, Displace(s, at, r), s.left, records, s.held, skips, kept)
<1>1. PICK u : u = ForgetUnhashed(s, s.records[at])
  OBVIOUS
<1>2. FieldsAre(s, u, s.left, s.records, s.held, s.skips, kept)
  BY <1>1, ForgetIs, Zenon
<1>3. IsScan(u) /\ u.at = s.at /\ u.plan = s.plan /\ u.stopped = s.stopped /\ u.left = s.left /\ u.records = s.records
      /\ u.held = s.held /\ u.skips = s.skips /\ u.unhashed = kept
  BY <1>2, Zenon DEF FieldsAre
<1>4. Displace(s, at, r) = [u EXCEPT !.records[at] = r,
                               !.skips = @ \cup {Skip("duplicate", s.records[at].dir, s.records[at].name)}]
  BY <1>1, Zenon DEF Displace
<1>5. Displace(s, at, r) = [u EXCEPT !.records = records, !.skips = skips]
  BY <1>3, <1>4, Zenon
<1>6. FieldsAre(u, Displace(s, at, r), u.left, records, u.held, skips, u.unhashed)
  <2>1. IsScan(u)
    BY <1>3, Zenon
  <2>2. PICK v : v = [u EXCEPT !.records = records, !.skips = skips]
    OBVIOUS
  <2>3. FieldsAre(u, v, u.left, records, u.held, skips, u.unhashed)
    BY <2>1, <2>2, RecordFields, Zenon
  <2>4. Displace(s, at, r) = v
    BY <1>5, <2>2, Zenon
  <2> QED  BY <2>3, <2>4, Zenon
<1> QED  BY <1>3, <1>6, Zenon DEF FieldsAre

Replaced(s, t, r, at) ==
    /\ IsScan(t) /\ t.at = s.at /\ t.plan = s.plan /\ t.stopped = s.stopped /\ t.left = s.left \ {r.name}
    /\ t.records = [s.records EXCEPT ![at] = r] /\ PlaceTaken(s, t, r, s.records[at], at)

LEMMA ReplaceIs ==
    ASSUME NEW s, IsScan(s), NEW key, NEW r, r.played = TRUE, NEW at, at = s.held[key].at, key \in DOMAIN s.held,
           NEW t, t = Replace(s, key, r), r.key = key
    PROVE  Replaced(s, t, r, at)
<1>1. PICK gone : gone = s.records[at]
  OBVIOUS
<1>2. PICK records, skips, kept :
         /\ records = [s.records EXCEPT ![at] = r] /\ skips = s.skips \cup {Skip("duplicate", gone.dir, gone.name)}
         /\ kept = s.unhashed \ {Skip("unhashed", gone.dir, gone.name)}
  OBVIOUS
<1>3. PICK u, v, w : u = Displace(s, at, r) /\ v = Hashed(u, r) /\ w = Hold(v, key, at, TRUE)
  OBVIOUS
<1>4. FieldsAre(s, u, s.left, records, s.held, skips, kept)
  BY <1>1, <1>2, <1>3, DisplaceIs, Zenon
<1>5. IsScan(u)
  BY <1>4, Zenon DEF FieldsAre
<1>6. PICK unhashed : /\ FieldsAre(u, v, u.left, u.records, u.held, u.skips, unhashed)
                      /\ SaidUnhashed(u.unhashed, unhashed, r)
  BY <1>3, <1>5, HashedIs, Zenon
<1>7. IsScan(v)
  BY <1>6, Zenon DEF FieldsAre
<1>8. PICK held : /\ FieldsAre(v, w, v.left, v.records, held, v.skips, v.unhashed)
                  /\ KeyHeld(v.held, held, key, at, TRUE)
  BY <1>3, <1>7, HoldIs, Zenon
<1>9. IsScan(w)
  BY <1>8, Zenon DEF FieldsAre
<1>10. t = [w EXCEPT !.left = @ \ {r.name}]
  BY <1>3, Zenon DEF Replace
<1>11. t = [w EXCEPT !.left = w.left \ {r.name}]
  BY <1>10, Zenon
<1>12. FieldsAre(w, t, w.left \ {r.name}, w.records, w.held, w.skips, w.unhashed)
  BY <1>9, <1>11, LeftField, Zenon
<1>13. /\ u.at = s.at /\ u.plan = s.plan /\ u.stopped = s.stopped /\ u.left = s.left /\ u.records = records
       /\ u.held = s.held /\ u.skips = skips /\ u.unhashed = kept
  BY <1>4, Zenon DEF FieldsAre
<1>14. /\ v.at = u.at /\ v.plan = u.plan /\ v.stopped = u.stopped /\ v.left = u.left /\ v.records = u.records
       /\ v.held = u.held /\ v.skips = u.skips /\ v.unhashed = unhashed
  BY <1>6, Zenon DEF FieldsAre
<1>15. /\ w.at = v.at /\ w.plan = v.plan /\ w.stopped = v.stopped /\ w.left = v.left /\ w.records = v.records
       /\ w.held = held /\ w.skips = v.skips /\ w.unhashed = v.unhashed
  BY <1>8, Zenon DEF FieldsAre
<1>16. /\ IsScan(t) /\ t.at = w.at /\ t.plan = w.plan /\ t.stopped = w.stopped /\ t.left = w.left \ {r.name}
       /\ t.records = w.records /\ t.held = w.held /\ t.skips = w.skips /\ t.unhashed = w.unhashed
  BY <1>12, Zenon DEF FieldsAre
<1>17. \A skip : skip \in t.skips <=> skip \in s.skips \/ skip = Skip("duplicate", gone.dir, gone.name)
  <2>1. t.skips = s.skips \cup {Skip("duplicate", gone.dir, gone.name)}
    BY <1>2, <1>13, <1>14, <1>15, <1>16, Zenon
  <2> QED  BY <2>1, Zenon
<1>18. KeyPassed(s.held, t.held, r.key, at, r.played)
  <2>1. KeyHeld(s.held, t.held, key, at, TRUE)
    BY <1>8, <1>13, <1>14, <1>15, <1>16, Zenon
  <2>2. /\ DOMAIN t.held = DOMAIN s.held \cup {key} /\ \A k \in DOMAIN s.held : k # key => t.held[k] = s.held[k]
        /\ t.held[key].at = at /\ t.held[key].played = TRUE
    BY <2>1, Zenon DEF KeyHeld
  <2>3. DOMAIN t.held = DOMAIN s.held
    BY <2>2, Zenon
  <2>4. r.key = key /\ r.played = TRUE
    OBVIOUS
  <2> QED  BY <2>2, <2>3, <2>4, Zenon DEF KeyPassed
<1>19. Retold(t.unhashed, s.unhashed, gone, r)
  <2>1. t.unhashed = unhashed /\ u.unhashed = kept
    BY <1>13, <1>14, <1>15, <1>16, Zenon
  <2>2. \A x : x \in unhashed <=> x \in kept \/ (~r.hashed /\ x = Skip("unhashed", r.dir, r.name))
    BY <1>6, <2>1, Zenon DEF SaidUnhashed
  <2>3. \A x : x \in kept <=> x \in s.unhashed /\ x # Skip("unhashed", gone.dir, gone.name)
    BY <1>2, Zenon
  <2> QED  BY <2>1, <2>2, <2>3, Zenon DEF Retold
<1>20. PlaceTaken(s, t, r, gone, at)
  BY <1>17, <1>18, <1>19, Zenon DEF PlaceTaken
<1>21. /\ t.at = s.at /\ t.plan = s.plan /\ t.stopped = s.stopped /\ t.left = s.left \ {r.name}
       /\ t.records = [s.records EXCEPT ![at] = r]
  <2>1. w.at = s.at /\ w.plan = s.plan /\ w.stopped = s.stopped
    BY <1>13, <1>14, <1>15, Zenon
  <2>2. w.left = s.left
    BY <1>13, <1>14, <1>15, Zenon
  <2>3. w.records = records
    BY <1>13, <1>14, <1>15, Zenon
  <2> QED  BY <1>2, <1>16, <2>1, <2>2, <2>3, Zenon
<1> QED  BY <1>1, <1>2, <1>16, <1>20, <1>21, Zenon DEF Replaced

LEMMA ToldIs ==
    ASSUME NEW s, IsScan(s), NEW reason, NEW folder, NEW name, NEW skips, skips = s.skips \cup {Skip(reason, folder.dir, name)}
    PROVE  FieldsAre(s, Told(s, reason, folder, name), s.left \ {name}, s.records, s.held, skips, s.unhashed)
<1>1. PICK left : left = s.left \ {name}
  OBVIOUS
<1>2. FieldsAre(s, [s EXCEPT !.left = left, !.skips = skips], left, s.records, s.held, skips, s.unhashed)
  BY DEF IsScan, FieldsAre
<1>3. Told(s, reason, folder, name) = [s EXCEPT !.left = left, !.skips = skips]
  BY <1>1, Zenon DEF Told
<1> QED  BY <1>1, <1>2, <1>3, Zenon

\* What a scan is once it has stopped at its bound.
Halted(s, t, skips) ==
    /\ IsScan(t) /\ t.at = "done" /\ t.plan = s.plan /\ t.stopped = TRUE /\ t.left = s.left /\ t.records = s.records
    /\ t.held = s.held /\ t.skips = skips /\ t.unhashed = s.unhashed

LEMMA StopIs ==
    ASSUME NEW s, IsScan(s), NEW folder, NEW name, NEW skips, skips = s.skips \cup {Skip("too many", folder.dir, name)}
    PROVE  Halted(s, StopAtBound(s, folder, name), skips)
<1>1. PICK u : u = [s EXCEPT !.at = "done", !.stopped = TRUE, !.skips = skips]
  OBVIOUS
<1>2. Halted(s, u, skips)
  BY <1>1 DEF IsScan, Halted
<1>3. StopAtBound(s, folder, name) = u
  BY <1>1, Zenon DEF StopAtBound
<1> QED  BY <1>2, <1>3, Zenon

(* A file that is told, for a reason that is not the bound.                 *)
LEMMA ToldStays ==
    ASSUME ScanInv, scan.at = "walk", NEW folder \in Range(PlanFolders), folder = scan.plan[1], NEW name \in scan.left,
           NEW reason \in SkipReasons \ {"too many"},
           reason = "duplicate" => \E r \in Range(scan.records) : r.key = KeyAt(Skip(reason, folder.dir, name))
                                                                  /\ (PlayedIn(folder) => r.played)
    PROVE  ScanGood(Told(scan, reason, folder, name)) /\ Told(scan, reason, folder, name).at # "plan"
<1>1. ScanTyped(scan) /\ want \in Wants
  BY Zenon DEF ScanInv, ScanGood
<1>2. PICK skip, skips : skip = Skip(reason, folder.dir, name) /\ skips = scan.skips \cup {skip}
  OBVIOUS
<1>3. skip.reason = reason /\ skip.dir = folder.dir /\ skip.name = name
  BY <1>2 DEF Skip
<1>4. FolderAt(skip.dir) = folder
  BY <1>1, <1>3, FolderOfAPath
<1>5. \A other \in skips : other.reason \in SkipReasons /\ (other.reason = "too many" => other \in scan.skips)
  <2>1. \A other \in scan.skips : other.reason \in SkipReasons
    BY <1>1, Zenon DEF ScanTyped
  <2> QED  BY <1>2, <1>3, <2>1
<1>6. \A other \in skips : other.reason = "duplicate" /\ other \notin scan.skips =>
              \E r \in Range(scan.records) : r.key = KeyAt(other) /\ (PlayedIn(FolderAt(other.dir)) => r.played)
  <2>1. reason = "duplicate" => \E r \in Range(scan.records) : r.key = KeyAt(skip)
                                                                  /\ (PlayedIn(FolderAt(skip.dir)) => r.played)
    BY <1>2, <1>4, Zenon
  <2>2. \A other \in skips : other \notin scan.skips => other = skip
    BY <1>2, Zenon
  <2> QED  BY <1>3, <2>1, <2>2, Zenon
<1>7. \E other \in skips : other.dir = folder.dir /\ other.name = name
  BY <1>2, <1>3, Zenon
<1>8. PICK t : t = Told(scan, reason, folder, name)
  OBVIOUS
<1>9. FieldsAre(scan, t, scan.left \ {name}, scan.records, scan.held, skips, scan.unhashed)
  <2>1. IsScan(scan)
    BY <1>1, Zenon DEF ScanTyped
  <2> QED  BY <1>2, <1>8, <2>1, ToldIs, Zenon
<1>10. /\ IsScan(t) /\ t.left = scan.left \ {name} /\ t.skips = skips /\ t.at = "walk" /\ t.plan = scan.plan
       /\ t.records = scan.records /\ t.held = scan.held /\ t.unhashed = scan.unhashed /\ t.stopped = scan.stopped
  BY <1>9, Zenon DEF FieldsAre
<1>11. scan.skips \subseteq skips
  BY <1>2, Zenon
<1>12. ScanGood(t)
  BY <1>5, <1>6, <1>7, <1>10, <1>11, ToldKeeps
<1>13. t.at # "plan"
  BY <1>10
<1> QED  BY <1>8, <1>12, <1>13, Zenon

LEMMA Positions ==
    ASSUME NEW S, NEW s \in Seq(S)
    PROVE  \A i \in 1 .. Len(s) : s[i] \in Range(s)
  BY DEF Range

(* Whatever the walk makes of a file.                                       *)
LEMMA ConsideredKeeps ==
    ASSUME ScanInv, scan.at = "walk", NEW folder \in Range(PlanFolders), folder = scan.plan[1], NEW name \in scan.left,
           NEW hashed \in BOOLEAN
    PROVE  ScanGood(Considered(scan, folder, name, hashed)) /\ Considered(scan, folder, name, hashed).at # "plan"
<1>0. "walk" # "plan" /\ "done" # "plan"
  OBVIOUS
<1>1. /\ ScanTyped(scan) /\ HeldAgrees(scan.records, scan.held) /\ CopiesTold(scan)
      /\ DigestsTold(scan.records, scan.unhashed) /\ EachIsHeard(scan) /\ want \in Wants
  BY Zenon DEF ScanInv, ScanGood
<1>2. IsScan(scan) /\ name \in FileNames /\ scan.records \in Seq(ScanRecords)
  BY <1>1, Zenon DEF ScanTyped
<1>3. PICK t : t = Considered(scan, folder, name, hashed)
  OBVIOUS
<1>4. PICK record : record = RecordOf(folder, name, hashed)
  OBVIOUS
<1>5. /\ record \in ScanRecords /\ record.dir = folder.dir /\ record.name = name /\ record.hashed = hashed
      /\ record.played = PlayedIn(folder) /\ record.key = KeyAt(record) /\ FolderAt(record.dir) = folder
  BY <1>1, <1>2, <1>4, ARecordIs
<1>6. record.played \in BOOLEAN
  BY <1>1, <1>5, RecordsAre
<1>7. PICK claim : claim = Claim(scan, record.key, record.played)
  OBVIOUS
<1>8. \/ PassedOver(folder, name) /\ t = [scan EXCEPT !.left = @ \ {name}]
      \/ t = Told(scan, "ambiguous", folder, name)
      \/ t = Told(scan, "unmatched", folder, name)
      \/ claim = "held" /\ t = Told(scan, "duplicate", folder, name)
      \/ PastBound(scan, claim) /\ t = StopAtBound(scan, folder, name)
      \/ claim = "taken" /\ t = Replace(scan, record.key, record)
      \/ claim \notin {"held", "taken"} /\ ~PastBound(scan, claim) /\ t = Emit(scan, record.key, record)
  <2>1. PICK matches : matches = Matches(folder, name)
    OBVIOUS
  <2>2. PICK key : key = KeyOf(folder, name, CHOOSE r \in matches : TRUE)
    OBVIOUS
  <2>3. record = [dir |-> folder.dir, name |-> name, key |-> key, played |-> PlayedIn(folder), hashed |-> hashed]
    BY <1>4, <2>1, <2>2, Zenon DEF RecordOf
  <2>4. record.key = key
    BY <2>3
  <2>5. t = IF PassedOver(folder, name) THEN [scan EXCEPT !.left = @ \ {name}]
            ELSE IF Cardinality(matches) > 1 THEN Told(scan, "ambiguous", folder, name)
            ELSE IF matches = {} THEN Told(scan, "unmatched", folder, name)
            ELSE IF claim = "held" THEN Told(scan, "duplicate", folder, name)
            ELSE IF PastBound(scan, claim) THEN StopAtBound(scan, folder, name)
            ELSE IF claim = "taken" THEN Replace(scan, key, record)
            ELSE Emit(scan, key, record)
    BY <1>3, <1>7, <2>1, <2>2, <2>3, <2>4, Zenon DEF Considered
  <2> QED  BY <2>4, <2>5, Zenon
<1>9. /\ claim = "held" => record.key \in DOMAIN scan.held /\ (record.played => scan.held[record.key].played)
      /\ claim = "taken" => record.key \in DOMAIN scan.held /\ record.played
      /\ claim \notin {"held", "taken"} => record.key \notin DOMAIN scan.held
      /\ PastBound(scan, claim) => record.key \notin DOMAIN scan.held
  <2>1. claim = IF record.key \notin DOMAIN scan.held THEN "free"
                ELSE IF ~record.played \/ scan.held[record.key].played THEN "held" ELSE "taken"
    BY <1>7, Zenon DEF Claim
  <2>2. PastBound(scan, claim) => claim = "free"
    BY Zenon DEF PastBound
  <2>3. \/ claim = "free" /\ record.key \notin DOMAIN scan.held
        \/ claim = "held" /\ record.key \in DOMAIN scan.held /\ (~record.played \/ scan.held[record.key].played)
        \/ claim = "taken" /\ record.key \in DOMAIN scan.held /\ record.played
    BY <2>1, Zenon
  <2>4. "free" # "held" /\ "free" # "taken" /\ "held" # "taken"
    OBVIOUS
  <2> QED  BY <2>2, <2>3, <2>4, Zenon
<1>10. CASE PassedOver(folder, name) /\ t = [scan EXCEPT !.left = @ \ {name}]
  <2>1. t = [scan EXCEPT !.left = scan.left \ {name}]
    BY <1>10, Zenon
  <2>2. FieldsAre(scan, t, scan.left \ {name}, scan.records, scan.held, scan.skips, scan.unhashed)
    BY <1>2, <2>1, LeftField, Zenon
  <2>3. /\ IsScan(t) /\ t.left = scan.left \ {name} /\ t.skips = scan.skips /\ t.at = "walk" /\ t.plan = scan.plan
        /\ t.records = scan.records /\ t.held = scan.held /\ t.unhashed = scan.unhashed /\ t.stopped = scan.stopped
    BY <2>2, Zenon DEF FieldsAre
  <2>4. \A skip \in scan.skips : skip.reason \in SkipReasons
    BY <1>1, Zenon DEF ScanTyped
  <2>5. PICK skips : skips = scan.skips
    OBVIOUS
  <2>6. ScanGood(t)
    BY <1>10, <2>3, <2>4, <2>5, ToldKeeps
  <2> QED  BY <1>0, <1>3, <2>3, <2>6, Zenon
<1>11. CASE t = Told(scan, "ambiguous", folder, name) \/ t = Told(scan, "unmatched", folder, name)
  <2>1. PICK reason \in {"ambiguous", "unmatched"} : t = Told(scan, reason, folder, name)
    BY <1>11, Zenon
  <2>2. reason \in SkipReasons \ {"too many"} /\ reason # "duplicate"
    BY DEF SkipReasons
  <2> QED  BY <1>3, <2>1, <2>2, ToldStays, Zenon
<1>12. CASE claim = "held" /\ t = Told(scan, "duplicate", folder, name)
  <2>1. PICK reason \in SkipReasons \ {"too many"} : reason = "duplicate"
    BY DEF SkipReasons
  <2>2. PICK skip : skip = Skip(reason, folder.dir, name)
    OBVIOUS
  <2>3. skip.dir = record.dir /\ skip.name = record.name
    BY <1>5, <2>2 DEF Skip
  <2>4. KeyAt(skip) = record.key
    BY <1>5, <2>3, Zenon DEF KeyAt
  <2>5. PICK at \in 1 .. Len(scan.records) : at = scan.held[record.key].at /\ scan.records[at].key = record.key
                                              /\ scan.held[record.key].played = scan.records[at].played
    BY <1>1, <1>9, <1>12, Zenon DEF HeldAgrees
  <2>6. scan.records[at] \in Range(scan.records)
    BY <1>2, <2>5, Positions, Zenon
  <2>7. PlayedIn(folder) => scan.records[at].played
    BY <1>5, <1>9, <1>12, <2>5, Zenon
  <2>8. \E r \in Range(scan.records) : r.key = KeyAt(Skip(reason, folder.dir, name)) /\ (PlayedIn(folder) => r.played)
    BY <2>2, <2>4, <2>5, <2>6, <2>7, Zenon
  <2> QED  BY <1>3, <1>12, <2>1, <2>8, ToldStays, Zenon
<1>13. CASE PastBound(scan, claim) /\ t = StopAtBound(scan, folder, name)
  <2>1. PICK skip, skips : skip = Skip("too many", folder.dir, name) /\ skips = scan.skips \cup {skip}
    OBVIOUS
  <2>2. skip.reason = "too many" /\ skip.dir = record.dir /\ skip.name = record.name
    BY <1>5, <2>1 DEF Skip
  <2>3. /\ IsScan(t) /\ t.at = "done" /\ t.plan = scan.plan /\ t.stopped = TRUE /\ t.left = scan.left
        /\ t.records = scan.records /\ t.held = scan.held /\ t.skips = skips /\ t.unhashed = scan.unhashed
    <3>1. Halted(scan, StopAtBound(scan, folder, name), skips)
      BY <1>2, <2>1, StopIs, Zenon
    <3>2. Halted(scan, t, skips)
      BY <1>13, <3>1, Zenon
    <3> QED  BY <3>2, Zenon DEF Halted
  <2>4. ScanTyped(t)
    <3>1. \A other \in skips : other.reason \in SkipReasons
      <4>1. \A other \in scan.skips : other.reason \in SkipReasons
        BY <1>1, Zenon DEF ScanTyped
      <4> QED  BY <2>1, <2>2, <4>1 DEF SkipReasons
    <3> QED  BY <1>1, <2>3, <3>1 DEF ScanTyped
  <2>5. HeldAgrees(t.records, t.held) /\ DigestsTold(t.records, t.unhashed)
    BY <1>1, <2>3, Zenon
  <2>6. CopiesTold(t)
    <3>1. KeyAt(skip) = record.key
      BY <1>5, <2>2, Zenon DEF KeyAt
    <3>2. \A r \in Range(scan.records) : r.key # record.key
      <4>1. ASSUME NEW r \in Range(scan.records) PROVE r.key \in DOMAIN scan.held
        <5>1. PICK i \in 1 .. Len(scan.records) : r = scan.records[i]
          BY <1>2 DEF Range
        <5> QED  BY <1>1, <5>1 DEF HeldAgrees
      <4> QED  BY <1>9, <1>13, <4>1, Zenon
    <3>3. \A other \in scan.skips : other.reason # "too many"
      <4>1. scan.at # "done"
        OBVIOUS
      <4> QED  BY <1>1, <4>1, Zenon DEF CopiesTold
    <3>4. "too many" # "duplicate"
      OBVIOUS
    <3>5. \A other \in scan.skips : other.reason = "duplicate" =>
             \E r \in Range(scan.records) : r.key = KeyAt(other) /\ (PlayedIn(FolderAt(other.dir)) => r.played)
      BY <1>1, Zenon DEF CopiesTold
    <3>6. \A other \in t.skips : other \in scan.skips \/ other = skip
      BY <2>1, <2>3, Zenon
    <3>7. ASSUME NEW other \in t.skips, other.reason = "duplicate"
          PROVE  \E r \in Range(t.records) : r.key = KeyAt(other) /\ (PlayedIn(FolderAt(other.dir)) => r.played)
      BY <2>2, <2>3, <3>4, <3>5, <3>6, <3>7, Zenon
    <3>8. ASSUME NEW other \in t.skips, other.reason = "too many"
          PROVE  t.at = "done" /\ \A r \in Range(t.records) : r.key # KeyAt(other)
      BY <2>3, <3>1, <3>2, <3>3, <3>6, <3>8, Zenon
    <3> QED  BY <3>7, <3>8, Zenon DEF CopiesTold
  <2>7. EachIsHeard(t)
    BY <2>3, Zenon DEF EachIsHeard
  <2>8. ScanGood(t)
    BY <2>4, <2>5, <2>6, <2>7, Zenon DEF ScanGood
  <2> QED  BY <1>0, <1>3, <2>3, <2>8, Zenon
<1>14. CASE claim = "taken" /\ t = Replace(scan, record.key, record)
  <2>1. record.key \in DOMAIN scan.held /\ record.played = TRUE
    BY <1>6, <1>9, <1>14
  <2>2. PICK at, gone : at = scan.held[record.key].at /\ gone = scan.records[at]
    OBVIOUS
  <2>3. at \in 1 .. Len(scan.records)
    BY <1>1, <2>1, <2>2, Zenon DEF HeldAgrees
  <2>4. /\ IsScan(t) /\ t.at = scan.at /\ t.plan = scan.plan /\ t.stopped = scan.stopped
        /\ t.left = scan.left \ {record.name}
        /\ t.records = [scan.records EXCEPT ![at] = record] /\ PlaceTaken(scan, t, record, gone, at)
    <3>1. Replaced(scan, t, record, at)
      BY <1>2, <1>14, <2>1, <2>2, ReplaceIs, Zenon
    <3> QED  BY <2>2, <3>1, Zenon DEF Replaced
  <2>5. PICK recs \in Seq(ScanRecords) : recs = t.records /\ SequencePut(scan.records, recs, at, record)
    <3>1. PICK s \in Seq(ScanRecords) : s = scan.records
      BY <1>2
    <3>2. PICK recs : recs = [s EXCEPT ![at] = record]
      OBVIOUS
    <3>3. recs \in Seq(ScanRecords) /\ SequencePut(s, recs, at, record)
      BY <1>5, <2>3, <3>1, <3>2 DEF SequencePut
    <3>4. recs = t.records
      BY <2>4, <3>1, <3>2, Zenon
    <3> QED  BY <3>1, <3>3, <3>4, Zenon
  <2>6. t.at = "walk" /\ t.left = scan.left \ {name}
    BY <1>5, <2>4, Zenon
  <2>7. ScanGood(t)
    BY <1>5, <2>1, <2>2, <2>4, <2>5, <2>6, ReplaceKeeps, ZenonT(60)
  <2> QED  BY <1>0, <1>3, <2>6, <2>7, Zenon
<1>15. CASE claim \notin {"held", "taken"} /\ ~PastBound(scan, claim) /\ t = Emit(scan, record.key, record)
  <2>1. PICK held, unhashed :
              /\ FieldsAre(scan, t, scan.left \ {record.name}, Append(scan.records, record), held, scan.skips, unhashed)
              /\ KeyHeld(scan.held, held, record.key, Len(scan.records) + 1, record.played)
              /\ SaidUnhashed(scan.unhashed, unhashed, record)
    BY <1>2, <1>15, EmitIs, Zenon
  <2>2. /\ IsScan(t) /\ t.left = scan.left \ {name} /\ t.skips = scan.skips /\ t.at = "walk" /\ t.plan = scan.plan
        /\ t.records = Append(scan.records, record) /\ t.held = held /\ t.unhashed = unhashed /\ t.stopped = scan.stopped
    BY <1>5, <2>1, Zenon DEF FieldsAre
  <2>3. /\ DOMAIN t.held = DOMAIN scan.held \cup {record.key}
        /\ \A k \in DOMAIN scan.held : k # record.key => t.held[k] = scan.held[k]
        /\ t.held[record.key].at = Len(scan.records) + 1 /\ t.held[record.key].played = record.played
    BY <2>1, <2>2, Zenon DEF KeyHeld
  <2>4. record.key \notin DOMAIN scan.held /\ Len(scan.records) < kMaxSaves
    <3>1. record.key \notin DOMAIN scan.held
      BY <1>9, <1>15, Zenon
    <3>2. claim = "free"
      BY <1>7, <3>1, Zenon DEF Claim
    <3>3. ~(Len(scan.records) >= kMaxSaves)
      BY <1>15, <3>2, Zenon DEF PastBound
    <3>4. Len(scan.records) \in Nat /\ kMaxSaves \in Nat
      BY <1>2, SaveScanConstants
    <3> QED  BY <3>1, <3>3, <3>4
  <2>5. \A k \in DOMAIN scan.held : t.held[k] = scan.held[k]
    BY <2>3, <2>4, Zenon
  <2>6. t.unhashed = scan.unhashed \cup (IF hashed THEN {} ELSE {Skip("unhashed", folder.dir, name)})
    <3>1. \A x : x \in t.unhashed <=> x \in scan.unhashed \/ (~hashed /\ x = Skip("unhashed", folder.dir, name))
      BY <1>5, <2>1, <2>2, Zenon DEF SaidUnhashed
    <3>2. CASE hashed
      BY <3>1, <3>2, Zenon
    <3>3. CASE ~hashed
      BY <3>1, <3>3, Zenon
    <3> QED  BY <3>2, <3>3, Zenon
  <2>7. RecordAdded(scan, t, record, IF hashed THEN {} ELSE {Skip("unhashed", folder.dir, name)})
    BY <1>5, <2>2, <2>3, <2>5, <2>6, Zenon DEF RecordAdded
  <2>8. ScanGood(t)
    BY <1>4, <2>4, <2>7, EmitKeeps, Zenon
  <2> QED  BY <1>0, <1>3, <2>2, <2>8, Zenon
<1> QED  BY <1>8, <1>10, <1>11, <1>12, <1>13, <1>14, <1>15, Zenon

(* The configuration a scan reads is the one it began with.                 *)
LEMMA TheSameFolders ==
    ASSUME want' = want
    PROVE  /\ PlanFolders' = PlanFolders
           /\ \A d : FolderAt(d)' = FolderAt(d)
           /\ \A s : KeyAt(s)' = KeyAt(s)
           /\ \A f : PlayedIn(f)' = PlayedIn(f)
           /\ ScanRecords' = ScanRecords
<1>1. PlanFolders' = PlanFolders
  BY DEF PlanFolders, RetroArchPlan, TicoPlan, Folder, CoreFolders
<1>2. \A d : FolderAt(d)' = FolderAt(d)
  BY <1>1 DEF FolderAt
<1>3. ASSUME NEW s PROVE KeyAt(s)' = KeyAt(s)
  <2>1. FolderAt(s.dir)' = FolderAt(s.dir)
    BY <1>2, Zenon
  <2> QED  BY <2>1 DEF KeyAt, KeyOf, SlotFor, Mapped
<1>4. \A f : PlayedIn(f)' = PlayedIn(f)
  BY Zenon DEF PlayedIn
<1>5. ScanRecords' = ScanRecords
  <2>1. \A f, n, h : RecordOf(f, n, h)' = RecordOf(f, n, h)
    BY DEF RecordOf, KeyOf, SlotFor, Mapped, PlayedIn
  <2> QED  BY <1>1, <2>1 DEF ScanRecords
<1> QED  BY <1>1, <1>2, <1>3, <1>4, <1>5, Zenon

LEMMA WhatIsGoodStays ==
    ASSUME want' = want, stayed' \subseteq stayed, ScanGood(scan')
    PROVE  ScanGood(scan)'
<1>1. PICK s : s = scan'
  OBVIOUS
<1>2. /\ PlanFolders' = PlanFolders
      /\ \A d : FolderAt(d)' = FolderAt(d)
      /\ \A x : KeyAt(x)' = KeyAt(x)
      /\ \A f : PlayedIn(f)' = PlayedIn(f)
      /\ ScanRecords' = ScanRecords
  BY TheSameFolders, Zenon
<1>3. ScanTyped(s) /\ HeldAgrees(s.records, s.held) /\ CopiesTold(s) /\ DigestsTold(s.records, s.unhashed) /\ EachIsHeard(s)
  BY <1>1, Zenon DEF ScanGood
<1>4. ScanTyped(scan)'
  BY <1>1, <1>2, <1>3 DEF ScanTyped, IsScan
<1>5. HeldAgrees(scan.records, scan.held)' /\ DigestsTold(scan.records, scan.unhashed)'
  BY <1>1, <1>3, Zenon DEF HeldAgrees, DigestsTold
<1>6. CopiesTold(scan)'
  BY <1>1, <1>2, <1>3 DEF CopiesTold
<1>7. EachIsHeard(scan)'
  BY <1>1, <1>2, <1>3 DEF EachIsHeard, Accounted, ToCome
<1> QED  BY <1>4, <1>5, <1>6, <1>7, Zenon DEF ScanGood

(* Planning chooses the folders and reports what it leaves behind.          *)
LEMMA PlanKeeps ==
    ASSUME ScanInv, Plan
    PROVE  ScanGood(scan') /\ scan'.at # "plan"
<1>1. scan = FreshScan /\ want \in Wants
  BY Zenon DEF ScanInv, Plan
<1>2. PICK t : t = scan'
  OBVIOUS
<1>3. /\ IsScan(t) /\ t.at = "list" /\ t.plan = PlanFolders /\ t.left = {} /\ t.records = <<>> /\ t.held = <<>>
      /\ t.skips = PlanSkips /\ t.unhashed = {} /\ t.stopped = FALSE
  BY <1>1, <1>2 DEF Plan, FreshScan, IsScan
<1>4. \A skip \in PlanSkips : skip.reason \in SkipReasons \ {"duplicate", "too many"}
  <2>1. \A reason, dir, name : Skip(reason, dir, name).reason = reason
    BY DEF Skip
  <2>2. ASSUME NEW skip \in PlanSkips
        PROVE  \E reason \in {"outside layout", "directory failed", "tico account"} : \E dir, name : skip = Skip(reason, dir, name)
    BY <2>2, Zenon DEF PlanSkips
  <2>3. ASSUME NEW skip \in PlanSkips
        PROVE  skip.reason \in {"outside layout", "directory failed", "tico account"}
    <3>1. PICK reason \in {"outside layout", "directory failed", "tico account"} : \E dir, name : skip = Skip(reason, dir, name)
      BY <2>2, <2>3, Zenon
    <3>2. PICK dir, name : skip = Skip(reason, dir, name)
      BY <3>1, Zenon
    <3> QED  BY <2>1, <3>2, Zenon
  <2> QED  BY <2>3 DEF SkipReasons
<1>5. ScanTyped(t)
  <2>1. <<>> \in Seq(ScanRecords) /\ Len(<<>>) <= kMaxSaves
    BY SaveScanConstants
  <2>2. PlanFolders \in Seq(Range(PlanFolders))
    BY <1>1, FoldersApart
  <2> QED  BY <1>3, <1>4, <2>1, <2>2 DEF ScanTyped
<1>6. HeldAgrees(t.records, t.held)
  <2>1. DOMAIN <<>> = {} /\ Len(<<>>) = 0
    OBVIOUS
  <2> QED  BY <1>3, <2>1 DEF HeldAgrees
<1>7. CopiesTold(t)
  BY <1>3, <1>4 DEF CopiesTold
<1>8. DigestsTold(t.records, t.unhashed)
  <2>1. Range(<<>>) = {}
    BY DEF Range
  <2> QED  BY <1>3, <2>1 DEF DigestsTold
<1>9. EachIsHeard(t)
  BY <1>3 DEF EachIsHeard, ToCome
<1>10. t.at # "plan"
  BY <1>3
<1> QED  BY <1>2, <1>5, <1>6, <1>7, <1>8, <1>9, <1>10, Zenon DEF ScanGood

(* A plan's first folder, and the others.                                   *)
LEMMA TheFirstFolder ==
    ASSUME NEW S, NEW plan \in Seq(S), plan # <<>>
    PROVE  plan[1] \in S /\ Tail(plan) \in Seq(S) /\ DirsOf(plan) = {plan[1].dir} \cup DirsOf(Tail(plan))
<1>1. plan[1] \in S /\ Tail(plan) \in Seq(S)
  BY HeadTailProperties
<1>2. PICK n \in Nat : n = Len(plan) /\ n > 0
  OBVIOUS
<1>3. Len(Tail(plan)) = n - 1 /\ \A i \in 1 .. n - 1 : Tail(plan)[i] = plan[i + 1]
  BY <1>2, HeadTailProperties
<1>4. Range(plan) = {plan[1]} \cup Range(Tail(plan))
  <2>1. DOMAIN plan = 1 .. n /\ DOMAIN Tail(plan) = 1 .. n - 1
    BY <1>1, <1>2, <1>3
  <2>2. ASSUME NEW x \in Range(plan) PROVE x = plan[1] \/ x \in Range(Tail(plan))
    <3>1. PICK i \in 1 .. n : x = plan[i]
      BY <2>1 DEF Range
    <3>2. CASE i # 1
      <4>1. i - 1 \in 1 .. n - 1 /\ (i - 1) + 1 = i
        BY <1>2, <3>2
      <4>2. x = Tail(plan)[i - 1]
        BY <1>3, <3>1, <4>1
      <4> QED  BY <2>1, <4>1, <4>2 DEF Range
    <3> QED  BY <3>1, <3>2
  <2>3. plan[1] \in Range(plan)
    BY <1>2, <2>1 DEF Range
  <2>4. ASSUME NEW x \in Range(Tail(plan)) PROVE x \in Range(plan)
    <3>1. PICK i \in 1 .. n - 1 : x = Tail(plan)[i]
      BY <2>1 DEF Range
    <3>2. i + 1 \in 1 .. n
      BY <1>2
    <3> QED  BY <1>3, <2>1, <3>1, <3>2 DEF Range
  <2> QED  BY <2>2, <2>3, <2>4
<1> QED  BY <1>1, <1>4 DEF DirsOf

(* A folder is listed, in whole or, with a word about it, in part.          *)
LEMMA ListKeeps ==
    ASSUME ScanInv, ListFolder
    PROVE  ScanGood(scan') /\ scan'.at # "plan"
<1>1. /\ ScanTyped(scan) /\ HeldAgrees(scan.records, scan.held) /\ CopiesTold(scan)
      /\ DigestsTold(scan.records, scan.unhashed) /\ EachIsHeard(scan) /\ want \in Wants
      /\ stayed \subseteq files /\ \A file \in files : file.name \in FileNames
  BY Zenon DEF ScanInv, ScanGood
<1>2. PICK t, folder : t = scan' /\ folder = scan.plan[1]
  OBVIOUS
<1>3. scan.at = "list" /\ scan.plan # <<>>
  BY Zenon DEF ListFolder
<1>4. PICK said : said = Skip("directory failed", folder.dir, NoName)
  OBVIOUS
<1>5. PICK swept : swept = IF folder.besideRoms THEN scan.swept ELSE scan.swept \cup {folder.dir}
  OBVIOUS
<1>6. \/ t = [scan EXCEPT !.at = "walk", !.swept = swept, !.left = At(folder.dir)]
      \/ \E read \in SUBSET At(folder.dir) :
            t = [scan EXCEPT !.at = "walk", !.swept = swept, !.left = read, !.skips = scan.skips \cup {said}]
  BY <1>1, <1>2, <1>4, <1>5 DEF ListFolder, ScanTyped, IsScan
<1>7. PICK left, skips :
        /\ IsScan(t) /\ t.at = "walk" /\ t.plan = scan.plan /\ t.left = left /\ t.records = scan.records /\ t.held = scan.held
        /\ t.skips = skips /\ t.unhashed = scan.unhashed /\ t.stopped = scan.stopped
        /\ left \subseteq At(folder.dir)
        /\ \/ left = At(folder.dir) /\ skips = scan.skips
           \/ skips = scan.skips \cup {said}
  <2>0. IsScan(scan)
    BY <1>1, Zenon DEF ScanTyped
  <2>1. CASE t = [scan EXCEPT !.at = "walk", !.swept = swept, !.left = At(folder.dir)]
    <3>1. PICK left : left = At(folder.dir)
      OBVIOUS
    <3>2. t = [scan EXCEPT !.at = "walk", !.swept = swept, !.left = left]
      BY <2>1, <3>1, Zenon
    <3>3. /\ IsScan(t) /\ t.at = "walk" /\ t.plan = scan.plan /\ t.left = left /\ t.records = scan.records
          /\ t.held = scan.held /\ t.skips = scan.skips /\ t.unhashed = scan.unhashed /\ t.stopped = scan.stopped
      BY <2>0, <3>2 DEF IsScan
    <3> QED  BY <3>1, <3>3, Zenon
  <2>2. CASE \E read \in SUBSET At(folder.dir) :
            t = [scan EXCEPT !.at = "walk", !.swept = swept, !.left = read, !.skips = scan.skips \cup {said}]
    <3>1. PICK read \in SUBSET At(folder.dir) :
            t = [scan EXCEPT !.at = "walk", !.swept = swept, !.left = read, !.skips = scan.skips \cup {said}]
      BY <2>2, Zenon
    <3>2. PICK skips : skips = scan.skips \cup {said}
      OBVIOUS
    <3>3. t = [scan EXCEPT !.at = "walk", !.swept = swept, !.left = read, !.skips = skips]
      BY <3>1, <3>2, Zenon
    <3>4. /\ IsScan(t) /\ t.at = "walk" /\ t.plan = scan.plan /\ t.left = read /\ t.records = scan.records
          /\ t.held = scan.held /\ t.skips = skips /\ t.unhashed = scan.unhashed /\ t.stopped = scan.stopped
      BY <2>0, <3>3 DEF IsScan
    <3>5. read \subseteq At(folder.dir)
      BY Zenon
    <3> QED  BY <3>2, <3>4, <3>5, Zenon
  <2> QED  BY <1>6, <2>1, <2>2, Zenon
<1>8. said.reason = "directory failed" /\ said.dir = folder.dir /\ said.name = NoName
  BY <1>4 DEF Skip
<1>9. At(folder.dir) \subseteq FileNames
  BY <1>1 DEF At
<1>10. \A skip \in skips : skip \in scan.skips \/ skip = said
  BY <1>7, Zenon
<1>11. ScanTyped(t)
  <2>1. \A skip \in skips : skip.reason \in SkipReasons
    <3>1. "directory failed" \in SkipReasons
      BY DEF SkipReasons
    <3> QED  BY <1>1, <1>8, <1>10, <3>1, Zenon DEF ScanTyped
  <2>2. left \in SUBSET FileNames
    BY <1>7, <1>9, Zenon
  <2>3. ~scan.stopped
    BY <1>1, <1>3 DEF ScanTyped
  <2> QED  BY <1>1, <1>3, <1>7, <2>1, <2>2, <2>3 DEF ScanTyped
<1>12. HeldAgrees(t.records, t.held) /\ DigestsTold(t.records, t.unhashed)
  BY <1>1, <1>7, Zenon
<1>13. CopiesTold(t)
  BY <1>1, <1>3, <1>7, <1>8, <1>10 DEF CopiesTold
<1>14. EachIsHeard(t)
  <2>1. SUFFICES ASSUME NEW file \in stayed, file.dir \in DirsOf(PlanFolders)
                 PROVE  Accounted(t, file) \/ ToCome(t, file)
    BY Zenon DEF EachIsHeard
  <2>2. ~scan.stopped
    BY <1>1, <1>3 DEF ScanTyped
  <2>3. Accounted(scan, file) \/ ToCome(scan, file)
    BY <1>1, <1>3, <2>1, <2>2 DEF EachIsHeard
  <2>4. CASE Accounted(scan, file)
    <3>1. scan.skips \subseteq t.skips
      BY <1>7, Zenon
    <3> QED  BY <1>7, <2>4, <3>1, Zenon DEF Accounted
  <2>5. CASE file.dir \in DirsOf(scan.plan)
    <3>1. file.dir = folder.dir \/ file.dir \in DirsOf(Tail(scan.plan))
      BY <1>1, <1>2, <1>3, <2>5, TheFirstFolder DEF ScanTyped
    <3>2. CASE file.dir \in DirsOf(Tail(scan.plan))
      BY <1>7, <3>2, Zenon DEF ToCome
    <3>3. CASE file.dir = folder.dir
      <4>1. file.name \in At(folder.dir)
        BY <1>1, <3>3 DEF At
      <4>2. CASE left = At(folder.dir)
        BY <1>2, <1>7, <3>3, <4>1, <4>2, Zenon DEF ToCome
      <4>3. CASE skips = scan.skips \cup {said}
        <5>1. said \in t.skips /\ said.dir = file.dir /\ said.name \in {file.name, NoName}
          BY <1>7, <1>8, <3>3, <4>3, Zenon
        <5> QED  BY <5>1, Zenon DEF Accounted
      <4> QED  BY <1>7, <4>2, <4>3
    <3> QED  BY <3>1, <3>2, <3>3
  <2> QED  BY <1>3, <2>3, <2>4, <2>5 DEF ToCome
<1>15. t.at # "plan"
  BY <1>7
<1> QED  BY <1>2, <1>11, <1>12, <1>13, <1>14, <1>15, Zenon DEF ScanGood

(* A folder whose entries are all considered, and the last of them.         *)
LEMMA FolderDoneKeeps ==
    ASSUME ScanInv, FolderDone
    PROVE  ScanGood(scan') /\ scan'.at # "plan"
<1>1. /\ ScanTyped(scan) /\ HeldAgrees(scan.records, scan.held) /\ CopiesTold(scan)
      /\ DigestsTold(scan.records, scan.unhashed) /\ EachIsHeard(scan)
  BY Zenon DEF ScanInv, ScanGood
<1>2. PICK t : t = scan'
  OBVIOUS
<1>3. scan.at = "walk" /\ scan.left = {} /\ scan.plan # <<>> /\ ~scan.stopped
  BY <1>1 DEF FolderDone, ScanTyped
<1>4. /\ IsScan(t) /\ t.at = "list" /\ t.plan = Tail(scan.plan) /\ t.left = scan.left /\ t.records = scan.records
      /\ t.held = scan.held /\ t.skips = scan.skips /\ t.unhashed = scan.unhashed /\ t.stopped = scan.stopped
  <2>1. IsScan(scan)
    BY <1>1, Zenon DEF ScanTyped
  <2>2. PICK plan : plan = Tail(scan.plan)
    OBVIOUS
  <2>3. t = [scan EXCEPT !.at = "list", !.plan = plan]
    BY <1>2, <2>1, <2>2 DEF FolderDone, IsScan
  <2> QED  BY <2>1, <2>2, <2>3 DEF IsScan
<1>5. ScanTyped(t)
  <2>1. Tail(scan.plan) \in Seq(Range(PlanFolders))
    BY <1>1, <1>3, TheFirstFolder DEF ScanTyped
  <2> QED  BY <1>1, <1>3, <1>4, <2>1 DEF ScanTyped
<1>6. HeldAgrees(t.records, t.held) /\ DigestsTold(t.records, t.unhashed)
  BY <1>1, <1>4, Zenon
<1>7. CopiesTold(t)
  BY <1>1, <1>3, <1>4 DEF CopiesTold
<1>8. EachIsHeard(t)
  BY <1>1, <1>3, <1>4 DEF EachIsHeard, Accounted, ToCome
<1>9. t.at # "plan"
  BY <1>4
<1> QED  BY <1>2, <1>5, <1>6, <1>7, <1>8, <1>9, Zenon DEF ScanGood

LEMMA ScanDoneKeeps ==
    ASSUME ScanInv, ScanDone
    PROVE  ScanGood(scan') /\ scan'.at # "plan"
<1>1. /\ ScanTyped(scan) /\ HeldAgrees(scan.records, scan.held) /\ CopiesTold(scan)
      /\ DigestsTold(scan.records, scan.unhashed) /\ EachIsHeard(scan)
  BY Zenon DEF ScanInv, ScanGood
<1>2. PICK t : t = scan'
  OBVIOUS
<1>3. scan.at = "list" /\ scan.plan = <<>>
  BY Zenon DEF ScanDone
<1>4. /\ IsScan(t) /\ t.at = "done" /\ t.plan = scan.plan /\ t.left = scan.left /\ t.records = scan.records
      /\ t.held = scan.held /\ t.skips = scan.skips /\ t.unhashed = scan.unhashed /\ t.stopped = scan.stopped
  <2>1. IsScan(scan)
    BY <1>1, Zenon DEF ScanTyped
  <2>2. t = [scan EXCEPT !.at = "done"]
    BY <1>2, Zenon DEF ScanDone
  <2> QED  BY <2>1, <2>2 DEF IsScan
<1>5. ScanTyped(t)
  BY <1>1, <1>3, <1>4 DEF ScanTyped
<1>6. HeldAgrees(t.records, t.held) /\ DigestsTold(t.records, t.unhashed)
  BY <1>1, <1>4, Zenon
<1>7. CopiesTold(t)
  BY <1>1, <1>3, <1>4 DEF CopiesTold
<1>8. EachIsHeard(t)
  <2>1. DirsOf(<<>>) = {}
    BY DEF DirsOf, Range
  <2> QED  BY <1>1, <1>3, <1>4, <2>1 DEF EachIsHeard, Accounted, ToCome
<1>9. t.at # "plan"
  BY <1>4
<1> QED  BY <1>2, <1>5, <1>6, <1>7, <1>8, <1>9, Zenon DEF ScanGood

(* The next file of a folder, whether its digest reads or not.              *)
LEMMA ConsiderKeeps ==
    ASSUME ScanInv, ConsiderFile \/ ConsiderFaulty
    PROVE  ScanGood(scan') /\ scan'.at # "plan"
<1>1. ScanTyped(scan) /\ want \in Wants
  BY Zenon DEF ScanInv, ScanGood
<1>2. PICK folder, name : folder = scan.plan[1] /\ name = NextOf(scan.left)
  OBVIOUS
<1>3. /\ scan.at = "walk" /\ scan.left # {}
      /\ \/ \E hashed \in BOOLEAN : scan' = Considered(scan, folder, name, hashed)
         \/ scan' = Told(scan, "unusable", folder, name)
  BY <1>2, Zenon DEF ConsiderFile, ConsiderFaulty
<1>4. name \in scan.left
  BY <1>1, <1>2, <1>3, NextIsLeft, Zenon DEF ScanTyped
<1>5. folder \in Range(PlanFolders)
  BY <1>1, <1>2, <1>3, TheFirstFolder, Zenon DEF ScanTyped
<1>6. CASE \E hashed \in BOOLEAN : scan' = Considered(scan, folder, name, hashed)
  BY <1>2, <1>3, <1>4, <1>5, <1>6, ConsideredKeeps, Zenon
<1>7. CASE scan' = Told(scan, "unusable", folder, name)
  <2>1. PICK reason \in SkipReasons \ {"too many"} : reason = "unusable"
    BY DEF SkipReasons
  <2>2. reason # "duplicate"
    BY <2>1
  <2>3. ScanGood(Told(scan, reason, folder, name)) /\ Told(scan, reason, folder, name).at # "plan"
    BY <1>2, <1>3, <1>4, <1>5, <2>2, ToldStays, Zenon
  <2> QED  BY <1>7, <2>1, <2>3, Zenon
<1> QED  BY <1>3, <1>6, <1>7, Zenon

LEMMA ScanInit ==
    SaveScanInit => ScanInv
<1> SUFFICES ASSUME SaveScanInit PROVE ScanInv
  OBVIOUS
<1>1. want \in Wants /\ stayed = files /\ stirs = 0 /\ scan = FreshScan /\ \A file \in files : file.name \in FileNames
  BY DEF SaveScanInit
<1>2. /\ IsScan(scan) /\ scan.at = "plan" /\ scan.plan = <<>> /\ scan.left = {} /\ scan.records = <<>> /\ scan.held = <<>>
      /\ scan.skips = {} /\ scan.unhashed = {} /\ scan.stopped = FALSE
  BY <1>1 DEF FreshScan, IsScan
<1>3. ScanTyped(scan)
  <2>1. <<>> \in Seq(ScanRecords) /\ <<>> \in Seq(Range(PlanFolders)) /\ Len(<<>>) <= kMaxSaves
    BY SaveScanConstants
  <2> QED  BY <1>2, <2>1 DEF ScanTyped
<1>4. HeldAgrees(scan.records, scan.held)
  <2>1. DOMAIN <<>> = {} /\ Len(<<>>) = 0
    OBVIOUS
  <2> QED  BY <1>2, <2>1 DEF HeldAgrees
<1>5. DigestsTold(scan.records, scan.unhashed)
  <2>1. Range(<<>>) = {}
    BY DEF Range
  <2> QED  BY <1>2, <2>1 DEF DigestsTold
<1>6. CopiesTold(scan) /\ EachIsHeard(scan)
  BY <1>2 DEF CopiesTold, EachIsHeard
<1>7. stirs \in 0 .. MaxStirs
  BY <1>1, SaveScanConstants
<1> QED  BY <1>1, <1>3, <1>4, <1>5, <1>6, <1>7, Zenon DEF ScanInv, ScanGood

LEMMA ScanStep ==
    ScanInv /\ [SaveScanNext]_scanVars => ScanInv'
<1> SUFFICES ASSUME ScanInv, [SaveScanNext]_scanVars PROVE ScanInv'
  OBVIOUS
<1>1. /\ ScanGood(scan) /\ want \in Wants /\ stayed \subseteq files /\ stirs \in 0 .. MaxStirs
      /\ \A file \in files : file.name \in FileNames
      /\ (scan.at = "plan" => scan = FreshScan)
  BY Zenon DEF ScanInv
<1>2. SUFFICES /\ want' = want /\ stayed' \subseteq files' /\ stirs' \in 0 .. MaxStirs
               /\ \A file \in files' : file.name \in FileNames
               /\ (scan'.at = "plan" => scan' = FreshScan)
               /\ stayed' \subseteq stayed /\ ScanGood(scan')
  <2>1. FreshScan' = FreshScan
    BY DEF FreshScan
  <2> QED  BY <1>1, <2>1, WhatIsGoodStays, Zenon DEF ScanInv
<1>3. ASSUME UNCHANGED want, UNCHANGED files, UNCHANGED stayed, UNCHANGED stirs, ScanGood(scan'), scan'.at # "plan"
      PROVE  /\ want' = want /\ stayed' \subseteq files' /\ stirs' \in 0 .. MaxStirs
             /\ \A file \in files' : file.name \in FileNames
             /\ (scan'.at = "plan" => scan' = FreshScan)
             /\ stayed' \subseteq stayed /\ ScanGood(scan')
  BY <1>1, <1>3, Zenon
<1>4. CASE Plan
  BY <1>3, <1>4, PlanKeeps, Zenon DEF Plan
<1>5. CASE ListFolder
  <2>1. want' = want /\ files' = files /\ stayed' = stayed /\ stirs' \in 0 .. MaxStirs
    <3>1. /\ want' = want /\ files' = files /\ stayed' = stayed
          /\ stirs' = stirs \/ (stirs < MaxStirs /\ stirs' = stirs + 1)
      BY <1>5, Zenon DEF ListFolder
    <3> QED  BY <1>1, <3>1, SaveScanConstants
  <2> QED  BY <1>1, <1>5, <2>1, ListKeeps, Zenon
<1>6. CASE FolderDone
  BY <1>3, <1>6, FolderDoneKeeps, Zenon DEF FolderDone
<1>7. CASE ScanDone
  BY <1>3, <1>7, ScanDoneKeeps, Zenon DEF ScanDone
<1>8. CASE ConsiderFile
  BY <1>3, <1>8, ConsiderKeeps, Zenon DEF ConsiderFile
<1>9. CASE ConsiderFaulty
  <2>1. want' = want /\ files' = files /\ stayed' = stayed /\ stirs' \in 0 .. MaxStirs
    BY <1>1, <1>9, SaveScanConstants DEF ConsiderFaulty
  <2> QED  BY <1>1, <1>9, <2>1, ConsiderKeeps, Zenon
<1>10. CASE FileAppears
  <2>1. /\ want' = want /\ stayed' = stayed /\ scan' = scan /\ files \subseteq files'
        /\ \A file \in files' : file.name \in FileNames
    BY <1>1, <1>10 DEF FileAppears
  <2>2. stirs' \in 0 .. MaxStirs
    BY <1>1, <1>10, SaveScanConstants DEF FileAppears
  <2> QED  BY <1>1, <2>1, <2>2, Zenon
<1>11. CASE FileGoes
  <2>1. /\ want' = want /\ scan' = scan /\ stayed' \subseteq files' /\ stayed' \subseteq stayed
        /\ \A file \in files' : file.name \in FileNames
    BY <1>1, <1>11 DEF FileGoes
  <2>2. stirs' \in 0 .. MaxStirs
    BY <1>1, <1>11, SaveScanConstants DEF FileGoes
  <2> QED  BY <1>1, <2>1, <2>2, Zenon
<1>12. CASE UNCHANGED scanVars
  BY <1>1, <1>12, Zenon DEF scanVars
<1> QED  BY <1>4, <1>5, <1>6, <1>7, <1>8, <1>9, <1>10, <1>11, <1>12, Zenon DEF SaveScanNext

(* What holds of every scan.                                                *)
THEOREM ScanInvariance == SaveScanSpec => []ScanInv
  BY ScanInit, ScanStep, PTL DEF SaveScanSpec

LEMMA NoKeyTwice ==
    ScanInv => PlayedCopyIsSynced
<1> SUFFICES ASSUME ScanInv PROVE PlayedCopyIsSynced
  OBVIOUS
<1>1. HeldAgrees(scan.records, scan.held) /\ CopiesTold(scan)
  BY Zenon DEF ScanInv, ScanGood
<1>2. \A i, j \in 1 .. Len(scan.records) : scan.records[i].key = scan.records[j].key => i = j
  BY <1>1, Zenon DEF HeldAgrees
<1> QED  BY <1>1, <1>2, Zenon DEF PlayedCopyIsSynced, CopiesTold, Records

LEMMA NothingUnsaid ==
    ScanInv => NothingIsDroppedUnsaid
<1> SUFFICES ASSUME ScanInv, scan.at = "done" PROVE NothingIsDroppedUnsaid
  BY Zenon DEF NothingIsDroppedUnsaid
<1>1. EachIsHeard(scan) /\ DigestsTold(scan.records, scan.unhashed)
  BY Zenon DEF ScanInv, ScanGood
<1>2. ASSUME NEW file \in stayed
      PROVE  \/ scan.stopped
             \/ file.dir \notin {f.dir : f \in Range(PlanFolders)}
             \/ PassedOver(FolderAt(file.dir), file.name)
             \/ \E r \in Records : r.dir = file.dir /\ r.name = file.name
             \/ \E s \in scan.skips : s.dir = file.dir /\ s.name \in {file.name, NoName}
  <2>1. ~ToCome(scan, file)
    BY DEF ToCome
  <2>2. scan.at # "plan"
    OBVIOUS
  <2> QED  BY <1>1, <2>1, <2>2, Zenon DEF EachIsHeard, DirsOf, Accounted, Records
<1> QED  BY <1>1, <1>2, Zenon DEF NothingIsDroppedUnsaid, DigestsTold, Records

(* What a scan holds keeps its type, and never more records than the tick   *)
(* has room for.                                                            *)
THEOREM ScanTypeCorrect == SaveScanSpec => []SaveScanTypeOK
<1>1. ScanInv => SaveScanTypeOK
  <2> SUFFICES ASSUME ScanInv PROVE SaveScanTypeOK
    OBVIOUS
  <2>1. ScanTyped(scan)
    BY Zenon DEF ScanInv, ScanGood
  <2> QED  BY <2>1 DEF ScanInv, ScanTyped, IsScan, SaveScanTypeOK
<1> QED  BY <1>1, ScanInvariance, PTL

(* Two records of a scan never share a key, and the copy that was left out  *)
(* for one is never the one that is played while the record is not.         *)
THEOREM ThePlayedCopyIsSynced == SaveScanSpec => []PlayedCopyIsSynced
  BY NoKeyTwice, ScanInvariance, PTL

(* A scan that ends has a record or a word for every file that stayed.      *)
THEOREM AScanSaysEverything == SaveScanSpec => []NothingIsDroppedUnsaid
  BY NothingUnsaid, ScanInvariance, PTL

=============================================================================
