--------------------------- MODULE SaveCardProofs ---------------------------
(* For every set of contents, of backup names, and number of faults.         *)
EXTENDS SaveCard, TLAPS

-----------------------------------------------------------------------------
(* What the calls on a folder return.                                       *)

LEMMA FileFacts ==
  /\ Absent \in Files
  /\ \A b \in Bytes \cup {Junk, NoBytes} : Settled(b) \in Files /\ Loose(b) \in Files
  /\ \A f \in Files : f.bytes \in Bytes \cup {Junk, NoBytes} /\ f.synced \in BOOLEAN
BY DEF Files, Absent, Settled, Loose

LEMMA PutFolder ==
  ASSUME NEW D, NEW F \in [D -> Files], NEW n \in D, NEW f \in Files
  PROVE  /\ Put(F, n, f) \in [D -> Files]
         /\ \A k \in D : Put(F, n, f)[k] = IF k = n THEN f ELSE F[k]
BY DEF Put

LEMMA MoveFolder ==
  ASSUME NEW D, NEW F \in [D -> Files], NEW a \in D, NEW b \in D, a # b
  PROVE  /\ Move(F, a, b) \in [D -> Files]
         /\ \A k \in D : Move(F, a, b)[k] = IF k = a THEN Absent ELSE IF k = b THEN F[a] ELSE F[k]
BY FileFacts DEF Move

LEMMA SettleFolder ==
  ASSUME NEW D, NEW F \in [D -> Files], NEW n \in D
  PROVE  /\ Settle(F, n) \in [D -> Files]
         /\ \A k \in D : Settle(F, n)[k] = IF k = n THEN Settled(F[n].bytes) ELSE F[k]
<1>1. Settled(F[n].bytes) \in Files
  BY FileFacts
<1> QED BY <1>1 DEF Settle

-----------------------------------------------------------------------------
(* What a call does to a folder, name by name.                              *)

CardTouches(N) ==
  /\ card' \in [Names -> Files] /\ cardHist' \subseteq [Names -> Files] /\ card' \in cardHist'
  /\ \A k \in Names \ N : card'[k] = card[k]
  /\ \A m \in cardHist' : \E h \in cardHist \cup {card'} : m["save"] = h["save"] /\ m["old"] = h["old"]

BackupTouches(N) ==
  /\ backup' \in [BackupNames -> Files] /\ backupHist' \subseteq [BackupNames -> Files]
  /\ backup' \in backupHist'
  /\ \A k \in BackupNames \ N : backup'[k] = backup[k]
  /\ \A m \in backupHist' : \E h \in backupHist \cup {backup'} : \A s \in Slots : m[s] = h[s]

LEMMA NamesFacts == "save" \in Names /\ "old" \in Names /\ "tmp" \in Names
                    /\ Names \ {"tmp"} = {"save", "old"}
BY DEF Names

LEMMA BackupNamesFacts == "tmp" \in BackupNames /\ \A s \in Slots : s \in BackupNames /\ s # "tmp"
BY SlotsAssumption DEF BackupNames

LEMMA CardSame ==
  ASSUME TypeOK, CurrentIn, UNCHANGED <<card, cardHist>>
  PROVE  CardTouches({})
BY DEF TypeOK, CurrentIn, CardTouches

LEMMA BackupSame ==
  ASSUME TypeOK, CurrentIn, UNCHANGED <<backup, backupHist>>
  PROVE  BackupTouches({})
BY DEF TypeOK, CurrentIn, BackupTouches

LEMMA CardPut ==
  ASSUME TypeOK, NEW n \in Names, NEW f \in Files, Card(Put(card, n, f))
  PROVE  CardTouches({n}) /\ card'[n] = f /\ cardHist' = cardHist \cup {card'}
<1>1. card' = Put(card, n, f) /\ cardHist' = cardHist \cup {card'}
  BY DEF Card
<1>2. card \in [Names -> Files]
  BY DEF TypeOK
<1>3. card' \in [Names -> Files] /\ \A k \in Names : card'[k] = IF k = n THEN f ELSE card[k]
  BY <1>1, <1>2, PutFolder
<1> QED BY <1>1, <1>3 DEF CardTouches, TypeOK

LEMMA BackupPut ==
  ASSUME TypeOK, NEW n \in BackupNames, NEW f \in Files, Backup(Put(backup, n, f))
  PROVE  BackupTouches({n}) /\ backup'[n] = f /\ backupHist' = backupHist \cup {backup'}
<1>1. backup' = Put(backup, n, f) /\ backupHist' = backupHist \cup {backup'}
  BY DEF Backup
<1>2. backup' \in [BackupNames -> Files]
      /\ \A k \in BackupNames : backup'[k] = IF k = n THEN f ELSE backup[k]
  BY <1>1, PutFolder DEF TypeOK
<1> QED BY <1>1, <1>2 DEF BackupTouches, TypeOK

LEMMA CardMove ==
  ASSUME TypeOK, NEW a \in Names, NEW b \in Names, a # b, Card(Move(card, a, b))
  PROVE  /\ CardTouches({a, b}) /\ cardHist' = cardHist \cup {card'}
         /\ card'[a] = Absent /\ card'[b] = card[a]
<1>1. card' = Move(card, a, b) /\ cardHist' = cardHist \cup {card'}
  BY DEF Card
<1>2. card' \in [Names -> Files]
      /\ \A k \in Names : card'[k] = IF k = a THEN Absent ELSE IF k = b THEN card[a] ELSE card[k]
  BY <1>1, MoveFolder DEF TypeOK
<1> QED BY <1>1, <1>2 DEF CardTouches, TypeOK

LEMMA BackupMove ==
  ASSUME TypeOK, NEW s \in Slots, Backup(Move(backup, "tmp", s))
  PROVE  /\ BackupTouches({"tmp", s}) /\ backupHist' = backupHist \cup {backup'}
         /\ backup'["tmp"] = Absent /\ backup'[s] = backup["tmp"]
<1>1. backup' = Move(backup, "tmp", s) /\ backupHist' = backupHist \cup {backup'}
  BY DEF Backup
<1>2. backup' \in [BackupNames -> Files]
      /\ \A k \in BackupNames :
           backup'[k] = IF k = "tmp" THEN Absent ELSE IF k = s THEN backup["tmp"] ELSE backup[k]
  BY <1>1, MoveFolder, BackupNamesFacts DEF TypeOK
<1> QED BY <1>1, <1>2, BackupNamesFacts DEF BackupTouches, TypeOK

LEMMA CardSettle ==
  ASSUME TypeOK, CurrentIn,
         card' = Settle(card, "tmp"), cardHist' = SettleTmp(cardHist, card["tmp"])
  PROVE  CardTouches({"tmp"}) /\ card'["tmp"] = Settled(card["tmp"].bytes)
<1>1. card \in cardHist /\ cardHist \subseteq [Names -> Files]
  BY DEF TypeOK, CurrentIn
<1>2. \A h \in cardHist :
        /\ Settle(h, "tmp") \in [Names -> Files]
        /\ \A k \in Names : Settle(h, "tmp")[k] = IF k = "tmp" THEN Settled(h["tmp"].bytes) ELSE h[k]
  BY <1>1, SettleFolder, NamesFacts
<1>3. cardHist' \subseteq [Names -> Files] /\ card' \in cardHist'
  BY <1>1, <1>2 DEF SettleTmp
<1>4. \A m \in cardHist' : \E h \in cardHist : \A k \in Names \ {"tmp"} : m[k] = h[k]
  BY <1>2 DEF SettleTmp
<1> QED BY <1>1, <1>2, <1>3, <1>4, NamesFacts DEF CardTouches

LEMMA BackupSettle ==
  ASSUME TypeOK, CurrentIn,
         backup' = Settle(backup, "tmp"), backupHist' = SettleTmp(backupHist, backup["tmp"])
  PROVE  BackupTouches({"tmp"}) /\ backup'["tmp"] = Settled(backup["tmp"].bytes)
<1>1. backup \in backupHist /\ backupHist \subseteq [BackupNames -> Files]
  BY DEF TypeOK, CurrentIn
<1>2. \A h \in backupHist :
        /\ Settle(h, "tmp") \in [BackupNames -> Files]
        /\ \A k \in BackupNames : Settle(h, "tmp")[k] = IF k = "tmp" THEN Settled(h["tmp"].bytes) ELSE h[k]
  BY <1>1, SettleFolder, BackupNamesFacts
<1>3. backupHist' \subseteq [BackupNames -> Files] /\ backup' \in backupHist'
  BY <1>1, <1>2 DEF SettleTmp
<1>4. \A m \in backupHist' : \E h \in backupHist : \A k \in BackupNames \ {"tmp"} : m[k] = h[k]
  BY <1>2 DEF SettleTmp
<1> QED BY <1>1, <1>2, <1>3, <1>4, BackupNamesFacts DEF BackupTouches

LEMMA CardRemoved ==
  ASSUME TypeOK, CurrentIn, NEW n \in Names, RemoveCard(n)
  PROVE  CardTouches({n}) /\ (Refused \/ Granted)
         /\ (UNCHANGED <<card, cardHist>> \/ (card'[n] = Absent /\ cardHist' = cardHist \cup {card'}))
BY CardPut, CardSame, FileFacts DEF RemoveCard, CardTouches

LEMMA BackupRemoved ==
  ASSUME TypeOK, CurrentIn, NEW n \in BackupNames, RemoveBackup(n)
  PROVE  BackupTouches({n}) /\ (Refused \/ Granted)
         /\ (UNCHANGED <<backup, backupHist>> \/ backup'[n] = Absent)
BY BackupPut, BackupSame, FileFacts DEF RemoveBackup, BackupTouches

-----------------------------------------------------------------------------
(* Types of everything but the folders, and what a step that touches only    *)
(* `.tmp` names keeps.                                                       *)

LocalsOK ==
  /\ pc \in Points /\ op \in Ops /\ want \in Bytes \cup {NoBytes}
  /\ slot \in Slots \cup {NoSlot} /\ replacing \in BOOLEAN /\ rescan \in BOOLEAN
  /\ faults \in 0 .. MaxFaults
  /\ owed \subseteq Bytes /\ raced \in Bytes \cup {NoBytes} /\ deleted \in BOOLEAN

LEMMA StepType ==
  ASSUME NEW p \in Points, TypeOK, Step(p)
  PROVE  /\ pc' \in Points /\ op' \in Ops /\ want' \in Bytes \cup {NoBytes}
         /\ slot' \in Slots \cup {NoSlot} /\ replacing' \in BOOLEAN /\ rescan' \in BOOLEAN
BY DEF TypeOK, Step, Return, frame, Ops, Points

LEMMA FaultType ==
  ASSUME TypeOK, Refused \/ Granted
  PROVE  faults' \in 0 .. MaxFaults
BY FaultsAssumption DEF TypeOK, Refused, Granted

SaveStands ==
  \A n \in cardHist' : \E m \in cardHist : n["save"] = m["save"] /\ n["old"] = m["old"]

LEMMA TmpOnly ==
  ASSUME IInv, CardTouches({"tmp"}), BackupTouches({"tmp"}), LocalsOK'
  PROVE  /\ TypeOK' /\ OnlyWholeSaves' /\ CurrentIn' /\ SaveStands
         /\ \A n \in backupHist' : \E m \in backupHist : \A s \in Slots : n[s] = m[s]
<1>1. TypeOK' /\ CurrentIn'
  BY DEF CardTouches, BackupTouches, LocalsOK, TypeOK, CurrentIn
<1>2. card'["save"] = card["save"] /\ card'["old"] = card["old"] /\ card \in cardHist
  BY NamesFacts DEF CardTouches, IInv, CurrentIn
<1>3. SaveStands
  BY <1>2 DEF SaveStands, CardTouches
<1>4. \A s \in Slots : backup'[s] = backup[s]
  BY BackupNamesFacts DEF BackupTouches
<1>5. \A n \in backupHist' : \E m \in backupHist : \A s \in Slots : n[s] = m[s]
  BY <1>4 DEF BackupTouches, IInv, CurrentIn
<1>6. OnlyWholeSaves'
  BY <1>3, <1>5 DEF IInv, OnlyWholeSaves, SaveStands
<1> QED BY <1>1, <1>3, <1>5, <1>6

-----------------------------------------------------------------------------
(* What a step that only adds to `.backup/`, or withdraws its own pending    *)
(* copy, keeps; and what follows for a step that leaves the save and its     *)
(* `.old` as they were.                                                      *)

BackupsStand ==
  /\ \A n \in backupHist' : \E m \in backupHist :
       \A s \in Slots \ (Pending \cup Pending') : n[s] = m[s]
  /\ \A s \in Pending' : s \in Pending \/ ~Exists(backup[s])

Recovers ==
  /\ \A n \in cardHist' : \E m \in cardHist : Recovered(n) = Recovered(m)
  /\ \A n \in cardHist' : ~Exists(n["save"]) /\ n["old"].bytes \in Owed => Kept(n["old"].bytes)

LEMMA KeptStays ==
  ASSUME BackupsStand, CurrentIn, NEW b \in Bytes, Kept(b)
  PROVE  Kept(b)'
<1>1. PICK s \in Slots \ Pending : \A n \in backupHist : n[s] = Settled(b)
  BY DEF Kept
<1>2. Exists(backup[s])
  BY <1>1, BytesAssumption DEF CurrentIn, Exists, Settled
<1>3. s \notin Pending'
  BY <1>1, <1>2 DEF BackupsStand
<1>4. \A n \in backupHist' : n[s] = Settled(b)
  BY <1>1, <1>3 DEF BackupsStand
<1> QED BY <1>1, <1>3, <1>4 DEF Kept, Settled

LEMMA QuietStep ==
  ASSUME IInv, Recovers, BackupsStand, owed' = owed, raced' = raced
  PROVE  OwedIsSafe' /\ AsideIsKept'
<1>1. \A b \in Owed : Kept(b) => Kept(b)'
  BY KeptStays, BytesAssumption DEF IInv, TypeOK, Owed
<1>2. Owed' = Owed
  BY DEF Owed
<1>3. OwedIsSafe'
  <2> SUFFICES ASSUME NEW b \in Owed
               PROVE  (\A m \in cardHist' : Recovered(m) = Settled(b)) \/ Kept(b)'
    BY <1>2 DEF OwedIsSafe, Recovered, Exists, Settled
  <2>1. CASE Kept(b)
    BY <2>1, <1>1
  <2>2. CASE \A m \in cardHist : Recovered(m) = Settled(b)
    BY <2>2 DEF Recovers
  <2> QED BY <2>1, <2>2 DEF IInv, OwedIsSafe
<1>4. AsideIsKept'
  <2> SUFFICES ASSUME NEW n \in cardHist', ~Exists(n["save"]), n["old"].bytes \in Owed
               PROVE  Kept(n["old"].bytes)'
    BY <1>2 DEF AsideIsKept, Exists
  <2> QED BY <1>1 DEF Recovers
<1> QED BY <1>3, <1>4

LEMMA StandsRecovers ==
  ASSUME IInv, SaveStands
  PROVE  Recovers
BY DEF IInv, AsideIsKept, SaveStands, Recovers, Recovered

LEMMA WholeFacts ==
  ASSUME IInv
  PROVE  /\ card["save"].bytes # Junk /\ card["save"].synced
         /\ card["old"].bytes # Junk /\ card["old"].synced
         /\ Absent.bytes # Junk /\ Absent.synced /\ ~Exists(Absent)
BY BytesAssumption DEF IInv, CurrentIn, OnlyWholeSaves, Absent, Settled, Exists

LEMMA Widen ==
  /\ CardTouches({}) => \A n : CardTouches({n})
  /\ BackupTouches({}) => \A n : BackupTouches({n})
BY DEF CardTouches, BackupTouches

LEMMA StepLocals ==
  ASSUME TypeOK, NEW p \in Points, Step(p), Refused \/ Granted, UNCHANGED ghosts
  PROVE  LocalsOK' /\ pc' = p /\ owed' = owed /\ raced' = raced
<1>1. pc' = p /\ owed' = owed /\ raced' = raced /\ deleted' = deleted
  BY DEF Step, ghosts
<1> QED BY <1>1, StepType, FaultType DEF LocalsOK, TypeOK

\* A step that touches nothing but `.tmp` names, and makes no backup provisional.
LEMMA TmpStep ==
  ASSUME IInv, CardTouches({"tmp"}), BackupTouches({"tmp"}), LocalsOK',
         owed' = owed, raced' = raced, Pending' \subseteq Pending
  PROVE  /\ TypeOK' /\ OnlyWholeSaves' /\ CurrentIn' /\ OwedIsSafe' /\ AsideIsKept'
         /\ card'["save"] = card["save"] /\ card'["old"] = card["old"]
         /\ \A s \in Slots : backup'[s] = backup[s]
         /\ \A b \in Bytes : Kept(b) => Kept(b)'
<1>1. /\ TypeOK' /\ OnlyWholeSaves' /\ CurrentIn' /\ SaveStands
      /\ \A n \in backupHist' : \E m \in backupHist : \A s \in Slots : n[s] = m[s]
  BY TmpOnly
<1>2. BackupsStand
  BY <1>1 DEF BackupsStand
<1>3. OwedIsSafe' /\ AsideIsKept'
  BY <1>1, <1>2, StandsRecovers, QuietStep
<1>4. card'["save"] = card["save"] /\ card'["old"] = card["old"]
  BY NamesFacts DEF CardTouches
<1>5. \A s \in Slots : backup'[s] = backup[s]
  BY BackupNamesFacts DEF BackupTouches
<1>6. \A b \in Bytes : Kept(b) => Kept(b)'
  BY <1>2, KeptStays DEF IInv
<1> QED BY <1>1, <1>3, <1>4, <1>5, <1>6

-----------------------------------------------------------------------------
(* Each action keeps the invariant.  First the ones that touch only `.tmp`   *)
(* names, or no name at all.                                                 *)

LEMMA SweepTmpKeeps == ASSUME IInv, SweepTmp PROVE IInv'
<1> USE DEF SweepTmp
<1>1. CardTouches({"tmp"}) /\ BackupTouches({"tmp"})
  BY CardRemoved, BackupSame, Widen, NamesFacts, BackupNamesFacts DEF IInv
<1>2. LocalsOK' /\ owed' = owed /\ raced' = raced /\ pc' \in {"sweepBackup"}
  BY CardRemoved, NamesFacts, StepLocals DEF IInv, Points
<1>3. Pending' \subseteq Pending
  BY <1>2 DEF Pending
<1>4. /\ TypeOK' /\ OnlyWholeSaves' /\ CurrentIn' /\ OwedIsSafe' /\ AsideIsKept'
      /\ card'["save"] = card["save"] /\ card'["old"] = card["old"]
      /\ \A s \in Slots : backup'[s] = backup[s]
      /\ \A b \in Bytes : Kept(b) => Kept(b)'
  BY <1>1, <1>2, <1>3, TmpStep
<1>5. DisplacedIsKept'
  BY <1>2, <1>4 DEF DisplacedIsKept, InWindow
<1>6. BackupInHand'
  BY <1>2, <1>4 DEF IInv, BackupInHand, Exists, Step, Return, frame
<1>7. StagedInHand'
  BY <1>2, <1>4 DEF IInv, TypeOK, StagedInHand, Exists, Step, Return, frame
<1> QED BY <1>4, <1>5, <1>6, <1>7 DEF IInv

LEMMA SweepBackupKeeps == ASSUME IInv, SweepBackup PROVE IInv'
<1> USE DEF SweepBackup
<1>1. CardTouches({"tmp"}) /\ BackupTouches({"tmp"})
  BY BackupRemoved, CardSame, Widen, NamesFacts, BackupNamesFacts DEF IInv
<1>2. LocalsOK' /\ owed' = owed /\ raced' = raced /\ pc' \in {"idle", "plan"}
  BY BackupRemoved, BackupNamesFacts, StepLocals DEF IInv, Points
<1>3. Pending' \subseteq Pending
  BY <1>2 DEF Pending
<1>4. /\ TypeOK' /\ OnlyWholeSaves' /\ CurrentIn' /\ OwedIsSafe' /\ AsideIsKept'
      /\ card'["save"] = card["save"] /\ card'["old"] = card["old"]
      /\ \A s \in Slots : backup'[s] = backup[s]
      /\ \A b \in Bytes : Kept(b) => Kept(b)'
  BY <1>1, <1>2, <1>3, TmpStep
<1>5. DisplacedIsKept'
  BY <1>2, <1>4 DEF DisplacedIsKept, InWindow
<1>6. BackupInHand'
  BY <1>2, <1>4 DEF IInv, BackupInHand, Exists, Step, Return, frame
<1>7. StagedInHand'
  BY <1>2, <1>4 DEF IInv, TypeOK, StagedInHand, Exists, Step, Return, frame
<1> QED BY <1>4, <1>5, <1>6, <1>7 DEF IInv

LEMMA PlanNothingKeeps == ASSUME IInv, PlanNothing PROVE IInv'
<1> USE DEF PlanNothing
<1>1. CardTouches({"tmp"}) /\ BackupTouches({"tmp"})
  BY CardSame, BackupSame, Widen, NamesFacts, BackupNamesFacts DEF IInv, folders
<1>2. LocalsOK' /\ owed' = owed /\ raced' = raced /\ pc' \in {"idle"}
  BY StepLocals DEF IInv, Points, Granted
<1>3. Pending' \subseteq Pending
  BY <1>2 DEF Pending
<1>4. /\ TypeOK' /\ OnlyWholeSaves' /\ CurrentIn' /\ OwedIsSafe' /\ AsideIsKept'
      /\ card'["save"] = card["save"] /\ card'["old"] = card["old"]
      /\ \A s \in Slots : backup'[s] = backup[s]
      /\ \A b \in Bytes : Kept(b) => Kept(b)'
  BY <1>1, <1>2, <1>3, TmpStep
<1>5. DisplacedIsKept'
  BY <1>2, <1>4 DEF DisplacedIsKept, InWindow
<1>6. BackupInHand'
  BY <1>2, <1>4 DEF IInv, BackupInHand, Exists, Step, Return, frame
<1>7. StagedInHand'
  BY <1>2, <1>4 DEF IInv, TypeOK, StagedInHand, Exists, Step, Return, frame
<1> QED BY <1>4, <1>5, <1>6, <1>7 DEF IInv

LEMMA PlanDownloadKeeps == ASSUME IInv, PlanDownload PROVE IInv'
<1> USE DEF PlanDownload
<1>1. CardTouches({"tmp"}) /\ BackupTouches({"tmp"})
  BY CardSame, BackupSame, Widen, NamesFacts, BackupNamesFacts DEF IInv, folders
<1>2. LocalsOK' /\ owed' = owed /\ raced' = raced /\ pc' \in {"fetch"}
  BY DEF IInv, Points, TypeOK, LocalsOK, ghosts, Ops
<1>3. Pending' \subseteq Pending
  BY <1>2 DEF Pending
<1>4. /\ TypeOK' /\ OnlyWholeSaves' /\ CurrentIn' /\ OwedIsSafe' /\ AsideIsKept'
      /\ card'["save"] = card["save"] /\ card'["old"] = card["old"]
      /\ \A s \in Slots : backup'[s] = backup[s]
      /\ \A b \in Bytes : Kept(b) => Kept(b)'
  BY <1>1, <1>2, <1>3, TmpStep
<1>5. DisplacedIsKept'
  BY <1>2, <1>4 DEF DisplacedIsKept, InWindow
<1>6. BackupInHand'
  BY <1>2, <1>4 DEF IInv, BackupInHand, Exists, Step, Return, frame
<1>7. StagedInHand'
  BY <1>2, <1>4 DEF IInv, TypeOK, StagedInHand, Exists, Step, Return, frame
<1> QED BY <1>4, <1>5, <1>6, <1>7 DEF IInv

LEMMA PlanDeleteKeeps == ASSUME IInv, PlanDelete PROVE IInv'
<1> USE DEF PlanDelete
<1>1. CardTouches({"tmp"}) /\ BackupTouches({"tmp"})
  BY CardSame, BackupSame, Widen, NamesFacts, BackupNamesFacts DEF IInv, folders
<1>2. LocalsOK' /\ owed' = owed /\ raced' = raced /\ pc' \in {"copy"}
  BY DEF IInv, Points, TypeOK, LocalsOK, ghosts, Ops
<1>3. Pending' \subseteq Pending
  BY <1>2 DEF Pending
<1>4. /\ TypeOK' /\ OnlyWholeSaves' /\ CurrentIn' /\ OwedIsSafe' /\ AsideIsKept'
      /\ card'["save"] = card["save"] /\ card'["old"] = card["old"]
      /\ \A s \in Slots : backup'[s] = backup[s]
      /\ \A b \in Bytes : Kept(b) => Kept(b)'
  BY <1>1, <1>2, <1>3, TmpStep
<1>5. DisplacedIsKept'
  BY <1>2, <1>4 DEF DisplacedIsKept, InWindow
<1>6. BackupInHand'
  BY <1>2, <1>4 DEF IInv, BackupInHand, Exists, Step, Return, frame
<1>7. StagedInHand'
  BY <1>2, <1>4 DEF IInv, TypeOK, StagedInHand, Exists, Step, Return, frame
<1> QED BY <1>4, <1>5, <1>6, <1>7 DEF IInv

LEMMA FetchBodyKeeps == ASSUME IInv, FetchBody PROVE IInv'
<1> USE DEF FetchBody
<1>1. CardTouches({"tmp"}) /\ BackupTouches({"tmp"})
  BY CardPut, CardSame, BackupSame, FileFacts, Widen, NamesFacts, BackupNamesFacts DEF IInv
<1>2. LocalsOK' /\ owed' = owed /\ raced' = raced /\ pc' \in {"land", "discard"}
  BY StepLocals DEF IInv, Points
<1>3. Pending' \subseteq Pending
  BY <1>2 DEF Pending
<1>4. /\ TypeOK' /\ OnlyWholeSaves' /\ CurrentIn' /\ OwedIsSafe' /\ AsideIsKept'
      /\ card'["save"] = card["save"] /\ card'["old"] = card["old"]
      /\ \A s \in Slots : backup'[s] = backup[s]
      /\ \A b \in Bytes : Kept(b) => Kept(b)'
  BY <1>1, <1>2, <1>3, TmpStep
<1>5. DisplacedIsKept'
  BY <1>2, <1>4 DEF DisplacedIsKept, InWindow
<1>6. BackupInHand'
  BY <1>2, <1>4 DEF IInv, BackupInHand, Exists, Step, Return, frame
<1>7. StagedInHand'
  BY <1>2, <1>4 DEF IInv, TypeOK, StagedInHand, Exists, Step, Return, frame
<1> QED BY <1>4, <1>5, <1>6, <1>7 DEF IInv

LEMMA FetchLandKeeps == ASSUME IInv, FetchLand PROVE IInv'
<1> USE DEF FetchLand
<1>1. CardTouches({"tmp"}) /\ BackupTouches({"tmp"})
  BY CardSettle, CardSame, BackupSame, Widen, NamesFacts, BackupNamesFacts DEF IInv
<1>2. LocalsOK' /\ owed' = owed /\ raced' = raced /\ pc' \in {"verify", "discard"}
  BY StepLocals DEF IInv, Points
<1>3. Pending' \subseteq Pending
  BY <1>2 DEF Pending
<1>4. /\ TypeOK' /\ OnlyWholeSaves' /\ CurrentIn' /\ OwedIsSafe' /\ AsideIsKept'
      /\ card'["save"] = card["save"] /\ card'["old"] = card["old"]
      /\ \A s \in Slots : backup'[s] = backup[s]
      /\ \A b \in Bytes : Kept(b) => Kept(b)'
  BY <1>1, <1>2, <1>3, TmpStep
<1>5. DisplacedIsKept'
  BY <1>2, <1>4 DEF DisplacedIsKept, InWindow
<1>6. BackupInHand'
  BY <1>2, <1>4 DEF IInv, BackupInHand, Exists, Step, Return, frame
<1>a. pc' = "verify" => card'["tmp"].synced
  BY CardSettle DEF IInv, Step, Settled
<1>7. StagedInHand'
  BY <1>2, <1>4, <1>a DEF IInv, TypeOK, StagedInHand, Exists, Step, Return, frame
<1> QED BY <1>4, <1>5, <1>6, <1>7 DEF IInv

LEMMA FetchVerifyKeeps == ASSUME IInv, FetchVerify PROVE IInv'
<1> USE DEF FetchVerify
<1>1. CardTouches({"tmp"}) /\ BackupTouches({"tmp"})
  BY CardSame, BackupSame, Widen, NamesFacts, BackupNamesFacts DEF IInv, folders
<1>2. LocalsOK' /\ owed' = owed /\ raced' = raced /\ pc' \in {"copy", "discard"}
  BY StepLocals DEF IInv, Points
<1>3. Pending' \subseteq Pending
  BY <1>2 DEF Pending
<1>4. /\ TypeOK' /\ OnlyWholeSaves' /\ CurrentIn' /\ OwedIsSafe' /\ AsideIsKept'
      /\ card'["save"] = card["save"] /\ card'["old"] = card["old"]
      /\ \A s \in Slots : backup'[s] = backup[s]
      /\ \A b \in Bytes : Kept(b) => Kept(b)'
  BY <1>1, <1>2, <1>3, TmpStep
<1>5. DisplacedIsKept'
  BY <1>2, <1>4 DEF DisplacedIsKept, InWindow
<1>6. BackupInHand'
  BY <1>2, <1>4 DEF IInv, BackupInHand, Exists, Step, Return, frame
<1>7. StagedInHand'
  BY <1>2, <1>4 DEF IInv, TypeOK, StagedInHand, folders, Exists, Step, Return, frame
<1> QED BY <1>4, <1>5, <1>6, <1>7 DEF IInv

LEMMA NothingToBackUpKeeps == ASSUME IInv, NothingToBackUp PROVE IInv'
<1> USE DEF NothingToBackUp
<1>1. CardTouches({"tmp"}) /\ BackupTouches({"tmp"})
  BY CardSame, BackupSame, Widen, NamesFacts, BackupNamesFacts DEF IInv, folders
<1>2. LocalsOK' /\ owed' = owed /\ raced' = raced /\ pc' \in {"check", "stage", "idle"}
  BY StepLocals DEF IInv, Points, Granted
<1>3. Pending' \subseteq Pending
  BY <1>2 DEF Pending
<1>4. /\ TypeOK' /\ OnlyWholeSaves' /\ CurrentIn' /\ OwedIsSafe' /\ AsideIsKept'
      /\ card'["save"] = card["save"] /\ card'["old"] = card["old"]
      /\ \A s \in Slots : backup'[s] = backup[s]
      /\ \A b \in Bytes : Kept(b) => Kept(b)'
  BY <1>1, <1>2, <1>3, TmpStep
<1>5. DisplacedIsKept'
  BY <1>2, <1>4 DEF DisplacedIsKept, InWindow
<1>6. BackupInHand'
  BY <1>2, <1>4 DEF IInv, BackupInHand, Exists, Step, Return, frame
<1>7. StagedInHand'
  BY <1>2, <1>4 DEF IInv, TypeOK, StagedInHand, folders, Exists, Step, Return, frame
<1> QED BY <1>4, <1>5, <1>6, <1>7 DEF IInv

LEMMA BackUpCopySyncKeeps == ASSUME IInv, BackUpCopySync PROVE IInv'
<1> USE DEF BackUpCopySync
<1>1. CardTouches({"tmp"}) /\ BackupTouches({"tmp"})
  BY BackupSettle, BackupSame, BackupPut, CardSame, FileFacts, Widen, NamesFacts, BackupNamesFacts DEF IInv, DropCopy
<1>2. LocalsOK' /\ owed' = owed /\ raced' = raced /\ pc' \in {"name", "discard", "idle"}
  BY StepLocals DEF IInv, Points, BackupFailed
<1>3. Pending' \subseteq Pending
  BY <1>2 DEF Pending
<1>4. /\ TypeOK' /\ OnlyWholeSaves' /\ CurrentIn' /\ OwedIsSafe' /\ AsideIsKept'
      /\ card'["save"] = card["save"] /\ card'["old"] = card["old"]
      /\ \A s \in Slots : backup'[s] = backup[s]
      /\ \A b \in Bytes : Kept(b) => Kept(b)'
  BY <1>1, <1>2, <1>3, TmpStep
<1>5. DisplacedIsKept'
  BY <1>2, <1>4 DEF DisplacedIsKept, InWindow
<1>a. pc' = "name" => backup'["tmp"] = Settled(backup["tmp"].bytes) /\ UNCHANGED slot
  BY BackupSettle DEF IInv, Step, BackupFailed, frame
<1>6. BackupInHand'
  BY <1>2, <1>4, <1>a DEF IInv, BackupInHand, Settled, Exists, Step, Return, frame
<1>7. StagedInHand'
  BY <1>2, <1>4 DEF IInv, TypeOK, StagedInHand, Exists, Step, Return, frame
<1> QED BY <1>4, <1>5, <1>6, <1>7 DEF IInv

LEMMA RestoreStageKeeps == ASSUME IInv, RestoreStage PROVE IInv'
<1> USE DEF RestoreStage
<1>a. \A s \in Slots : Exists(backup[s]) => backup[s].bytes \in Bytes /\ Loose(backup[s].bytes) \in Files
  BY FileFacts, BackupNamesFacts DEF IInv, TypeOK, CurrentIn, OnlyWholeSaves, Exists
<1>1. CardTouches({"tmp"}) /\ BackupTouches({"tmp"})
  BY <1>a, CardPut, CardSame, BackupSame, FileFacts, Widen, NamesFacts, BackupNamesFacts DEF IInv
<1>2. LocalsOK' /\ owed' = owed /\ raced' = raced /\ pc' \in {"stageSync", "discard"}
  BY StepLocals DEF IInv, Points
<1>3. Pending' \subseteq Pending
  BY <1>2 DEF Pending
<1>4. /\ TypeOK' /\ OnlyWholeSaves' /\ CurrentIn' /\ OwedIsSafe' /\ AsideIsKept'
      /\ card'["save"] = card["save"] /\ card'["old"] = card["old"]
      /\ \A s \in Slots : backup'[s] = backup[s]
      /\ \A b \in Bytes : Kept(b) => Kept(b)'
  BY <1>1, <1>2, <1>3, TmpStep
<1>5. DisplacedIsKept'
  BY <1>2, <1>4 DEF DisplacedIsKept, InWindow
<1>6. BackupInHand'
  BY <1>2, <1>4 DEF IInv, BackupInHand, Exists, Step, Return, frame
<1>b. ASSUME pc' = "stageSync" PROVE card'["tmp"].bytes \in Bytes
  <2>1. PICK s \in Slots : Exists(backup[s]) /\ Card(Put(card, "tmp", Loose(backup[s].bytes)))
    BY <1>b DEF Step
  <2>2. card'["tmp"] = Loose(backup[s].bytes)
    BY <2>1, <1>a, CardPut, NamesFacts DEF IInv
  <2> QED BY <2>1, <2>2, <1>a DEF Loose
<1>7. StagedInHand'
  BY <1>2, <1>4, <1>b DEF IInv, TypeOK, StagedInHand, Exists, Step, Return, frame
<1> QED BY <1>4, <1>5, <1>6, <1>7 DEF IInv

LEMMA RestoreStageSyncKeeps == ASSUME IInv, RestoreStageSync PROVE IInv'
<1> USE DEF RestoreStageSync
<1>1. CardTouches({"tmp"}) /\ BackupTouches({"tmp"})
  BY CardSettle, CardSame, BackupSame, Widen, NamesFacts, BackupNamesFacts DEF IInv
<1>2. LocalsOK' /\ owed' = owed /\ raced' = raced /\ pc' \in {"check", "discard"}
  BY StepLocals DEF IInv, Points
<1>3. Pending' \subseteq Pending
  BY <1>2 DEF Pending
<1>4. /\ TypeOK' /\ OnlyWholeSaves' /\ CurrentIn' /\ OwedIsSafe' /\ AsideIsKept'
      /\ card'["save"] = card["save"] /\ card'["old"] = card["old"]
      /\ \A s \in Slots : backup'[s] = backup[s]
      /\ \A b \in Bytes : Kept(b) => Kept(b)'
  BY <1>1, <1>2, <1>3, TmpStep
<1>5. DisplacedIsKept'
  BY <1>2, <1>4 DEF DisplacedIsKept, InWindow
<1>a. pc' = "check" => /\ card'["tmp"] = Settled(card["tmp"].bytes)
                       /\ UNCHANGED <<op, slot, backup, backupHist>>
  BY CardSettle DEF IInv, Step, frame
<1>b. op = "restore"
  BY DEF IInv, StagedInHand
<1>6. BackupInHand'
  BY <1>2, <1>4, <1>a, <1>b DEF IInv, BackupInHand, Exists, Step, Return, frame
<1>7. StagedInHand'
  BY <1>2, <1>4, <1>a, <1>b DEF IInv, TypeOK, StagedInHand, Settled, Exists, Step, Return, frame
<1> QED BY <1>4, <1>5, <1>6, <1>7 DEF IInv

LEMMA DiscardKeeps == ASSUME IInv, Discard PROVE IInv'
<1> USE DEF Discard
<1>1. CardTouches({"tmp"}) /\ BackupTouches({"tmp"})
  BY CardRemoved, BackupSame, Widen, NamesFacts, BackupNamesFacts DEF IInv
<1>2. LocalsOK' /\ owed' = owed /\ raced' = raced /\ pc' \in {"idle"}
  BY CardRemoved, NamesFacts, StepLocals DEF IInv, Points
<1>3. Pending' \subseteq Pending
  BY <1>2 DEF Pending
<1>4. /\ TypeOK' /\ OnlyWholeSaves' /\ CurrentIn' /\ OwedIsSafe' /\ AsideIsKept'
      /\ card'["save"] = card["save"] /\ card'["old"] = card["old"]
      /\ \A s \in Slots : backup'[s] = backup[s]
      /\ \A b \in Bytes : Kept(b) => Kept(b)'
  BY <1>1, <1>2, <1>3, TmpStep
<1>5. DisplacedIsKept'
  BY <1>2, <1>4 DEF DisplacedIsKept, InWindow
<1>6. BackupInHand'
  BY <1>2, <1>4 DEF IInv, BackupInHand, Exists, Step, Return, frame
<1>7. StagedInHand'
  BY <1>2, <1>4 DEF IInv, TypeOK, StagedInHand, Exists, Step, Return, frame
<1> QED BY <1>4, <1>5, <1>6, <1>7 DEF IInv

LEMMA BackUpCopyKeeps == ASSUME IInv, BackUpCopy PROVE IInv'
<1> USE DEF BackUpCopy
<1>a. /\ Exists(card["save"]) => card["save"].bytes \in Bytes
      /\ Loose(card["save"].bytes) \in Files
  BY FileFacts, NamesFacts DEF IInv, TypeOK, CurrentIn, OnlyWholeSaves, Exists
<1>1. CardTouches({"tmp"}) /\ BackupTouches({"tmp"})
  BY <1>a, BackupPut, CardSame, BackupSame, Widen, NamesFacts, BackupNamesFacts DEF IInv
<1>2. LocalsOK' /\ owed' = owed /\ raced' = raced /\ pc' \in {"copySync", "discard", "idle"}
  <2>1. CASE pc' = "copySync" /\ Granted /\ slot' \in Slots /\ UNCHANGED <<op, want, replacing, rescan>>
    BY <2>1, FaultType DEF IInv, TypeOK, LocalsOK, ghosts, Points
  <2>2. CASE Step(BackupFailed) /\ (Refused \/ Granted)
    BY <2>2, StepLocals DEF IInv, BackupFailed, Points
  <2> QED BY <2>1, <2>2
<1>3. Pending' \subseteq Pending
  BY <1>2 DEF Pending
<1>4. /\ TypeOK' /\ OnlyWholeSaves' /\ CurrentIn' /\ OwedIsSafe' /\ AsideIsKept'
      /\ card'["save"] = card["save"] /\ card'["old"] = card["old"]
      /\ \A s \in Slots : backup'[s] = backup[s]
      /\ \A b \in Bytes : Kept(b) => Kept(b)'
  BY <1>1, <1>2, <1>3, TmpStep
<1>5. DisplacedIsKept'
  BY <1>2, <1>4 DEF DisplacedIsKept, InWindow
<1>b. ASSUME pc' = "copySync"
      PROVE  slot' \in Slots /\ ~Exists(backup[slot']) /\ backup'["tmp"].bytes \in Bytes
  <2>1. /\ slot' \in Slots /\ ~Exists(backup[slot']) /\ Exists(card["save"])
        /\ Backup(Put(backup, "tmp", Loose(card["save"].bytes)))
    BY <1>b DEF Step, BackupFailed
  <2>2. backup'["tmp"] = Loose(card["save"].bytes)
    BY <2>1, <1>a, BackupPut, BackupNamesFacts DEF IInv
  <2> QED BY <2>1, <2>2, <1>a DEF Loose
<1>6. BackupInHand'
  BY <1>2, <1>4, <1>a, <1>b DEF IInv, BackupInHand, Exists, Step, Return, frame
<1>7. StagedInHand'
  BY <1>2, <1>4 DEF IInv, TypeOK, StagedInHand, Exists, Step, Return, frame
<1> QED BY <1>4, <1>5, <1>6, <1>7 DEF IInv

LEMMA BackUpNameSyncKeeps == ASSUME IInv, BackUpNameSync PROVE IInv'
<1> USE DEF BackUpNameSync
<1>1. CardTouches({"tmp"}) /\ BackupTouches({"tmp"})
  BY CardSame, Widen DEF IInv, TypeOK, CurrentIn, BackupTouches
<1>a. /\ UNCHANGED <<card, op, want, slot>>
      /\ pc' = "compare" => op = "delete" /\ backupHist' = {backup'}
      /\ pc' = "check" => op = "download" /\ backupHist' = {backup'}
      /\ pc' = "stage" => op = "restore" /\ backupHist' = {backup'}
  BY DEF AfterBackUp, Step, frame, IInv, StagedInHand
<1>2. LocalsOK' /\ owed' = owed /\ raced' = raced /\ pc' \in {"check", "stage", "compare", "unname"}
  BY StepLocals DEF IInv, Points, AfterBackUp
<1>3. Pending' \subseteq Pending
  BY <1>2, <1>a DEF Pending
<1>4. /\ TypeOK' /\ OnlyWholeSaves' /\ CurrentIn' /\ OwedIsSafe' /\ AsideIsKept'
      /\ card'["save"] = card["save"] /\ card'["old"] = card["old"]
      /\ \A s \in Slots : backup'[s] = backup[s]
      /\ \A b \in Bytes : Kept(b) => Kept(b)'
  BY <1>1, <1>2, <1>3, TmpStep
<1>5. DisplacedIsKept'
  BY <1>2, <1>4 DEF DisplacedIsKept, InWindow
<1>6. BackupInHand'
  BY <1>2, <1>4, <1>a DEF IInv, BackupInHand, Exists, Step, Return, frame
<1>7. StagedInHand'
  BY <1>2, <1>4, <1>a DEF IInv, TypeOK, StagedInHand, Exists, Step, Return, frame
<1> QED BY <1>4, <1>5, <1>6, <1>7 DEF IInv

LEMMA UnchangedSinceBackupKeeps == ASSUME IInv, UnchangedSinceBackup PROVE IInv'
<1> USE DEF UnchangedSinceBackup
<1>a. /\ UNCHANGED <<card, backup, backupHist>>
      /\ pc' \in {"aside", "remove"} => Unchanged /\ UNCHANGED frame
      /\ pc' = "remove" => op = "delete"
      /\ pc' = "aside" => op # "delete"
  BY DEF Step, CheckFailed, folders
<1>1. CardTouches({"tmp"}) /\ BackupTouches({"tmp"})
  BY CardSame, BackupSame, Widen, NamesFacts, BackupNamesFacts DEF IInv, folders
<1>2. LocalsOK' /\ owed' = owed /\ raced' = raced /\ pc' \in {"aside", "remove", "discard", "idle"}
  BY StepLocals DEF IInv, Points, CheckFailed
<1>3. Pending' \subseteq Pending
  BY <1>2 DEF Pending
<1>4. /\ TypeOK' /\ OnlyWholeSaves' /\ CurrentIn' /\ OwedIsSafe' /\ AsideIsKept'
      /\ card'["save"] = card["save"] /\ card'["old"] = card["old"]
      /\ \A s \in Slots : backup'[s] = backup[s]
      /\ \A b \in Bytes : Kept(b) => Kept(b)'
  BY <1>1, <1>2, <1>3, TmpStep
<1>5. ASSUME pc' \in {"aside", "remove"}, slot # NoSlot
      PROVE  Exists(card["save"]) /\ Kept(card["save"].bytes)
  <2>1. slot \in Slots /\ backupHist = {backup} /\ Exists(backup[slot])
    BY <1>5 DEF IInv, TypeOK, BackupInHand
  <2>2. card["save"].bytes = backup[slot].bytes
    BY <1>5, <1>a DEF Unchanged
  <2>3. backup[slot] \in Files /\ backup[slot].synced
    BY <2>1, BackupNamesFacts DEF IInv, TypeOK, OnlyWholeSaves
  <2>4. backup[slot] = Settled(backup[slot].bytes)
    BY <2>3 DEF Files, Settled
  <2>5. Pending = {}
    BY DEF Pending
  <2> QED BY <2>1, <2>2, <2>4, <2>5 DEF Kept, Exists
<1>8. DisplacedIsKept'
  <2>1. CASE pc' \in {"aside", "remove"} /\ slot = NoSlot
    <3>1. ~Exists(card["save"])
      BY <1>a, <2>1 DEF Unchanged
    <3>2. card["old"].bytes \in Owed => Kept(card["old"].bytes)'
      BY <1>4, <3>1 DEF IInv, CurrentIn, AsideIsKept, Owed, TypeOK
    <3> QED BY <1>2, <1>a, <3>1, <3>2 DEF DisplacedIsKept, Recovered, Owed
  <2>2. CASE pc' \in {"aside", "remove"} /\ slot # NoSlot
    <3>1. Exists(card["save"]) /\ Kept(card["save"].bytes)
      BY <2>2, <1>5
    <3>2. card["save"].bytes \in Bytes
      BY <3>1, NamesFacts, FileFacts, WholeFacts DEF IInv, TypeOK, Exists
    <3>3. Kept(card["save"].bytes)'
      BY <1>4, <3>1, <3>2
    <3> QED BY <1>2, <1>a, <3>1, <3>3 DEF DisplacedIsKept, Recovered
  <2>3. CASE pc' \notin {"aside", "remove"}
    BY <2>3, <1>2 DEF DisplacedIsKept, InWindow
  <2> QED BY <2>1, <2>2, <2>3
<1>6. BackupInHand'
  BY <1>2, <1>4, <1>a DEF IInv, BackupInHand, Exists, Step, Return, frame
<1>7. StagedInHand'
  BY <1>2, <1>4, <1>a DEF IInv, TypeOK, StagedInHand, BackupInHand, Unchanged, Exists, Step, Return, frame
<1> QED BY <1>4, <1>8, <1>6, <1>7 DEF IInv

-----------------------------------------------------------------------------
(* The ones that name or withdraw a backup.                                  *)

\* A step that changes `.backup/` at its own pending name only.
LEMMA BackupStep ==
  ASSUME IInv, UNCHANGED <<card, cardHist>>, BackupTouches({"tmp", slot}), BackupsStand, LocalsOK',
         owed' = owed, raced' = raced,
         slot \in Slots => backup'[slot].bytes # Junk /\ backup'[slot].synced
  PROVE  TypeOK' /\ OnlyWholeSaves' /\ CurrentIn' /\ OwedIsSafe' /\ AsideIsKept'
<1>1. TypeOK' /\ CurrentIn'
  BY DEF BackupTouches, LocalsOK, IInv, TypeOK, CurrentIn
<1>2. SaveStands
  BY DEF SaveStands
<1>3. \A s \in Slots : backup'[s].bytes # Junk /\ backup'[s].synced
  BY BackupNamesFacts DEF BackupTouches, IInv, CurrentIn, OnlyWholeSaves
<1>4. OnlyWholeSaves'
  BY <1>3 DEF IInv, OnlyWholeSaves, BackupTouches
<1> QED BY <1>1, <1>2, <1>4, StandsRecovers, QuietStep

LEMMA BackUpNameKeeps == ASSUME IInv, BackUpName PROVE IInv'
<1> USE DEF BackUpName
<1>1. /\ slot \in Slots /\ ~Exists(backup[slot]) /\ Pending = {}
      /\ backup["tmp"].bytes \in Bytes /\ backup["tmp"].synced
  BY DEF IInv, BackupInHand, Pending
<1>2. CASE Granted /\ Backup(Move(backup, "tmp", slot)) /\ Step("nameSync")
  <2>1. /\ LocalsOK' /\ owed' = owed /\ raced' = raced /\ pc' = "nameSync" /\ UNCHANGED frame
    BY <1>2, StepLocals DEF IInv, Points, Step
  <2>2. /\ BackupTouches({"tmp", slot}) /\ backupHist' = backupHist \cup {backup'}
        /\ backup'[slot] = backup["tmp"]
    BY <1>1, <1>2, BackupMove DEF IInv
  <2>3. Pending' = {slot}
    BY <2>1 DEF Pending, frame
  <2>4. BackupsStand
    BY <1>1, <2>2, <2>3, BackupNamesFacts DEF BackupsStand, BackupTouches, IInv, CurrentIn
  <2>5. TypeOK' /\ OnlyWholeSaves' /\ CurrentIn' /\ OwedIsSafe' /\ AsideIsKept'
    BY <1>1, <2>1, <2>2, <2>4, BackupStep, BytesAssumption
  <2>6. DisplacedIsKept' /\ BackupInHand' /\ StagedInHand'
    BY <1>1, <2>1, <2>2, BytesAssumption
       DEF IInv, DisplacedIsKept, InWindow, BackupInHand, StagedInHand, Exists, frame
  <2> QED BY <2>5, <2>6 DEF IInv
<1>3. CASE Refused /\ DropCopy /\ Step(BackupFailed)
  <2>1. LocalsOK' /\ owed' = owed /\ raced' = raced /\ pc' \in {"discard", "idle"}
    BY <1>3, StepLocals DEF IInv, Points, BackupFailed
  <2>2. CardTouches({"tmp"}) /\ BackupTouches({"tmp"})
    BY <1>3, CardSame, BackupSame, Widen, BackupPut, FileFacts, BackupNamesFacts DEF IInv, DropCopy
  <2>3. Pending' \subseteq Pending
    BY <2>1 DEF Pending
  <2>4. TypeOK' /\ OnlyWholeSaves' /\ CurrentIn' /\ OwedIsSafe' /\ AsideIsKept'
    BY <2>1, <2>2, <2>3, TmpStep
  <2>5. DisplacedIsKept' /\ BackupInHand' /\ StagedInHand'
    BY <1>3, <2>1 DEF IInv, DisplacedIsKept, InWindow, BackupInHand, StagedInHand, Step, Return, frame
  <2> QED BY <2>4, <2>5 DEF IInv
<1> QED BY <1>2, <1>3

\* The withdrawal of the backup this operation made, by BackUpUnname or DeleteCompare.
LEMMA Withdrawn ==
  ASSUME IInv, pc \in {"unname", "compare"}, UNCHANGED <<card, cardHist, ghosts>>,
         Refused \/ Granted,
         Backup(Put(backup, slot, Absent)) \/ UNCHANGED <<backup, backupHist>>,
         NEW p \in {"discard", "idle"}, Step(p)
  PROVE  IInv'
<1>1. slot \in Slots /\ Pending = {slot} /\ slot \in BackupNames
  BY BackupNamesFacts DEF IInv, BackupInHand, Pending
<1>2. /\ BackupTouches({slot})
      /\ UNCHANGED <<backup, backupHist>> \/ backup'[slot] = Absent
  BY <1>1, BackupPut, BackupSame, Widen, FileFacts DEF IInv
<1>3. LocalsOK' /\ pc' = p /\ owed' = owed /\ raced' = raced
  BY <1>2, StepLocals DEF IInv, Points
<1>4. Pending' = {}
  BY <1>3 DEF Pending
<1>5. BackupsStand
  BY <1>1, <1>2, <1>4, BackupNamesFacts DEF BackupsStand, BackupTouches, IInv, CurrentIn
<1>6. BackupTouches({"tmp", slot})
  BY <1>2 DEF BackupTouches
<1>7. backup'[slot].bytes # Junk /\ backup'[slot].synced
  BY <1>1, <1>2, BytesAssumption DEF IInv, CurrentIn, OnlyWholeSaves, Absent, Settled
<1>8. TypeOK' /\ OnlyWholeSaves' /\ CurrentIn' /\ OwedIsSafe' /\ AsideIsKept'
  BY <1>3, <1>5, <1>6, <1>7, BackupStep
<1>9. DisplacedIsKept' /\ BackupInHand' /\ StagedInHand'
  BY <1>3 DEF IInv, DisplacedIsKept, InWindow, BackupInHand, StagedInHand, Step, Return, frame
<1> QED BY <1>8, <1>9 DEF IInv

LEMMA BackUpUnnameKeeps == ASSUME IInv, BackUpUnname PROVE IInv'
BY Withdrawn DEF BackUpUnname, BackupFailed, RemoveBackup

LEMMA DeleteCompareKeeps == ASSUME IInv, DeleteCompare PROVE IInv'
<1> USE DEF DeleteCompare
<1>1. CASE /\ Refused \/ Granted
           /\ Backup(Put(backup, slot, Absent)) \/ UNCHANGED <<backup, backupHist>>
           /\ Step("idle")
  BY <1>1, Withdrawn
<1>2. CASE backup[slot].bytes = want /\ Granted /\ Step("check") /\ UNCHANGED <<backup, backupHist>>
  <2>1. LocalsOK' /\ owed' = owed /\ raced' = raced /\ pc' = "check" /\ UNCHANGED frame
    BY <1>2, StepLocals DEF IInv, Points, Step
  <2>2. CardTouches({"tmp"}) /\ BackupTouches({"tmp"}) /\ Pending' \subseteq Pending
    BY <1>2, <2>1, CardSame, BackupSame, Widen DEF IInv, Pending
  <2>3. TypeOK' /\ OnlyWholeSaves' /\ CurrentIn' /\ OwedIsSafe' /\ AsideIsKept'
    BY <2>1, <2>2, TmpStep
  <2>4. DisplacedIsKept' /\ BackupInHand' /\ StagedInHand'
    BY <1>2, <2>1, SlotsAssumption
       DEF IInv, DisplacedIsKept, InWindow, BackupInHand, StagedInHand, Exists, frame
  <2> QED BY <2>3, <2>4 DEF IInv
<1> QED BY <1>1, <1>2 DEF RemoveBackup

-----------------------------------------------------------------------------
(* The ones that move the save.                                              *)

\* A step that leaves `.backup/` and the operation's own backup alone.
LEMMA BackupsUntouched ==
  ASSUME IInv, UNCHANGED <<backup, backupHist>>, Pending' \subseteq Pending
  PROVE  BackupsStand /\ (\A b \in Bytes : Kept(b) => Kept(b)')
<1>1. BackupsStand
  BY DEF BackupsStand
<1> QED BY <1>1, KeptStays DEF IInv

\* From the last check to the commit everything owed is kept.
AllKept == \A b \in Owed : Kept(b)

LEMMA DisplacementIsSafe ==
  ASSUME IInv, InWindow \/ (pc = "publish" /\ ~Exists(card["save"]))
  PROVE  AllKept
<1> SUFFICES ASSUME NEW b \in Owed PROVE Kept(b)
  BY DEF AllKept
<1>1. CASE \A m \in cardHist : Recovered(m) = Settled(b)
  <2>1. Recovered(card) = Settled(b)
    BY <1>1 DEF IInv, CurrentIn
  <2>2. Recovered(card).bytes = b
    BY <2>1 DEF Settled
  <2> QED BY <2>2 DEF IInv, DisplacedIsKept
<1> QED BY <1>1 DEF IInv, OwedIsSafe

LEMMA KeptStep ==
  ASSUME IInv, AllKept, UNCHANGED <<backup, backupHist>>, Pending' \subseteq Pending,
         owed' = owed, raced' = raced, InWindow' => InWindow /\ card'["save"] = card["save"]
  PROVE  OwedIsSafe' /\ AsideIsKept' /\ DisplacedIsKept'
<1>1. \A b \in Owed : Kept(b)'
  BY BackupsUntouched DEF AllKept, Owed, IInv, TypeOK
<1>2. Owed' = Owed
  BY DEF Owed
<1>3. ASSUME InWindow', Exists(card'["save"]), card'["save"].bytes # raced'
      PROVE  Kept(card["save"].bytes)'
  <2>1. InWindow /\ card'["save"] = card["save"] /\ Exists(card["save"]) /\ card["save"].bytes # raced
    BY <1>3 DEF Exists
  <2>2. PICK c \in Bytes : c = card["save"].bytes
    BY <2>1, NamesFacts, FileFacts, WholeFacts DEF IInv, TypeOK, Exists
  <2>3. Kept(c)
    BY <2>1, <2>2 DEF IInv, DisplacedIsKept
  <2>4. Kept(c)'
    BY <2>3, BackupsUntouched
  <2> QED BY <2>1, <2>2, <2>4 DEF Kept
<1> QED BY <1>1, <1>2, <1>3 DEF OwedIsSafe, AsideIsKept, DisplacedIsKept

\* A step on the save folder alone that leaves whole files under its names.
LEMMA CardStep ==
  ASSUME IInv, NEW N, CardTouches(N), UNCHANGED <<backup, backupHist>>, LocalsOK',
         card'["save"].bytes # Junk /\ card'["save"].synced,
         card'["old"].bytes # Junk /\ card'["old"].synced
  PROVE  TypeOK' /\ OnlyWholeSaves' /\ CurrentIn'
<1>1. TypeOK' /\ CurrentIn'
  BY DEF CardTouches, LocalsOK, IInv, TypeOK, CurrentIn
<1>2. OnlyWholeSaves'
  BY DEF CardTouches, IInv, OnlyWholeSaves
<1> QED BY <1>1, <1>2

LEMMA CommitMoveAsideKeeps == ASSUME IInv, CommitMoveAside PROVE IInv'
<1> USE DEF CommitMoveAside
<1>1. /\ CardTouches({"save", "old"}) /\ (Refused \/ Granted)
      /\ \/ UNCHANGED card /\ Step("discard")
         \/ card'["save"] = Absent /\ card'["old"] = card["save"] /\ Step("publish")
  BY CardMove, CardSame, NamesFacts DEF IInv, RenameCard, RenameCardRefused, CardTouches
<1>2. LocalsOK' /\ owed' = owed /\ raced' = raced /\ pc' \in {"publish", "discard"}
  BY <1>1, StepLocals DEF IInv, Points
<1>3. TypeOK' /\ OnlyWholeSaves' /\ CurrentIn'
  BY <1>1, <1>2, CardStep, WholeFacts
<1>4. OwedIsSafe' /\ AsideIsKept' /\ DisplacedIsKept'
  BY <1>2, DisplacementIsSafe, KeptStep DEF InWindow, Pending
<1>5. card'["tmp"] = card["tmp"]
  BY <1>1, NamesFacts DEF CardTouches
<1>6. BackupInHand' /\ StagedInHand'
  BY <1>1, <1>2, <1>5 DEF IInv, BackupInHand, StagedInHand, Step, Return, frame
<1> QED BY <1>3, <1>4, <1>6 DEF IInv

LEMMA CommitLookKeeps == ASSUME IInv, CommitLook PROVE IInv'
<1> USE DEF CommitLook
<1>1. CardTouches({"old"}) /\ (Refused \/ Granted)
  BY CardRemoved, CardSame, Widen, NamesFacts DEF IInv
<1>2. LocalsOK' /\ owed' = owed /\ raced' = raced /\ pc' \in {"moveAside", "publish", "idle"}
  BY <1>1, FaultType, StepLocals, ZenonT(30) DEF IInv, TypeOK, LocalsOK, ghosts, Points
<1>3. card'["save"] = card["save"] /\ card'["tmp"] = card["tmp"]
  BY <1>1, NamesFacts DEF CardTouches
<1>4. card'["old"].bytes # Junk /\ card'["old"].synced
  BY CardRemoved, NamesFacts, WholeFacts DEF IInv
<1>5. TypeOK' /\ OnlyWholeSaves' /\ CurrentIn'
  BY <1>1, <1>2, <1>3, <1>4, CardStep, WholeFacts
<1>6. OwedIsSafe' /\ AsideIsKept' /\ DisplacedIsKept'
  BY <1>2, <1>3, DisplacementIsSafe, KeptStep DEF InWindow, Pending
<1>7. pc' = "moveAside" => Exists(card["save"])
  BY DEF Step
<1>8. BackupInHand' /\ StagedInHand'
  BY <1>2, <1>3, <1>7 DEF IInv, BackupInHand, StagedInHand, Exists, Step, Return, frame
<1> QED BY <1>5, <1>6, <1>8 DEF IInv

LEMMA CommitPublishKeeps == ASSUME IInv, CommitPublish PROVE IInv'
<1> USE DEF CommitPublish
<1>1. CASE RenameCard("tmp", "save") /\ deleted' = FALSE /\ Step("tidy")
  <2>1. /\ CardTouches({"tmp", "save"}) /\ Granted
        /\ card'["save"] = card["tmp"] /\ ~Exists(card["save"])
    BY <1>1, CardMove, NamesFacts DEF IInv, RenameCard
  <2>2. LocalsOK' /\ owed' = owed /\ raced' = raced /\ pc' = "tidy" /\ UNCHANGED frame
    BY <1>1, <2>1, StepType, FaultType DEF IInv, TypeOK, LocalsOK, Points, Step
  <2>3. card["tmp"].synced /\ card["tmp"].bytes \in Bytes
    BY DEF IInv, StagedInHand
  <2>4. card'["old"] = card["old"]
    BY <2>1, NamesFacts DEF CardTouches
  <2>5. TypeOK' /\ OnlyWholeSaves' /\ CurrentIn'
    BY <2>1, <2>2, <2>3, <2>4, CardStep, WholeFacts, BytesAssumption
  <2>6. OwedIsSafe' /\ AsideIsKept' /\ DisplacedIsKept'
    BY <2>1, <2>2, DisplacementIsSafe, KeptStep DEF InWindow, Pending
  <2>7. BackupInHand' /\ StagedInHand'
    BY <2>1, <2>2, <2>3, BytesAssumption DEF IInv, BackupInHand, StagedInHand, Exists, frame
  <2> QED BY <2>5, <2>6, <2>7 DEF IInv
<1>2. CASE RenameCardRefused("tmp", "save") /\ deleted' = deleted
           /\ Step(IF replacing THEN "putBack" ELSE "discard")
  <2>1. LocalsOK' /\ owed' = owed /\ raced' = raced /\ pc' \in {"putBack", "discard"}
    BY <1>2, StepLocals DEF IInv, Points, RenameCardRefused, ghosts
  <2>2. CardTouches({"tmp"}) /\ BackupTouches({"tmp"}) /\ Pending' \subseteq Pending
    BY <1>2, <2>1, CardSame, BackupSame, Widen DEF IInv, Pending, RenameCardRefused
  <2>3. TypeOK' /\ OnlyWholeSaves' /\ CurrentIn' /\ OwedIsSafe' /\ AsideIsKept'
    BY <2>1, <2>2, TmpStep
  <2>4. DisplacedIsKept' /\ BackupInHand' /\ StagedInHand'
    BY <1>2, <2>1 DEF IInv, DisplacedIsKept, InWindow, BackupInHand, StagedInHand, Step, frame
  <2> QED BY <2>3, <2>4 DEF IInv
<1> QED BY <1>1, <1>2

LEMMA DeleteRemoveKeeps == ASSUME IInv, DeleteRemove PROVE IInv'
<1> USE DEF DeleteRemove
<1>1. CardTouches({"save"}) /\ (card'["save"] = Absent \/ card' = card) /\ (Refused \/ Granted)
  BY CardPut, CardSame, Widen, FileFacts, NamesFacts DEF IInv
<1>2. LocalsOK' /\ owed' = owed /\ raced' = raced /\ pc' \in {"syncRemoved", "idle"}
  BY <1>1, StepType, FaultType DEF IInv, TypeOK, LocalsOK, Points, Step
<1>3. card'["old"] = card["old"]
  BY <1>1, NamesFacts DEF CardTouches
<1>4. TypeOK' /\ OnlyWholeSaves' /\ CurrentIn'
  BY <1>1, <1>2, <1>3, CardStep, WholeFacts
<1>5. OwedIsSafe' /\ AsideIsKept' /\ DisplacedIsKept'
  BY <1>2, DisplacementIsSafe, KeptStep DEF InWindow, Pending
<1>6. BackupInHand' /\ StagedInHand'
  BY <1>2 DEF IInv, BackupInHand, StagedInHand, Step, Return, frame
<1> QED BY <1>4, <1>5, <1>6 DEF IInv

\* A step on the save folder after which the sweep would find the same save.
LEMMA RecoveredStep ==
  ASSUME IInv, cardHist' \subseteq cardHist \cup {card'},
         Recovered(card') = Recovered(card), card' = card \/ Exists(card'["save"]),
         UNCHANGED <<backup, backupHist>>, Pending' \subseteq Pending, owed' = owed, raced' = raced
  PROVE  OwedIsSafe' /\ AsideIsKept'
<1>1. Recovers
  BY DEF Recovers, IInv, CurrentIn, AsideIsKept
<1> QED BY <1>1, BackupsUntouched, QuietStep

\* `.old` back at the save's name, or the rename refused.
LEMMA PutBackFacts ==
  ASSUME IInv, RenameCard("old", "save") \/ UNCHANGED <<card, cardHist>>
  PROVE  /\ CardTouches({"old", "save"}) /\ cardHist' \subseteq cardHist \cup {card'}
         /\ Recovered(card') = Recovered(card) /\ (card' = card \/ Exists(card'["save"]))
         /\ card'["save"].bytes # Junk /\ card'["save"].synced
         /\ card'["old"].bytes # Junk /\ card'["old"].synced
<1>1. CASE RenameCard("old", "save")
  <2>1. /\ CardTouches({"old", "save"}) /\ cardHist' = cardHist \cup {card'}
        /\ card'["old"] = Absent /\ card'["save"] = card["old"]
    BY <1>1, CardMove, NamesFacts DEF IInv, RenameCard
  <2>2. Exists(card["old"]) /\ ~Exists(card["save"])
    BY <1>1 DEF RenameCard
  <2>3. Recovered(card') = Recovered(card) /\ Exists(card'["save"])
    BY <2>1, <2>2 DEF Recovered
  <2> QED BY <2>1, <2>3, WholeFacts
<1>2. CASE UNCHANGED <<card, cardHist>>
  <2>1. CardTouches({"old", "save"})
    BY <1>2, CardSame DEF IInv, CardTouches
  <2> QED BY <1>2, <2>1, WholeFacts
<1> QED BY <1>1, <1>2

LEMMA SweepOldKeeps == ASSUME IInv, SweepOld PROVE IInv'
<1> USE DEF SweepOld
<1>1. RenameCard("old", "save") \/ UNCHANGED <<card, cardHist>>
  OBVIOUS
<1>2. /\ CardTouches({"old", "save"}) /\ cardHist' \subseteq cardHist \cup {card'}
      /\ Recovered(card') = Recovered(card) /\ (card' = card \/ Exists(card'["save"]))
      /\ card'["save"].bytes # Junk /\ card'["save"].synced
      /\ card'["old"].bytes # Junk /\ card'["old"].synced
  BY <1>1, PutBackFacts
<1>3. LocalsOK' /\ pc' = "sweepTmp" /\ owed' = owed /\ raced' = raced /\ slot' = slot /\ op' = op /\ want' = want
  BY FaultType DEF IInv, TypeOK, LocalsOK, Points, RenameCard
<1>4. TypeOK' /\ OnlyWholeSaves' /\ CurrentIn'
  BY <1>2, <1>3, CardStep
<1>5. OwedIsSafe' /\ AsideIsKept'
  BY <1>2, <1>3, RecoveredStep DEF Pending
<1>6. DisplacedIsKept' /\ BackupInHand' /\ StagedInHand'
  BY <1>3 DEF IInv, DisplacedIsKept, InWindow, BackupInHand, StagedInHand
<1> QED BY <1>4, <1>5, <1>6 DEF IInv

LEMMA CommitPutBackKeeps == ASSUME IInv, CommitPutBack PROVE IInv'
<1> USE DEF CommitPutBack
<1>1. /\ RenameCard("old", "save") \/ UNCHANGED <<card, cardHist>>
      /\ Refused \/ Granted
  BY DEF RenameCard, RenameCardRefused
<1>2. /\ CardTouches({"old", "save"}) /\ cardHist' \subseteq cardHist \cup {card'}
      /\ Recovered(card') = Recovered(card) /\ (card' = card \/ Exists(card'["save"]))
      /\ card'["save"].bytes # Junk /\ card'["save"].synced
      /\ card'["old"].bytes # Junk /\ card'["old"].synced
  BY <1>1, PutBackFacts
<1>3. LocalsOK' /\ pc' = "discard" /\ owed' = owed /\ raced' = raced
  BY <1>1, StepLocals DEF IInv, Points
<1>4. TypeOK' /\ OnlyWholeSaves' /\ CurrentIn'
  BY <1>2, <1>3, CardStep
<1>5. OwedIsSafe' /\ AsideIsKept'
  BY <1>2, <1>3, RecoveredStep DEF Pending
<1>6. DisplacedIsKept' /\ BackupInHand' /\ StagedInHand'
  BY <1>3 DEF IInv, DisplacedIsKept, InWindow, BackupInHand, StagedInHand, Step, frame
<1> QED BY <1>4, <1>5, <1>6 DEF IInv

LEMMA CommitTidyKeeps == ASSUME IInv, CommitTidy PROVE IInv'
<1> USE DEF CommitTidy
<1>1. /\ CardTouches({"old"}) /\ (Refused \/ Granted)
      /\ UNCHANGED <<card, cardHist>> \/ (card'["old"] = Absent /\ cardHist' = cardHist \cup {card'})
  BY CardRemoved, NamesFacts DEF IInv
<1>2. card'["save"] = card["save"] /\ Exists(card["save"])
  BY <1>1, NamesFacts DEF CardTouches, IInv, StagedInHand
<1>3. LocalsOK' /\ pc' = "syncDir" /\ owed' = owed /\ raced' = raced
  BY <1>1, StepLocals DEF IInv, Points
<1>4. TypeOK' /\ OnlyWholeSaves' /\ CurrentIn'
  BY <1>1, <1>2, <1>3, CardStep, WholeFacts
<1>5. Recovered(card') = Recovered(card) /\ Exists(card'["save"]) /\ cardHist' \subseteq cardHist \cup {card'}
  BY <1>1, <1>2 DEF Recovered
<1>6. OwedIsSafe' /\ AsideIsKept'
  BY <1>3, <1>5, RecoveredStep DEF Pending
<1>7. DisplacedIsKept' /\ BackupInHand' /\ StagedInHand'
  BY <1>3 DEF IInv, DisplacedIsKept, InWindow, BackupInHand, StagedInHand, Step, frame
<1> QED BY <1>4, <1>6, <1>7 DEF IInv

LEMMA SyncFolderKeeps == ASSUME IInv, SyncFolder PROVE IInv'
<1> USE DEF SyncFolder
<1>1. cardHist' \subseteq cardHist /\ card' = card /\ card \in cardHist' /\ (Refused \/ Granted)
  BY DEF IInv, CurrentIn
<1>2. CardTouches({})
  BY <1>1 DEF IInv, TypeOK, CardTouches
<1>3. LocalsOK' /\ pc' = "idle" /\ owed' = owed /\ raced' = raced
  BY <1>1, StepLocals DEF IInv, Points
<1>4. TypeOK' /\ OnlyWholeSaves' /\ CurrentIn'
  BY <1>1, <1>2, <1>3, CardStep, WholeFacts
<1>5. OwedIsSafe' /\ AsideIsKept'
  BY <1>1, <1>3, RecoveredStep DEF Pending
<1>6. DisplacedIsKept' /\ BackupInHand' /\ StagedInHand'
  BY <1>3 DEF IInv, DisplacedIsKept, InWindow, BackupInHand, StagedInHand, Step, Return
<1> QED BY <1>4, <1>5, <1>6 DEF IInv

-----------------------------------------------------------------------------
(* The ones that change what is owed.                                        *)

\* An operation begins: what won its race is owed again.
LEMMA BeginKeeps ==
  ASSUME IInv, raced' = Survived, owed' = owed, UNCHANGED folders, Pending' = {}
  PROVE  OwedIsSafe' /\ AsideIsKept'
<1>1. BackupsStand /\ (\A b \in Bytes : Kept(b) => Kept(b)')
  BY BackupsUntouched DEF folders
<1>2. CASE raced' = raced
  <2>1. SaveStands
    BY DEF SaveStands, folders
  <2> QED BY <1>1, <1>2, <2>1, StandsRecovers, QuietStep
<1>3. CASE raced' # raced
  <2>1. raced' = NoBytes /\ (\A m \in cardHist : m["save"].bytes = raced) /\ raced \in Bytes
    BY <1>3 DEF Survived, IInv, TypeOK
  <2>2. \A m \in cardHist : Exists(m["save"])
    BY <2>1, BytesAssumption DEF Exists
  <2>3. \A m \in cardHist : Recovered(m) = Settled(raced)
    <3> SUFFICES ASSUME NEW m \in cardHist PROVE Recovered(m) = Settled(raced)
      OBVIOUS
    <3>1. m["save"] \in Files /\ m["save"].synced /\ m["save"].bytes = raced
      BY <2>1, NamesFacts DEF IInv, TypeOK, OnlyWholeSaves
    <3>2. m["save"] = Settled(raced)
      BY <3>1 DEF Files, Settled
    <3> QED BY <3>2, <2>2 DEF Recovered
  <2>4. AsideIsKept'
    BY <2>2 DEF AsideIsKept, folders
  <2>5. OwedIsSafe'
    <3> SUFFICES ASSUME NEW b \in Owed'
                 PROVE  (\A m \in cardHist' : Recovered(m) = Settled(b)) \/ Kept(b)'
      BY DEF OwedIsSafe
    <3>1. CASE b = raced
      BY <3>1, <2>3 DEF folders
    <3>2. CASE b # raced
      <4>1. b \in Owed /\ b \in Bytes
        BY <3>2 DEF Owed, IInv, TypeOK
      <4> QED BY <4>1, <1>1 DEF IInv, OwedIsSafe, folders
    <3> QED BY <3>1, <3>2
  <2> QED BY <2>4, <2>5
<1> QED BY <1>2, <1>3

LEMMA StartTickKeeps == ASSUME IInv, StartTick PROVE IInv'
<1> USE DEF StartTick
<1>1. pc' = "sweepOld" /\ UNCHANGED frame /\ owed' = owed /\ raced' = Survived /\ UNCHANGED folders
  BY DEF Step
<1>2. TypeOK' /\ OnlyWholeSaves' /\ CurrentIn'
  BY <1>1 DEF IInv, TypeOK, OnlyWholeSaves, CurrentIn, folders, frame, Survived, Points
<1>3. OwedIsSafe' /\ AsideIsKept'
  BY <1>1, BeginKeeps DEF Pending
<1>4. DisplacedIsKept' /\ BackupInHand' /\ StagedInHand'
  BY <1>1 DEF IInv, DisplacedIsKept, InWindow, BackupInHand, StagedInHand, frame
<1> QED BY <1>2, <1>3, <1>4 DEF IInv

LEMMA StartRestoreKeeps == ASSUME IInv, StartRestore PROVE IInv'
<1> USE DEF StartRestore
<1>1. TypeOK' /\ OnlyWholeSaves' /\ CurrentIn'
  BY DEF IInv, TypeOK, OnlyWholeSaves, CurrentIn, folders, Survived, Points, Ops
<1>2. OwedIsSafe' /\ AsideIsKept'
  BY BeginKeeps DEF Pending
<1>3. DisplacedIsKept' /\ BackupInHand' /\ StagedInHand'
  BY DEF IInv, DisplacedIsKept, InWindow, BackupInHand, StagedInHand
<1> QED BY <1>1, <1>2, <1>3 DEF IInv

LEMMA GameWriteKeeps == ASSUME IInv, GameWrite PROVE IInv'
<1> USE DEF GameWrite
<1>1. PICK b \in Bytes :
        /\ b # card["save"].bytes
        /\ card' = Put(card, "save", Settled(b)) /\ cardHist' = {card'}
        /\ IF InWindow
           THEN raced' = b /\ owed' = (owed \ {card["save"].bytes, raced}) \cup {b}
           ELSE /\ raced' = IF b = raced THEN NoBytes ELSE raced
                /\ owed' = (owed \ {card["save"].bytes}) \cup {b}
  OBVIOUS
<1>2. /\ card' \in [Names -> Files] /\ card'["save"] = Settled(b)
      /\ card'["old"] = card["old"] /\ card'["tmp"] = card["tmp"]
  <2>1. card \in [Names -> Files] /\ Settled(b) \in Files
    BY FileFacts DEF IInv, TypeOK
  <2>2. card' = [card EXCEPT !["save"] = Settled(b)]
    BY <1>1 DEF Put
  <2> HIDE DEF GameWrite
  <2> QED BY <2>1, <2>2, NamesFacts
<1>3. UNCHANGED <<backup, backupHist, pc, op, want, slot, replacing, rescan, faults>>
  BY DEF frame
<1>4. /\ owed' \subseteq Bytes /\ raced' \in Bytes \cup {NoBytes} /\ deleted' \in BOOLEAN
  BY <1>1 DEF IInv, TypeOK
<1>5. TypeOK' /\ CurrentIn'
  BY <1>1, <1>2, <1>3, <1>4 DEF IInv, TypeOK, CurrentIn
<1>6. OnlyWholeSaves'
  <2>1. card'["save"].bytes # Junk /\ card'["save"].synced
    BY <1>2, BytesAssumption DEF Settled
  <2>2. card'["old"].bytes # Junk /\ card'["old"].synced
    BY <1>2, WholeFacts
  <2> QED BY <1>1, <1>3, <2>1, <2>2 DEF IInv, OnlyWholeSaves
<1>7. Exists(card'["save"]) /\ Recovered(card') = Settled(b)
  BY <1>2, BytesAssumption DEF Exists, Settled, Recovered
<1>8. \A c \in Bytes : Kept(c) => Kept(c)'
  BY <1>3, BackupsUntouched DEF Pending
<1>9. OwedIsSafe'
  <2> SUFFICES ASSUME NEW c \in Owed', c # b PROVE Kept(c)'
    BY <1>1, <1>7 DEF OwedIsSafe
  <2>1. c \in Owed /\ c # card["save"].bytes /\ c \in Bytes
    BY <1>1 DEF Owed, IInv, TypeOK
  <2>2. CASE Kept(c)
    BY <2>1, <2>2, <1>8
  <2>3. CASE \A m \in cardHist : Recovered(m) = Settled(c)
    <3>1. Recovered(card).bytes = c
      BY <2>3 DEF IInv, CurrentIn, Settled
    <3>2. ~Exists(card["save"]) /\ card["old"].bytes = c
      BY <2>1, <3>1 DEF Recovered
    <3>3. Kept(c)
      BY <2>1, <3>2 DEF IInv, CurrentIn, AsideIsKept
    <3> QED BY <2>1, <3>3, <1>8
  <2> QED BY <2>1, <2>2, <2>3 DEF IInv, OwedIsSafe
<1>10. AsideIsKept'
  BY <1>1, <1>7 DEF AsideIsKept
<1>11. DisplacedIsKept'
  <2>1. InWindow' <=> InWindow
    BY <1>3 DEF InWindow
  <2>2. InWindow => Recovered(card').bytes \notin Owed'
    BY <1>1, <1>7 DEF Owed, Settled
  <2>3. InWindow => card'["save"].bytes = raced'
    <3>1. card'["save"].bytes = b
      BY <1>2 DEF Settled
    <3> QED BY <1>1, <3>1
  <2> QED BY <1>7, <2>1, <2>2, <2>3 DEF DisplacedIsKept
<1>12. pc = "remove" => card'["save"].bytes = raced'
  <2>1. card'["save"].bytes = b
    BY <1>2 DEF Settled
  <2>2. pc = "remove" => InWindow
    BY DEF InWindow
  <2> QED BY <1>1, <2>1, <2>2
<1>13. BackupInHand' /\ StagedInHand'
  BY <1>2, <1>3, <1>7, <1>12 DEF IInv, BackupInHand, StagedInHand, Exists
<1> QED BY <1>5, <1>6, <1>9, <1>10, <1>11, <1>13 DEF IInv

\* A cut changes no file that was synced.
LEMMA TornFolder ==
  ASSUME NEW D, NEW F \in [D -> Files], NEW t
  PROVE  /\ Torn(F, t) \in [D -> Files]
         /\ \A n \in D : F[n].synced => Torn(F, t)[n] = F[n]
<1>1. \A n \in D : Settled(Junk) \in Files /\ Settled(F[n].bytes) \in Files
  BY FileFacts
<1> QED BY <1>1 DEF Torn

LEMMA PowerCutKeeps == ASSUME IInv, PowerCut PROVE IInv'
<1> USE DEF PowerCut
<1>1. PICK m \in cardHist : \E t : card' = Torn(m, t) /\ cardHist' = {card'}
  OBVIOUS
<1>2. PICK n \in backupHist : \E u : backup' = Torn(n, u) /\ backupHist' = {backup'}
  OBVIOUS
<1>3. m \in [Names -> Files] /\ n \in [BackupNames -> Files]
  BY DEF IInv, TypeOK
<1>4. card' \in [Names -> Files] /\ card'["save"] = m["save"] /\ card'["old"] = m["old"]
  BY <1>1, <1>3, TornFolder, NamesFacts DEF IInv, OnlyWholeSaves
<1>5. backup' \in [BackupNames -> Files] /\ \A s \in Slots : backup'[s] = n[s]
  BY <1>2, <1>3, TornFolder, BackupNamesFacts DEF IInv, OnlyWholeSaves
<1>6. pc' = "idle" /\ Return /\ owed' = owed /\ raced' = raced /\ deleted' \in BOOLEAN
  BY DEF Step, IInv, TypeOK
<1>7. TypeOK' /\ CurrentIn'
  BY <1>1, <1>2, <1>4, <1>5, <1>6, FaultType DEF IInv, TypeOK, CurrentIn, Return, Points, Ops
<1>8. OnlyWholeSaves'
  BY <1>1, <1>2, <1>4, <1>5 DEF IInv, OnlyWholeSaves
<1>9. SaveStands
  BY <1>1, <1>4 DEF SaveStands
<1>10. Pending' = {}
  BY <1>6 DEF Pending
<1>11. BackupsStand
  BY <1>2, <1>5, <1>10 DEF BackupsStand
<1>12. OwedIsSafe' /\ AsideIsKept'
  BY <1>6, <1>9, <1>11, StandsRecovers, QuietStep
<1>13. DisplacedIsKept' /\ BackupInHand' /\ StagedInHand'
  BY <1>6 DEF Return, DisplacedIsKept, InWindow, BackupInHand, StagedInHand
<1> QED BY <1>7, <1>8, <1>12, <1>13 DEF IInv

-----------------------------------------------------------------------------
(* The theorems.                                                            *)

LEMMA InitIsSafe == Init => IInv
<1> SUFFICES ASSUME Init PROVE IInv
  OBVIOUS
<1>1. PICK b \in Bytes \cup {NoBytes} :
        card = [n \in Names |-> IF n = "save" THEN Settled(b) ELSE Absent]
  BY DEF Init
<1>2. card \in [Names -> Files] /\ card["save"] = Settled(b) /\ card["old"] = Absent
  BY <1>1, FileFacts, NamesFacts
<1>3. backup \in [BackupNames -> Files] /\ \A s \in Slots : backup[s] = Absent
  BY FileFacts, BackupNamesFacts DEF Init
<1>4. TypeOK /\ CurrentIn
  <2>1. owed \subseteq Bytes
    BY <1>2 DEF Init, Settled
  <2>2. /\ cardHist = {card} /\ backupHist = {backup} /\ raced = NoBytes /\ deleted = FALSE
        /\ pc = "idle" /\ op = "none" /\ want = NoBytes /\ slot = NoSlot
        /\ replacing = FALSE /\ rescan = FALSE /\ faults = 0
    BY DEF Init
  <2>3. faults \in 0 .. MaxFaults
    BY <2>2, FaultsAssumption
  <2>4. cardHist \subseteq [Names -> Files] /\ backupHist \subseteq [BackupNames -> Files]
    BY <1>2, <1>3, <2>2
  <2>5. pc \in Points /\ op \in Ops
    BY <2>2 DEF Points, Ops
  <2> QED BY <1>2, <1>3, <2>1, <2>2, <2>3, <2>4, <2>5 DEF TypeOK, CurrentIn
<1>5. OnlyWholeSaves
  <2>1. Absent.bytes # Junk /\ Absent.synced /\ Settled(b).bytes # Junk /\ Settled(b).synced
    BY BytesAssumption DEF Absent, Settled
  <2>2. cardHist = {card} /\ backupHist = {backup}
    BY DEF Init
  <2> QED BY <1>2, <1>3, <2>1, <2>2 DEF OnlyWholeSaves
<1>6. OwedIsSafe
  BY <1>2, BytesAssumption DEF Init, OwedIsSafe, Owed, Recovered, Exists, Settled
<1>7. AsideIsKept
  BY <1>2, <1>4, BytesAssumption DEF Init, TypeOK, AsideIsKept, Owed, Absent, Settled
<1>8. DisplacedIsKept /\ BackupInHand /\ StagedInHand
  BY DEF Init, DisplacedIsKept, InWindow, BackupInHand, StagedInHand
<1> QED BY <1>4, <1>5, <1>6, <1>7, <1>8 DEF IInv

LEMMA NextKeeps == IInv /\ [Next]_vars => IInv'
<1> SUFFICES ASSUME IInv, [Next]_vars PROVE IInv'
  OBVIOUS
<1>1. CASE Engine
  BY <1>1, StartTickKeeps, SweepOldKeeps, SweepTmpKeeps, SweepBackupKeeps, PlanNothingKeeps,
     PlanDownloadKeeps, PlanDeleteKeeps, StartRestoreKeeps, FetchBodyKeeps, FetchLandKeeps,
     FetchVerifyKeeps, NothingToBackUpKeeps, BackUpCopyKeeps, BackUpCopySyncKeeps,
     BackUpNameKeeps, BackUpNameSyncKeeps, BackUpUnnameKeeps, DeleteCompareKeeps,
     RestoreStageKeeps, RestoreStageSyncKeeps, UnchangedSinceBackupKeeps, CommitLookKeeps,
     CommitMoveAsideKeeps, CommitPublishKeeps, CommitPutBackKeeps, CommitTidyKeeps,
     SyncFolderKeeps, DeleteRemoveKeeps, DiscardKeeps
     DEF Engine
<1>2. CASE GameWrite
  BY <1>2, GameWriteKeeps
<1>3. CASE PowerCut
  BY <1>3, PowerCutKeeps
<1>4. CASE UNCHANGED vars
  BY <1>4 DEF vars, folders, frame, ghosts, IInv, TypeOK, OnlyWholeSaves, CurrentIn, OwedIsSafe,
     AsideIsKept, DisplacedIsKept, BackupInHand, StagedInHand, Owed, Kept, Pending, InWindow,
     Recovered, Exists
<1> QED BY <1>1, <1>2, <1>3, <1>4 DEF Next

\* The inductive invariant holds in every state of every behaviour, whatever the set of
\* contents, of backup names, and the number of refused calls and power cuts.
THEOREM Invariance == Spec => []IInv
BY InitIsSafe, NextKeeps, PTL DEF Spec

\* Every variable keeps its type.
THEOREM TypeCorrect == Spec => []TypeOK
BY Invariance, PTL DEF IInv

\* No power cut, refused call or game write makes a byte the game left disappear, but in
\* the window the engine's last comparison cannot close.
THEOREM NothingLost == Spec => []NoSaveLost
<1>1. IInv => NoSaveLost
  <2> SUFFICES ASSUME IInv, NEW b \in Owed, NEW m \in cardHist, NEW n \in backupHist
               PROVE  Recovered(m).bytes = b \/ \E s \in Slots : n[s].bytes = b
    BY DEF NoSaveLost, Owed
  <2>1. CASE \A h \in cardHist : Recovered(h) = Settled(b)
    BY <2>1 DEF Settled
  <2>2. CASE Kept(b)
    BY <2>2 DEF Kept, Settled
  <2> QED BY <2>1, <2>2 DEF IInv, OwedIsSafe
<1> QED BY <1>1, Invariance, PTL

\* Nothing but whole, verified and synced bytes is ever under the name of a save, of a save
\* moved aside or of a backup, in any folder a cut may leave.
THEOREM WholeSavesOnly == Spec => []OnlyWholeSaves
BY Invariance, PTL DEF IInv

\* Hard rule 2, whoever wrote the bytes: what CommitStaged or Remove takes off the save's
\* name is in every `.backup/` a cut could leave, but for what the game wrote in the window.
THEOREM BackedUpBeforeTaken == Spec => TakenIsBackedUp
<1>1. ASSUME IInv, [Next]_vars, pc \in {"moveAside", "remove"}, Exists(card["save"]),
             card["save"].bytes # raced
      PROVE  BackedUp(card["save"].bytes)
  <2>1. Kept(card["save"].bytes)
    BY <1>1 DEF IInv, DisplacedIsKept, InWindow
  <2> QED BY <2>1 DEF Kept, BackedUp
<1>2. IInv /\ [Next]_vars =>
        [(pc \in {"moveAside", "remove"} /\ Exists(card["save"]) /\ ~Exists(card'["save"]))
           => card["save"].bytes = raced \/ BackedUp(card["save"].bytes)]_vars
  BY <1>1
<1> QED BY <1>2, Invariance, PTL DEF Spec, TakenIsBackedUp

\* A download puts exactly the plan's bytes at the save; a delete takes exactly the bytes
\* the server ruled on, or what the game wrote in the window.
THEOREM PlanObeyed == Spec => ActsOnThePlan
<1>1. ASSUME IInv, Next, pc = "publish", pc' = "tidy", op = "download"
      PROVE  card'["save"].bytes = want
  <2>1. CommitPublish
    BY <1>1 DEF Next, Engine, StartTick, SweepOld, SweepTmp, SweepBackup, PlanNothing, PlanDownload,
       PlanDelete, StartRestore, FetchBody, FetchLand, FetchVerify, NothingToBackUp, BackUpCopy,
       BackUpCopySync, BackUpName, BackUpNameSync, BackUpUnname, DeleteCompare, RestoreStage,
       RestoreStageSync, UnchangedSinceBackup, CommitLook, CommitMoveAside, CommitPutBack,
       CommitTidy, SyncFolder, DeleteRemove, Discard, GameWrite, PowerCut, Step
  <2>2. RenameCard("tmp", "save")
    BY <1>1, <2>1 DEF CommitPublish, Step
  <2>3. card'["save"] = card["tmp"]
    BY <1>1, <2>2, CardMove, NamesFacts DEF IInv, RenameCard
  <2> QED BY <1>1, <2>3 DEF IInv, StagedInHand
<1>2. IInv /\ pc = "remove" => card["save"].bytes \in {want, raced}
  BY DEF IInv, StagedInHand
<1>3. IInv /\ [Next]_vars =>
        [ /\ (pc = "publish" /\ pc' = "tidy" /\ op = "download") => card'["save"].bytes = want
          /\ (pc = "remove" /\ pc' = "syncRemoved") => card["save"].bytes \in {want, raced} ]_vars
  BY <1>1, <1>2
<1> QED BY <1>3, Invariance, PTL DEF Spec, ActsOnThePlan
=============================================================================
