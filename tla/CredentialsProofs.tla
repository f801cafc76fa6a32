------------------------- MODULE CredentialsProofs -------------------------
(***************************************************************************)
(* Proofs, for any servers, any budget and any number of pairings, edits,  *)
(* refused calls and power cuts, that IInv is invariant, and with it that  *)
(* no card a cut may leave holds a token beside another server's address,  *)
(* that drains and pages ask a token's own server, and that a confirmed    *)
(* pairing outlasts refusals and cuts.  On top of IInv, two invariants of  *)
(* the verdict: auth.json is in step with the gate, and only answers about *)
(* a token close the gate over it.                                         *)
(***************************************************************************)
EXTENDS Credentials, TLAPS

USE ValuesAssumption, BoundsAssumption
USE DEF disk, call, pairing, worker, standing, bounds, Files, Blocks, AuthStates, Urls,
        Discards, Clears, Writes, Slices, Pcs, Steps, WriteSteps, Editing, Discarded, Forgotten,
        Committing, Emptied

-----------------------------------------------------------------------------
(* A change of server.                                                      *)

(* An edit of another server gives the pairing up; any other keeps it.      *)
LEMMA ConfigEditInv == ASSUME NEW url \in Servers, IInv, ConfigEdit(url) PROVE IInv'
<1> USE DEF ConfigEdit, Calls, ServerChanged
<1>1. TypeOK'
  <2>1. good' \in BOOLEAN /\ restored' \in BOOLEAN
    BY Zenon DEF IInv, TypeOK
  <2> QED  BY <2>1 DEF IInv, TypeOK
<1>2. StepFits'
  BY DEF IInv, StepFits
<1>3. BodyFits'
  BY DEF IInv, BodyFits
<1>4. NamesFit'
  BY DEF IInv, NamesFit
<1>5. ConfigFits'
  BY DEF IInv, ConfigFits, Published
<1>6. KeptFits'
  BY DEF IInv, KeptFits, Holds
<1>7. card' \in hist' /\ GateFits' /\ TokenIsItsServers' /\ SliceAsksItsServer'
  BY DEF IInv, GateFits, TokenIsItsServers, SliceAsksItsServer
<1> QED  BY <1>1, <1>2, <1>3, <1>4, <1>5, <1>6, <1>7 DEF IInv

(* Past the discard, no name on the card holds a token.                     *)
LEMMA EditDiscardedInv == ASSUME IInv, EditDiscarded PROVE IInv'
<1> USE DEF EditDiscarded, Slice, Release, Returned
<1>1. TypeOK'
  <2>1. good' \in BOOLEAN /\ restored' \in BOOLEAN
    BY Zenon DEF IInv, TypeOK
  <2> QED  BY <2>1 DEF IInv, TypeOK
<1>2. StepFits'
  BY DEF IInv, StepFits
<1>3. BodyFits'
  BY DEF IInv, BodyFits
<1>4. NamesFit'
  BY DEF IInv, NamesFit
<1>5. ConfigFits'
  BY DEF IInv, ConfigFits, Published
<1>6. KeptFits'
  BY DEF IInv, KeptFits
<1>7. card' \in hist' /\ GateFits' /\ TokenIsItsServers' /\ SliceAsksItsServer'
  BY DEF IInv, GateFits, TokenIsItsServers, SliceAsksItsServer
<1> QED  BY <1>1, <1>2, <1>3, <1>4, <1>5, <1>6, <1>7 DEF IInv

(* After it neither the engine nor the pairing thread has one to bring      *)
(* back.                                                                    *)
LEMMA EditForgetsInv == ASSUME IInv, EditForgets PROVE IInv'
<1> USE DEF EditForgets, Calls
<1>1. TypeOK'
  <2>1. good' \in BOOLEAN /\ restored' \in BOOLEAN
    BY Zenon DEF IInv, TypeOK
  <2> QED  BY <2>1 DEF IInv, TypeOK
<1>2. StepFits'
  BY DEF IInv, StepFits
<1>3. BodyFits'
  BY DEF IInv, BodyFits
<1>4. NamesFit'
  BY DEF IInv, NamesFit
<1>5. ConfigFits'
  BY DEF IInv, ConfigFits, Published
<1>6. TokenIsItsServers'
  BY DEF IInv, TokenIsItsServers
<1>7. KeptFits'
  BY DEF IInv, KeptFits
<1>8. card' \in hist' /\ GateFits' /\ SliceAsksItsServer'
  BY DEF IInv, GateFits, SliceAsksItsServer
<1> QED  BY <1>1, <1>2, <1>3, <1>4, <1>5, <1>6, <1>7, <1>8 DEF IInv

(* The verdict on the card is gone, or was refused: neither touches a       *)
(* token.                                                                   *)
LEMMA EditClearedInv == ASSUME IInv, EditCleared PROVE IInv'
<1> USE DEF EditCleared, Slice, Returned
<1>1. TypeOK'
  <2>1. good' \in BOOLEAN /\ restored' \in BOOLEAN
    BY Zenon DEF IInv, TypeOK
  <2> QED  BY <2>1 DEF IInv, TypeOK
<1>2. StepFits'
  BY DEF IInv, StepFits
<1>3. BodyFits'
  BY DEF IInv, BodyFits
<1>4. NamesFit'
  BY DEF IInv, NamesFit
<1>5. ConfigFits'
  BY DEF IInv, ConfigFits, Published
<1>6. KeptFits'
  BY DEF IInv, KeptFits
<1>7. card' \in hist' /\ GateFits' /\ TokenIsItsServers' /\ SliceAsksItsServer'
  BY DEF IInv, GateFits, TokenIsItsServers, SliceAsksItsServer
<1> QED  BY <1>1, <1>2, <1>3, <1>4, <1>5, <1>6, <1>7 DEF IInv

(* The gate is open again before the address is written.                    *)
LEMMA EditResetsInv == ASSUME IInv, EditResets PROVE IInv'
<1> USE DEF EditResets, Calls, Reset
<1>1. TypeOK'
  <2>1. good' \in BOOLEAN /\ restored' \in BOOLEAN
    BY Zenon DEF IInv, TypeOK
  <2> QED  BY <2>1 DEF IInv, TypeOK, Gates
<1>2. StepFits'
  BY DEF IInv, StepFits
<1>3. BodyFits'
  BY DEF IInv, BodyFits
<1>4. GateFits'
  BY DEF IInv, GateFits
<1>5. NamesFit'
  BY DEF IInv, NamesFit
<1>6. ConfigFits'
  BY DEF IInv, ConfigFits, Published
<1>7. KeptFits'
  BY DEF IInv, KeptFits
<1>8. card' \in hist' /\ TokenIsItsServers' /\ SliceAsksItsServer'
  BY DEF IInv, TokenIsItsServers, SliceAsksItsServer
<1> QED  BY <1>1, <1>2, <1>3, <1>4, <1>5, <1>6, <1>7, <1>8 DEF IInv

(* A write that failed left the address on the card as it was.              *)
LEMMA EditUnwrittenInv == ASSUME IInv, EditUnwritten PROVE IInv'
<1> USE DEF EditUnwritten, Release
<1>1. TypeOK'
  <2>1. good' \in BOOLEAN /\ restored' \in BOOLEAN
    BY Zenon DEF IInv, TypeOK
  <2> QED  BY <2>1 DEF IInv, TypeOK
<1>2. StepFits'
  BY DEF IInv, StepFits
<1>3. BodyFits'
  BY DEF IInv, BodyFits
<1>4. NamesFit'
  BY DEF IInv, NamesFit
<1>5. ConfigFits'
  BY DEF IInv, ConfigFits, Published
<1>6. KeptFits'
  BY DEF IInv, KeptFits, Holds
<1>7. card' \in hist' /\ GateFits' /\ TokenIsItsServers' /\ SliceAsksItsServer'
  BY DEF IInv, GateFits, TokenIsItsServers, SliceAsksItsServer
<1> QED  BY <1>1, <1>2, <1>3, <1>4, <1>5, <1>6, <1>7 DEF IInv

(* The address on the card is the new one, and no token is left to meet it. *)
LEMMA EditWrittenInv == ASSUME IInv, EditWritten PROVE IInv'
<1> USE DEF EditWritten, Slice
<1>1. TypeOK'
  <2>1. good' \in BOOLEAN /\ restored' \in BOOLEAN
    BY Zenon DEF IInv, TypeOK
  <2> QED  BY <2>1 DEF IInv, TypeOK
<1>2. StepFits'
  BY DEF IInv, StepFits
<1>3. BodyFits'
  BY DEF IInv, BodyFits
<1>4. NamesFit'
  BY DEF IInv, NamesFit
<1>5. ConfigFits'
  BY DEF IInv, ConfigFits, BodyFits, Published
<1>6. KeptFits'
  BY DEF IInv, KeptFits, Holds
<1>7. card' \in hist' /\ GateFits' /\ TokenIsItsServers' /\ SliceAsksItsServer'
  BY DEF IInv, GateFits, TokenIsItsServers, SliceAsksItsServer
<1> QED  BY <1>1, <1>2, <1>3, <1>4, <1>5, <1>6, <1>7 DEF IInv

(* Nothing but the standing changes between publishing and adopting.        *)
LEMMA EditUnpairsInv == ASSUME IInv, EditUnpairs PROVE IInv'
<1> USE DEF EditUnpairs, Slice
<1>1. TypeOK'
  <2>1. good' \in BOOLEAN /\ restored' \in BOOLEAN
    BY Zenon DEF IInv, TypeOK
  <2> QED  BY <2>1 DEF IInv, TypeOK
<1>2. StepFits'
  BY DEF IInv, StepFits
<1>3. BodyFits'
  BY DEF IInv, BodyFits
<1>4. NamesFit'
  BY DEF IInv, NamesFit
<1>5. ConfigFits'
  BY DEF IInv, ConfigFits, Published
<1>6. KeptFits'
  BY DEF IInv, KeptFits
<1>7. card' \in hist' /\ GateFits' /\ TokenIsItsServers' /\ SliceAsksItsServer'
  BY DEF IInv, GateFits, TokenIsItsServers, SliceAsksItsServer
<1> QED  BY <1>1, <1>2, <1>3, <1>4, <1>5, <1>6, <1>7 DEF IInv

(* Memory agrees with the card again.                                       *)
LEMMA EditAdoptsInv == ASSUME IInv, EditAdopts PROVE IInv'
<1> USE DEF EditAdopts, Release
<1>1. TypeOK'
  <2>1. good' \in BOOLEAN /\ restored' \in BOOLEAN
    BY Zenon DEF IInv, TypeOK
  <2> QED  BY <2>1 DEF IInv, TypeOK, BodyFits
<1>2. StepFits'
  BY DEF IInv, StepFits
<1>3. BodyFits'
  BY DEF IInv, BodyFits
<1>4. NamesFit'
  BY DEF IInv, NamesFit
<1>5. ConfigFits'
  BY DEF IInv, ConfigFits
<1>6. TokenIsItsServers'
  BY DEF IInv, TokenIsItsServers, ConfigFits
<1>7. KeptFits'
  BY DEF IInv, KeptFits, Holds
<1>8. card' \in hist' /\ GateFits' /\ SliceAsksItsServer'
  BY DEF IInv, GateFits, SliceAsksItsServer
<1> QED  BY <1>1, <1>2, <1>3, <1>4, <1>5, <1>6, <1>7, <1>8 DEF IInv

-----------------------------------------------------------------------------
(* Unpair.                                                                  *)

(* The player gives the pairing up: nothing is kept from here on.           *)
LEMMA UnpairInv == ASSUME IInv, Unpair PROVE IInv'
<1> USE DEF Unpair, Calls
<1>1. TypeOK'
  <2>1. good' \in BOOLEAN /\ restored' \in BOOLEAN
    BY Zenon DEF IInv, TypeOK
  <2> QED  BY <2>1 DEF IInv, TypeOK
<1>2. StepFits'
  BY DEF IInv, StepFits
<1>3. BodyFits'
  BY DEF IInv, BodyFits
<1>4. NamesFit'
  BY DEF IInv, NamesFit
<1>5. ConfigFits'
  BY DEF IInv, ConfigFits, Published
<1>6. KeptFits'
  BY DEF IInv, KeptFits
<1>7. card' \in hist' /\ GateFits' /\ TokenIsItsServers' /\ SliceAsksItsServer'
  BY DEF IInv, GateFits, TokenIsItsServers, SliceAsksItsServer
<1> QED  BY <1>1, <1>2, <1>3, <1>4, <1>5, <1>6, <1>7 DEF IInv

(* A token that would not go ends the Unpair.                               *)
LEMMA UnpairDiscardedInv == ASSUME IInv, UnpairDiscarded PROVE IInv'
<1> USE DEF UnpairDiscarded, Calls, Release, Returned
<1>1. TypeOK'
  <2>1. good' \in BOOLEAN /\ restored' \in BOOLEAN
    BY Zenon DEF IInv, TypeOK
  <2> QED  BY <2>1 DEF IInv, TypeOK
<1>2. StepFits'
  BY DEF IInv, StepFits
<1>3. BodyFits'
  BY DEF IInv, BodyFits
<1>4. NamesFit'
  BY DEF IInv, NamesFit
<1>5. ConfigFits'
  BY DEF IInv, ConfigFits, Published
<1>6. KeptFits'
  BY DEF IInv, KeptFits
<1>7. card' \in hist' /\ GateFits' /\ TokenIsItsServers' /\ SliceAsksItsServer'
  BY DEF IInv, GateFits, TokenIsItsServers, SliceAsksItsServer
<1> QED  BY <1>1, <1>2, <1>3, <1>4, <1>5, <1>6, <1>7 DEF IInv

(* The verdict goes after the token.                                        *)
LEMMA UnpairClearedInv == ASSUME IInv, UnpairCleared PROVE IInv'
<1> USE DEF UnpairCleared, Slice, Returned
<1>1. TypeOK'
  <2>1. good' \in BOOLEAN /\ restored' \in BOOLEAN
    BY Zenon DEF IInv, TypeOK
  <2> QED  BY <2>1 DEF IInv, TypeOK
<1>2. StepFits'
  BY DEF IInv, StepFits
<1>3. BodyFits'
  BY DEF IInv, BodyFits
<1>4. NamesFit'
  BY DEF IInv, NamesFit
<1>5. ConfigFits'
  BY DEF IInv, ConfigFits, Published
<1>6. KeptFits'
  BY DEF IInv, KeptFits, Holds
<1>7. card' \in hist' /\ GateFits' /\ TokenIsItsServers' /\ SliceAsksItsServer'
  BY DEF IInv, GateFits, TokenIsItsServers, SliceAsksItsServer
<1> QED  BY <1>1, <1>2, <1>3, <1>4, <1>5, <1>6, <1>7 DEF IInv

(* Memory forgets the token with the gate.                                  *)
LEMMA UnpairSliceInv == ASSUME IInv, UnpairSlice PROVE IInv'
<1> USE DEF UnpairSlice, Release, Reset
<1>1. TypeOK'
  <2>1. good' \in BOOLEAN /\ restored' \in BOOLEAN
    BY Zenon DEF IInv, TypeOK
  <2> QED  BY <2>1 DEF IInv, TypeOK, Gates
<1>2. StepFits'
  BY DEF IInv, StepFits
<1>3. BodyFits'
  BY DEF IInv, BodyFits
<1>4. GateFits'
  BY DEF IInv, GateFits
<1>5. NamesFit'
  BY DEF IInv, NamesFit
<1>6. ConfigFits'
  BY DEF IInv, ConfigFits, Published
<1>7. TokenIsItsServers'
  BY DEF IInv, TokenIsItsServers
<1>8. KeptFits'
  BY DEF IInv, KeptFits, Holds
<1>9. card' \in hist' /\ SliceAsksItsServer'
  BY DEF IInv, SliceAsksItsServer
<1> QED  BY <1>1, <1>2, <1>3, <1>4, <1>5, <1>6, <1>7, <1>8, <1>9 DEF IInv

-----------------------------------------------------------------------------
(* Pairing.                                                                 *)

(* An attempt is at the address in force, and newer than every other.       *)
LEMMA StartPairingInv == ASSUME IInv, StartPairing PROVE IInv'
<1> USE DEF StartPairing
<1>1. TypeOK'
  <2>1. good' \in BOOLEAN /\ restored' \in BOOLEAN
    BY Zenon DEF IInv, TypeOK
  <2> QED  BY <2>1 DEF IInv, TypeOK, Tokens
<1>2. ConfigFits'
  BY DEF IInv, ConfigFits, Published, IpcBusy
<1>3. KeptFits'
  BY DEF IInv, KeptFits, TypeOK, Tokens, Holds
<1>4. /\ card' \in hist' /\ StepFits' /\ BodyFits' /\ GateFits' /\ NamesFit' /\ TokenIsItsServers'
      /\ SliceAsksItsServer'
  BY DEF IInv, StepFits, BodyFits, GateFits, NamesFit, TokenIsItsServers, SliceAsksItsServer, File
<1> QED  BY <1>1, <1>2, <1>3, <1>4 DEF IInv

(* The pairing thread takes no attempt while one is being committed.        *)
LEMMA PairingTakesInv == ASSUME IInv, PairingTakes PROVE IInv'
<1> USE DEF PairingTakes
<1>1. TypeOK'
  <2>1. good' \in BOOLEAN /\ restored' \in BOOLEAN
    BY Zenon DEF IInv, TypeOK
  <2> QED  BY <2>1 DEF IInv, TypeOK
<1>2. BodyFits'
  BY DEF IInv, BodyFits
<1>3. KeptFits'
  BY DEF IInv, KeptFits, TypeOK, Tokens, Holds
<1>4. /\ card' \in hist' /\ StepFits' /\ GateFits' /\ NamesFit' /\ ConfigFits'
      /\ TokenIsItsServers' /\ SliceAsksItsServer'
  BY DEF IInv, StepFits, GateFits, NamesFit, ConfigFits, TokenIsItsServers, SliceAsksItsServer,
       File, Published
<1> QED  BY <1>1, <1>2, <1>3, <1>4 DEF IInv

(* An attempt that fails leaves everything as it is.                        *)
LEMMA PairingEndsInv == ASSUME IInv, PairingEnds PROVE IInv'
<1> USE DEF PairingEnds
<1>1. TypeOK'
  <2>1. good' \in BOOLEAN /\ restored' \in BOOLEAN
    BY Zenon DEF IInv, TypeOK
  <2> QED  BY <2>1 DEF IInv, TypeOK
<1>2. BodyFits'
  BY DEF IInv, BodyFits
<1>3. /\ card' \in hist' /\ StepFits' /\ GateFits' /\ NamesFit' /\ ConfigFits'
      /\ TokenIsItsServers' /\ SliceAsksItsServer' /\ KeptFits'
  BY DEF IInv, StepFits, GateFits, NamesFit, ConfigFits, TokenIsItsServers, SliceAsksItsServer,
       KeptFits, File, Published, Holds
<1> QED  BY <1>1, <1>2, <1>3 DEF IInv

(* A grant is nothing until it is committed.                                *)
LEMMA PairingApprovedInv == ASSUME IInv, PairingApproved PROVE IInv'
<1> USE DEF PairingApproved
<1>1. TypeOK'
  <2>1. good' \in BOOLEAN /\ restored' \in BOOLEAN
    BY Zenon DEF IInv, TypeOK
  <2> QED  BY <2>1 DEF IInv, TypeOK
<1>2. BodyFits'
  BY DEF IInv, BodyFits
<1>3. /\ card' \in hist' /\ StepFits' /\ GateFits' /\ NamesFit' /\ ConfigFits'
      /\ TokenIsItsServers' /\ SliceAsksItsServer' /\ KeptFits'
  BY DEF IInv, StepFits, GateFits, NamesFit, ConfigFits, TokenIsItsServers, SliceAsksItsServer,
       KeptFits, File, Published, Holds
<1> QED  BY <1>1, <1>2, <1>3 DEF IInv

(* The grant committed is of the attempt that stands, so of the address in  *)
(* force.                                                                   *)
LEMMA CommitBeginsInv == ASSUME IInv, CommitBegins PROVE IInv'
<1> USE DEF CommitBegins, Calls
<1>1. TypeOK'
  <2>1. good' \in BOOLEAN /\ restored' \in BOOLEAN
    BY Zenon DEF IInv, TypeOK
  <2> QED  BY <2>1 DEF IInv, TypeOK
<1>2. StepFits'
  BY DEF IInv, StepFits
<1>3. BodyFits'
  BY DEF IInv, BodyFits, ConfigFits
<1>4. NamesFit'
  BY DEF IInv, NamesFit, File
<1>5. ConfigFits'
  BY DEF IInv, ConfigFits, Published
<1>6. KeptFits'
  BY DEF IInv, KeptFits, Holds
<1>7. card' \in hist' /\ GateFits' /\ TokenIsItsServers' /\ SliceAsksItsServer'
  BY DEF IInv, GateFits, TokenIsItsServers, SliceAsksItsServer
<1> QED  BY <1>1, <1>2, <1>3, <1>4, <1>5, <1>6, <1>7 DEF IInv

(* A save that failed ends the commit.                                      *)
LEMMA CommitSavedInv == ASSUME IInv, CommitSaved PROVE IInv'
<1> USE DEF CommitSaved, Calls, Release, Returned
<1>1. TypeOK'
  <2>1. good' \in BOOLEAN /\ restored' \in BOOLEAN
    BY Zenon DEF IInv, TypeOK
  <2> QED  BY <2>1 DEF IInv, TypeOK
<1>2. StepFits'
  BY DEF IInv, StepFits
<1>3. BodyFits'
  BY DEF IInv, BodyFits
<1>4. NamesFit'
  BY DEF IInv, NamesFit
<1>5. ConfigFits'
  BY DEF IInv, ConfigFits, Published
<1>6. KeptFits'
  BY DEF IInv, KeptFits, Holds
<1>7. card' \in hist' /\ GateFits' /\ TokenIsItsServers' /\ SliceAsksItsServer'
  BY DEF IInv, GateFits, TokenIsItsServers, SliceAsksItsServer
<1> QED  BY <1>1, <1>2, <1>3, <1>4, <1>5, <1>6, <1>7 DEF IInv

(* A verdict that would not go does not end it.                             *)
LEMMA CommitClearedInv == ASSUME IInv, CommitCleared PROVE IInv'
<1> USE DEF CommitCleared, Slice, Returned
<1>1. TypeOK'
  <2>1. good' \in BOOLEAN /\ restored' \in BOOLEAN
    BY Zenon DEF IInv, TypeOK
  <2> QED  BY <2>1 DEF IInv, TypeOK
<1>2. StepFits'
  BY DEF IInv, StepFits
<1>3. BodyFits'
  BY DEF IInv, BodyFits
<1>4. NamesFit'
  BY DEF IInv, NamesFit
<1>5. ConfigFits'
  BY DEF IInv, ConfigFits, Published
<1>6. KeptFits'
  BY DEF IInv, KeptFits, Holds
<1>7. card' \in hist' /\ GateFits' /\ TokenIsItsServers' /\ SliceAsksItsServer'
  BY DEF IInv, GateFits, TokenIsItsServers, SliceAsksItsServer
<1> QED  BY <1>1, <1>2, <1>3, <1>4, <1>5, <1>6, <1>7 DEF IInv

(* The token adopted is of the address in force.                            *)
LEMMA CommitSliceInv == ASSUME IInv, CommitSlice PROVE IInv'
<1> USE DEF CommitSlice, Release, Reset
<1>1. TypeOK'
  <2>1. good' \in BOOLEAN /\ restored' \in BOOLEAN
    BY Zenon DEF IInv, TypeOK
  <2> QED  BY <2>1 DEF IInv, TypeOK, Gates
<1>2. StepFits'
  BY DEF IInv, StepFits
<1>3. BodyFits'
  BY DEF IInv, BodyFits
<1>4. GateFits'
  BY DEF IInv, GateFits
<1>5. NamesFit'
  BY DEF IInv, NamesFit
<1>6. ConfigFits'
  BY DEF IInv, ConfigFits, BodyFits, TypeOK, Tokens, Published
<1>7. TokenIsItsServers'
  BY DEF IInv, TokenIsItsServers, BodyFits
<1>8. KeptFits'
  BY DEF IInv, KeptFits, Holds
<1>9. card' \in hist' /\ SliceAsksItsServer'
  BY DEF IInv, SliceAsksItsServer
<1> QED  BY <1>1, <1>2, <1>3, <1>4, <1>5, <1>6, <1>7, <1>8, <1>9 DEF IInv

-----------------------------------------------------------------------------
(* The worker and its answers.                                              *)

(* A tick that has read only the address carries no token.                  *)
LEMMA TickReadsConfigInv == ASSUME IInv, TickReadsConfig PROVE IInv'
<1> USE DEF TickReadsConfig, Request
<1>1. TypeOK'
  <2>1. good' \in BOOLEAN /\ restored' \in BOOLEAN
    BY Zenon DEF IInv, TypeOK
  <2> QED  BY <2>1 DEF IInv, TypeOK, Requests
<1>2. SliceAsksItsServer'
  BY DEF IInv, SliceAsksItsServer
<1>3. /\ card' \in hist' /\ StepFits' /\ BodyFits' /\ GateFits' /\ NamesFit' /\ ConfigFits'
      /\ TokenIsItsServers' /\ KeptFits'
  BY DEF IInv, StepFits, BodyFits, GateFits, NamesFit, ConfigFits, TokenIsItsServers, KeptFits,
       File, Published, Holds
<1> QED  BY <1>1, <1>2, <1>3 DEF IInv

(* A tick is bound to its token in a later slice than to its address.       *)
LEMMA TickReadsTokenInv == ASSUME IInv, TickReadsToken PROVE IInv'
<1> USE DEF TickReadsToken, Request
<1>1. TypeOK'
  <2>1. good' \in BOOLEAN /\ restored' \in BOOLEAN
    BY Zenon DEF IInv, TypeOK
  <2> QED  BY <2>1 DEF IInv, TypeOK, Requests
<1>2. SliceAsksItsServer'
  BY DEF IInv, SliceAsksItsServer
<1>3. /\ card' \in hist' /\ StepFits' /\ BodyFits' /\ GateFits' /\ NamesFit' /\ ConfigFits'
      /\ TokenIsItsServers' /\ KeptFits'
  BY DEF IInv, StepFits, BodyFits, GateFits, NamesFit, ConfigFits, TokenIsItsServers, KeptFits,
       File, Published, Holds
<1> QED  BY <1>1, <1>2, <1>3 DEF IInv

(* A drain is bound to both in one slice.                                   *)
LEMMA DrainStartsInv == ASSUME IInv, DrainStarts PROVE IInv'
<1> USE DEF DrainStarts, Request
<1>1. TypeOK'
  <2>1. good' \in BOOLEAN /\ restored' \in BOOLEAN
    BY Zenon DEF IInv, TypeOK
  <2> QED  BY <2>1 DEF IInv, TypeOK, Requests
<1>2. SliceAsksItsServer'
  BY DEF IInv, SliceAsksItsServer, TokenIsItsServers
<1>3. /\ card' \in hist' /\ StepFits' /\ BodyFits' /\ GateFits' /\ NamesFit' /\ ConfigFits'
      /\ TokenIsItsServers' /\ KeptFits'
  BY DEF IInv, StepFits, BodyFits, GateFits, NamesFit, ConfigFits, TokenIsItsServers, KeptFits,
       File, Published, Holds
<1> QED  BY <1>1, <1>2, <1>3 DEF IInv

(* A page is bound to both in one slice.                                    *)
LEMMA PageStartsInv == ASSUME IInv, PageStarts PROVE IInv'
<1> USE DEF PageStarts, Request
<1>1. TypeOK'
  <2>1. good' \in BOOLEAN /\ restored' \in BOOLEAN
    BY Zenon DEF IInv, TypeOK
  <2> QED  BY <2>1 DEF IInv, TypeOK, Requests
<1>2. SliceAsksItsServer'
  BY DEF IInv, SliceAsksItsServer, TokenIsItsServers
<1>3. /\ card' \in hist' /\ StepFits' /\ BodyFits' /\ GateFits' /\ NamesFit' /\ ConfigFits'
      /\ TokenIsItsServers' /\ KeptFits'
  BY DEF IInv, StepFits, BodyFits, GateFits, NamesFit, ConfigFits, TokenIsItsServers, KeptFits,
       File, Published, Holds
<1> QED  BY <1>1, <1>2, <1>3 DEF IInv

(* What is written of the gate is one of the two verdicts.                  *)
LEMMA PersistBeginsInv == ASSUME IInv, PersistBegins PROVE IInv'
<1> USE DEF PersistBegins, Calls
<1>1. TypeOK'
  <2>1. good' \in BOOLEAN /\ restored' \in BOOLEAN
    BY Zenon DEF IInv, TypeOK
  <2> QED  BY <2>1 DEF IInv, TypeOK
<1>2. StepFits'
  BY DEF IInv, StepFits
<1>3. BodyFits'
  BY DEF IInv, BodyFits, TypeOK, Gates
<1>4. NamesFit'
  BY DEF IInv, NamesFit, File
<1>5. ConfigFits'
  BY DEF IInv, ConfigFits, Published
<1>6. KeptFits'
  BY DEF IInv, KeptFits, Holds
<1>7. card' \in hist' /\ GateFits' /\ TokenIsItsServers' /\ SliceAsksItsServer'
  BY DEF IInv, GateFits, TokenIsItsServers, SliceAsksItsServer
<1> QED  BY <1>1, <1>2, <1>3, <1>4, <1>5, <1>6, <1>7 DEF IInv

(* The write of a verdict touches no token.                                 *)
LEMMA PersistEndsInv == ASSUME IInv, PersistEnds PROVE IInv'
<1> USE DEF PersistEnds, Release, Returned
<1>1. TypeOK'
  <2>1. good' \in BOOLEAN /\ restored' \in BOOLEAN
    BY Zenon DEF IInv, TypeOK
  <2> QED  BY <2>1 DEF IInv, TypeOK
<1>2. StepFits'
  BY DEF IInv, StepFits
<1>3. BodyFits'
  BY DEF IInv, BodyFits
<1>4. NamesFit'
  BY DEF IInv, NamesFit
<1>5. ConfigFits'
  BY DEF IInv, ConfigFits, Published
<1>6. KeptFits'
  BY DEF IInv, KeptFits, Holds
<1>7. card' \in hist' /\ GateFits' /\ TokenIsItsServers' /\ SliceAsksItsServer'
  BY DEF IInv, GateFits, TokenIsItsServers, SliceAsksItsServer
<1> QED  BY <1>1, <1>2, <1>3, <1>4, <1>5, <1>6, <1>7 DEF IInv

(* One budget bounds both counts, and is spent only by closing the gate.    *)
LEMMA ObserveFits ==
    ASSUME NEW g \in Gates, NEW answer \in Answers, g.rev + g.den <= Budget,
           g.block = "none" => g.rev + g.den < Budget
    PROVE  /\ Observe(g, answer) \in Gates
           /\ Observe(g, answer).rev + Observe(g, answer).den <= Budget
           /\ Observe(g, answer).block = "none" =>
                 Observe(g, answer).rev + Observe(g, answer).den < Budget
<1>1. CASE answer = "silent" \/ (answer # "accepted" /\ g.block # "none")
  <2>1. Observe(g, answer) = g
    BY <1>1 DEF Observe
  <2> QED  BY <2>1
<1>2. CASE answer = "accepted"
  <2>1. Observe(g, answer) = [rev |-> 0, den |-> 0, block |-> g.block]
    BY <1>2 DEF Observe
  <2> QED  BY <2>1 DEF Gates
<1>3. CASE answer \in {"rejected", "forbidden"} /\ g.block = "none"
  <2> DEFINE rev == IF answer = "rejected" THEN g.rev + 1 ELSE g.rev
             den == IF answer = "forbidden" THEN g.den + 1 ELSE g.den
             block == IF rev + den < Budget THEN "none"
                      ELSE IF rev >= den THEN "revoked" ELSE "scope_denied"
  <2>1. Observe(g, answer) = [rev |-> rev, den |-> den, block |-> block]
    BY <1>3 DEF Observe
  <2>2. g.rev \in Nat /\ g.den \in Nat
    BY DEF Gates
  <2>3. rev \in 0 .. Budget /\ den \in 0 .. Budget /\ rev + den <= Budget
    BY <1>3, <2>2
  <2>4. block \in Blocks \cup {"none"} /\ (block = "none" => rev + den < Budget)
    OBVIOUS
  <2> QED  BY <2>1, <2>3, <2>4 DEF Gates
<1> QED  BY <1>1, <1>2, <1>3 DEF Answers

(* An answer moves the gate, and the tick to its next request.              *)
LEMMA AnsweredInv == ASSUME NEW answer \in Answers, IInv, Answered(answer) PROVE IInv'
<1> USE DEF Answered
<1>1. TypeOK' /\ GateFits'
  <2>1. good' \in BOOLEAN /\ restored' \in BOOLEAN
    BY Zenon DEF IInv, TypeOK
  <2>2. gate' \in Gates /\ gate'.rev + gate'.den <= Budget /\ GateFits'
    BY ObserveFits DEF IInv, TypeOK, GateFits
  <2>3. ask' \in Requests \cup {None}
    <3>1. PICK stage \in After(ask.stage, answer) :
             ask' = IF stage = "end" THEN None ELSE [ask EXCEPT !.stage = stage]
      OBVIOUS
    <3>2. stage \in {"saves", "states", "end"}
      BY DEF After
    <3> QED  BY <3>1, <3>2 DEF IInv, TypeOK, Requests
  <2>4. about' \subseteq Tokens \cup {None}
    BY DEF IInv, TypeOK, Requests
  <2> QED  BY <2>1, <2>2, <2>3, <2>4 DEF IInv, TypeOK, Gates
<1>2. SliceAsksItsServer'
  BY DEF IInv, TypeOK, Requests, SliceAsksItsServer
<1>3. /\ card' \in hist' /\ StepFits' /\ BodyFits' /\ NamesFit' /\ ConfigFits'
      /\ TokenIsItsServers' /\ KeptFits'
  BY DEF IInv, StepFits, BodyFits, NamesFit, ConfigFits, TokenIsItsServers, KeptFits, File,
         Published, Url, CardMatches, Holds
<1> QED  BY <1>1, <1>2, <1>3 DEF IInv

(* A boot: what LoadToken and LoadBlock make of any card a cut may leave.   *)
LEMMA LoadInv == ASSUME NEW c \in hist, NEW unread \in SUBSET Files, IInv, Load(c, unread),
                        UNCHANGED <<kept, attempts, edits>>,
                        faults' \in 0 .. MaxFaults, cuts' \in 0 .. MaxCuts
                 PROVE  IInv'
<1> USE DEF Load, Release, Reset
<1>0. CardOK(c) /\ CardMatches(c)
  BY DEF IInv, TypeOK, TokenIsItsServers
<1>1. TypeOK'
  <2>1. good' \in BOOLEAN /\ restored' \in BOOLEAN
    BY Zenon
  <2>2. LoadBlock(c) \in Blocks \cup {"none"}
    BY DEF LoadBlock
  <2>3. gate' \in Gates /\ gate'.rev + gate'.den <= Budget
    BY <2>2 DEF Gates, Restore
  <2>4. token' \in Tokens \cup {None} /\ config' \in Urls
    BY <1>0 DEF LoadToken, Url, CardOK, Record
  <2> QED  BY <1>0, <2>1, <2>3, <2>4 DEF IInv, TypeOK
<1>2. card' \in hist' /\ StepFits' /\ GateFits' /\ BodyFits' /\ NamesFit' /\ SliceAsksItsServer'
  BY DEF StepFits, GateFits, Restore, BodyFits, NamesFit, SliceAsksItsServer, File
<1>3. token' # None => token'.server = Url(c)
  BY <1>0 DEF LoadToken, CardMatches
<1>4. ConfigFits'
  BY <1>3 DEF ConfigFits, Published, Url
<1>5. TokenIsItsServers'
  BY <1>0, <1>3 DEF TokenIsItsServers
<1>6. KeptFits'
  BY DEF IInv, KeptFits, Holds
<1> QED  BY <1>1, <1>2, <1>4, <1>5, <1>6 DEF IInv

(* Every card a cut may leave is one the engine can boot from.              *)
LEMMA PowerCutInv == ASSUME IInv, PowerCut PROVE IInv'
<1>1. faults' \in 0 .. MaxFaults /\ cuts' \in 0 .. MaxCuts
  BY DEF PowerCut, Granted, Refused, IInv, TypeOK
<1>2. PICK c \in hist, unread \in SUBSET Files : Load(c, unread)
  BY DEF PowerCut
<1> QED  BY <1>1, <1>2, LoadInv DEF PowerCut

-----------------------------------------------------------------------------
(* The calls on the card.                                                   *)

(* The card after one record changed.                                       *)
LEMMA PutFits ==
    ASSUME NEW f \in Files, NEW main, NEW old, IInv, Put(f, main, old),
           [main |-> main, old |-> old] \in
              IF f = "token" THEN Record(Tokens \cup {Junk})
              ELSE IF f = "auth" THEN Record(Blocks \cup {Junk}) ELSE Record(Servers)
    PROVE  /\ CardOK(card') /\ \A c \in hist' : CardOK(c)
           /\ card' \in hist' /\ hist' = hist \cup {card'}
           /\ card'[f].main = main /\ card'[f].old = old
           /\ \A g \in Files \ {f} : card'[g] = card[g]
<1>1. DOMAIN card = Files
  BY DEF IInv, TypeOK, CardOK
<1>2. card' = [card EXCEPT ![f] = [main |-> main, old |-> old]] /\ hist' = hist \cup {card'}
  BY DEF Put
<1>3. DOMAIN card' = Files /\ card'[f] = [main |-> main, old |-> old]
      /\ \A g \in Files \ {f} : card'[g] = card[g]
  BY <1>1, <1>2
<1>4. CardOK(card')
  BY <1>3 DEF IInv, TypeOK, CardOK
<1> QED  BY <1>2, <1>3, <1>4 DEF IInv, TypeOK

(* Which of the paths a call belongs to.                                    *)
LEMMA FileFits ==
    ASSUME IInv
    PROVE  /\ File \in Files
           /\ step \in WriteSteps =>
                 /\ File = "token" => pc = "commitSave"
                 /\ File = "auth" => pc = "observeSave"
                 /\ File = "config" => pc \in {"editWrite", "editKeep"}
           /\ step \in {"shred", "shredOld"} =>
                 /\ File = "token" => pc \in Discards
                 /\ File = "auth" => pc \in Clears
                 /\ File # "config"
BY DEF IInv, StepFits, File

(* What a call on the card leaves alone.                                    *)
Frame == UNCHANGED <<pc, body, config, token, standing, attempt, pairing, worker, bounds>>

LEMMA FrameFits ==
    ASSUME IInv, Frame, good' \in BOOLEAN, step' \in Steps, faults' \in 0 .. MaxFaults,
           CardOK(card'), \A c \in hist' : CardOK(c), kept' \in Tokens \cup {None}
    PROVE  TypeOK' /\ GateFits' /\ SliceAsksItsServer'
<1>1. restored' \in BOOLEAN
  BY Zenon DEF Frame, IInv, TypeOK
<1> QED  BY <1>1 DEF Frame, IInv, TypeOK, GateFits, SliceAsksItsServer

(* A step that adds one card to the ones a cut may leave.                   *)
LEMMA AddFits ==
    ASSUME IInv, Frame, kept' = kept, hist' = hist \cup {card'}, CardMatches(card'),
           kept # None => Holds(card') 
    PROVE  card' \in hist' /\ TokenIsItsServers' /\ KeptFits'
BY DEF IInv, Frame, TokenIsItsServers, KeptFits, Holds

(* Staging touches none of the names that are read.                         *)
LEMMA WriteStagedInv == ASSUME IInv, WriteStaged PROVE IInv'
<1> USE DEF WriteStaged, Refused, Granted, Returns
<1>1. TypeOK'
  <2>1. good' \in BOOLEAN /\ restored' \in BOOLEAN
    BY Zenon DEF IInv, TypeOK
  <2> QED  BY <2>1 DEF IInv, TypeOK
<1>2. StepFits'
  BY DEF IInv, StepFits
<1>3. NamesFit'
  BY DEF IInv, NamesFit, File
<1>4. ConfigFits'
  BY DEF IInv, ConfigFits, Published
<1>5. /\ card' \in hist' /\ BodyFits' /\ GateFits' /\ TokenIsItsServers' /\ SliceAsksItsServer'
      /\ KeptFits'
  BY DEF IInv, BodyFits, GateFits, TokenIsItsServers, SliceAsksItsServer, KeptFits, Holds
<1> QED  BY <1>1, <1>2, <1>3, <1>4, <1>5 DEF IInv

(* A stale `.old` goes only while its file is there.                        *)
LEMMA DropPreviousInv == ASSUME IInv, DropPrevious PROVE IInv'
<1> USE DEF DropPrevious, Granted, Refused, Returns
<1>1. Frame /\ kept' = kept
  BY DEF Frame
<1>2. good' \in BOOLEAN
  BY Zenon DEF IInv, TypeOK
<1>3. step' \in Steps /\ faults' \in 0 .. MaxFaults
  BY DEF IInv, TypeOK
<1>4. CASE Put(File, card[File].main, None)
  <2>0. Put(File, card[File].main, None)
    BY <1>4
  <2>1. /\ CardOK(card') /\ \A c \in hist' : CardOK(c)
        /\ card' \in hist' /\ hist' = hist \cup {card'}
        /\ card'[File].main = card[File].main /\ card'[File].old = None
        /\ \A g \in Files \ {File} : card'[g] = card[g]
    <3>1. [main |-> card[File].main, old |-> None] \in
             IF File = "token" THEN Record(Tokens \cup {Junk})
             ELSE IF File = "auth" THEN Record(Blocks \cup {Junk}) ELSE Record(Servers)
      BY FileFits DEF IInv, TypeOK, CardOK, Record, BodyFits
    <3> QED  BY <2>0, <3>1, PutFits, FileFits
  <2>2. TypeOK' /\ GateFits' /\ SliceAsksItsServer'
    BY <1>1, <1>2, <1>3, <2>1, FrameFits DEF IInv, TypeOK
  <2>3. pc # "editWrite" => Url(card') = Url(card)
    BY <1>4, <2>1, FileFits DEF IInv, BodyFits, NamesFit, Url
  <2>4. CardMatches(card')
    BY <1>4, <2>1, <2>3, FileFits DEF IInv, TokenIsItsServers, CardMatches, BodyFits, NamesFit,
       ConfigFits, Published, TypeOK, Tokens
  <2>5. kept # None => Holds(card')
    BY <1>4, <2>1, FileFits DEF IInv, KeptFits, Holds, BodyFits, NamesFit, TypeOK, Tokens
  <2>6. card' \in hist' /\ TokenIsItsServers' /\ KeptFits'
    BY <1>1, <2>1, <2>4, <2>5, AddFits
  <2>7. StepFits' /\ BodyFits' /\ NamesFit'
    BY <1>1, <1>4, <2>1, <2>3, FileFits DEF Frame, IInv, StepFits, BodyFits, NamesFit, File
  <2>8. ConfigFits'
    BY <1>1, <1>4, <2>1, <2>3, FileFits DEF Frame, IInv, ConfigFits, Published, StepFits, NamesFit,
       BodyFits, Url
  <2> QED  BY <2>2, <2>6, <2>7, <2>8 DEF IInv
<1>5. CASE UNCHANGED disk
  <2>1. TypeOK' /\ GateFits' /\ SliceAsksItsServer'
    BY <1>1, <1>2, <1>3, <1>5, FrameFits DEF IInv, TypeOK
  <2>2. card' \in hist' /\ TokenIsItsServers' /\ KeptFits'
    BY <1>1, <1>5 DEF Frame, IInv, TokenIsItsServers, KeptFits, Holds
  <2>3. StepFits' /\ BodyFits' /\ NamesFit'
    BY <1>1, <1>5 DEF Frame, IInv, StepFits, BodyFits, NamesFit, File, Url
  <2>4. ConfigFits'
    BY <1>1, <1>5 DEF Frame, IInv, ConfigFits, Published, StepFits, Url
  <2> QED  BY <2>1, <2>2, <2>3, <2>4 DEF IInv
<1> QED  BY <1>4, <1>5

(* What is moved aside is still found, as the `.old`.                       *)
LEMMA MoveAsideInv == ASSUME IInv, MoveAside PROVE IInv'
<1> USE DEF MoveAside, Granted, Refused, Returns
<1>1. Frame /\ kept' = kept
  BY DEF Frame
<1>2. good' \in BOOLEAN
  BY Zenon DEF IInv, TypeOK
<1>3. step' \in Steps /\ faults' \in 0 .. MaxFaults
  BY DEF IInv, TypeOK
<1>4. CASE Put(File, None, card[File].main) /\ card[File].old = None /\ step' = "swap"
  <2>0. Put(File, None, card[File].main)
    BY <1>4
  <2>1. /\ CardOK(card') /\ \A c \in hist' : CardOK(c)
        /\ card' \in hist' /\ hist' = hist \cup {card'}
        /\ card'[File].main = None /\ card'[File].old = card[File].main
        /\ \A g \in Files \ {File} : card'[g] = card[g]
    <3>1. [main |-> None, old |-> card[File].main] \in
             IF File = "token" THEN Record(Tokens \cup {Junk})
             ELSE IF File = "auth" THEN Record(Blocks \cup {Junk}) ELSE Record(Servers)
      BY FileFits DEF IInv, TypeOK, CardOK, Record, BodyFits
    <3> QED  BY <2>0, <3>1, PutFits, FileFits
  <2>2. TypeOK' /\ GateFits' /\ SliceAsksItsServer'
    BY <1>1, <1>2, <1>3, <2>1, FrameFits DEF IInv, TypeOK
  <2>3. pc # "editWrite" => Url(card') = Url(card)
    BY <1>4, <2>1, FileFits DEF IInv, BodyFits, NamesFit, Url
  <2>4. CardMatches(card')
    BY <1>4, <2>1, <2>3, FileFits DEF IInv, TokenIsItsServers, CardMatches, BodyFits, NamesFit,
       ConfigFits, Published, TypeOK, Tokens
  <2>5. kept # None => Holds(card')
    BY <1>4, <2>1, FileFits DEF IInv, KeptFits, Holds, BodyFits, NamesFit, TypeOK, Tokens
  <2>6. card' \in hist' /\ TokenIsItsServers' /\ KeptFits'
    BY <1>1, <2>1, <2>4, <2>5, AddFits
  <2>7. StepFits' /\ BodyFits' /\ NamesFit'
    BY <1>1, <1>4, <2>1, <2>3, FileFits DEF Frame, IInv, StepFits, BodyFits, NamesFit, File
  <2>8. ConfigFits'
    BY <1>1, <1>4, <2>1, <2>3, FileFits DEF Frame, IInv, ConfigFits, Published, StepFits, NamesFit,
       BodyFits, Url
  <2> QED  BY <2>2, <2>6, <2>7, <2>8 DEF IInv
<1>5. CASE UNCHANGED disk /\ step' = "done"
  <2>1. TypeOK' /\ GateFits' /\ SliceAsksItsServer'
    BY <1>1, <1>2, <1>3, <1>5, FrameFits DEF IInv, TypeOK
  <2>2. card' \in hist' /\ TokenIsItsServers' /\ KeptFits'
    BY <1>1, <1>5 DEF Frame, IInv, TokenIsItsServers, KeptFits, Holds
  <2>3. StepFits' /\ BodyFits' /\ NamesFit'
    BY <1>1, <1>5 DEF Frame, IInv, StepFits, BodyFits, NamesFit, File, Url
  <2>4. ConfigFits'
    BY <1>1, <1>5 DEF Frame, IInv, ConfigFits, Published, StepFits, Url
  <2> QED  BY <2>1, <2>2, <2>3, <2>4 DEF IInv
<1> QED  BY <1>4, <1>5

(* What is published is a token of the address in force, or an address with *)
(* no token beside it.                                                      *)
LEMMA PublishInv == ASSUME IInv, Publish PROVE IInv'
<1> USE DEF Publish, Granted, Refused, Returns
<1>1. Frame /\ kept' = kept
  BY DEF Frame
<1>2. good' \in BOOLEAN
  BY Zenon DEF IInv, TypeOK
<1>3. step' \in Steps /\ faults' \in 0 .. MaxFaults
  BY DEF IInv, TypeOK
<1>4. CASE Put(File, body, card[File].old) /\ step' = "tidy"
  <2>0. Put(File, body, card[File].old)
    BY <1>4
  <2>1. /\ CardOK(card') /\ \A c \in hist' : CardOK(c)
        /\ card' \in hist' /\ hist' = hist \cup {card'}
        /\ card'[File].main = body /\ card'[File].old = card[File].old
        /\ \A g \in Files \ {File} : card'[g] = card[g]
    <3>1. [main |-> body, old |-> card[File].old] \in
             IF File = "token" THEN Record(Tokens \cup {Junk})
             ELSE IF File = "auth" THEN Record(Blocks \cup {Junk}) ELSE Record(Servers)
      BY FileFits, ZenonT(30) DEF IInv, TypeOK, CardOK, Record, BodyFits
    <3> QED  BY <2>0, <3>1, PutFits, FileFits
  <2>2. TypeOK' /\ GateFits' /\ SliceAsksItsServer'
    BY <1>1, <1>2, <1>3, <2>1, FrameFits DEF IInv, TypeOK
  <2>3. pc # "editWrite" => Url(card') = Url(card)
    BY <1>4, <2>1, FileFits DEF IInv, BodyFits, NamesFit, Url
  <2>4. CardMatches(card')
    BY <1>4, <2>1, <2>3, FileFits DEF IInv, TokenIsItsServers, CardMatches, BodyFits, NamesFit,
       ConfigFits, Published, TypeOK, Tokens
  <2>5. kept # None => Holds(card')
    BY <1>4, <2>1, FileFits DEF IInv, KeptFits, Holds, BodyFits, NamesFit, TypeOK, Tokens
  <2>6. card' \in hist' /\ TokenIsItsServers' /\ KeptFits'
    BY <1>1, <2>1, <2>4, <2>5, AddFits
  <2>7. StepFits' /\ BodyFits' /\ NamesFit'
    BY <1>1, <1>4, <2>1, <2>3, FileFits DEF Frame, IInv, StepFits, BodyFits, NamesFit, File
  <2>8. ConfigFits'
    BY <1>1, <1>4, <2>1, <2>3, FileFits DEF Frame, IInv, ConfigFits, Published, StepFits, NamesFit,
       BodyFits, Url
  <2> QED  BY <2>2, <2>6, <2>7, <2>8 DEF IInv
<1>5. CASE step = "swap" /\ Put(File, card[File].old, None) /\ step' = "done" /\ good' = FALSE
  <2>0. Put(File, card[File].old, None)
    BY <1>5
  <2>1. /\ CardOK(card') /\ \A c \in hist' : CardOK(c)
        /\ card' \in hist' /\ hist' = hist \cup {card'}
        /\ card'[File].main = card[File].old /\ card'[File].old = None
        /\ \A g \in Files \ {File} : card'[g] = card[g]
    <3>1. [main |-> card[File].old, old |-> None] \in
             IF File = "token" THEN Record(Tokens \cup {Junk})
             ELSE IF File = "auth" THEN Record(Blocks \cup {Junk}) ELSE Record(Servers)
      BY FileFits DEF IInv, TypeOK, CardOK, Record, BodyFits
    <3> QED  BY <2>0, <3>1, PutFits, FileFits
  <2>2. TypeOK' /\ GateFits' /\ SliceAsksItsServer'
    BY <1>1, <1>2, <1>3, <2>1, FrameFits DEF IInv, TypeOK
  <2>3. pc # "editWrite" => Url(card') = Url(card)
    BY <1>5, <2>1, FileFits DEF IInv, BodyFits, NamesFit, Url
  <2>4. CardMatches(card')
    BY <1>5, <2>1, <2>3, FileFits DEF IInv, TokenIsItsServers, CardMatches, BodyFits, NamesFit,
       ConfigFits, Published, TypeOK, Tokens
  <2>5. kept # None => Holds(card')
    BY <1>5, <2>1, FileFits DEF IInv, KeptFits, Holds, BodyFits, NamesFit, TypeOK, Tokens
  <2>6. card' \in hist' /\ TokenIsItsServers' /\ KeptFits'
    BY <1>1, <2>1, <2>4, <2>5, AddFits
  <2>7. StepFits' /\ BodyFits' /\ NamesFit'
    BY <1>1, <1>5, <2>1, <2>3, FileFits DEF Frame, IInv, StepFits, BodyFits, NamesFit, File
  <2>8. ConfigFits'
    BY <1>1, <1>5, <2>1, <2>3, FileFits DEF Frame, IInv, ConfigFits, Published, StepFits, NamesFit,
       BodyFits, Url
  <2> QED  BY <2>2, <2>6, <2>7, <2>8 DEF IInv
<1>6. CASE UNCHANGED disk /\ step' = "done" /\ good' = FALSE
  <2>1. TypeOK' /\ GateFits' /\ SliceAsksItsServer'
    BY <1>1, <1>2, <1>3, <1>6, FrameFits DEF IInv, TypeOK
  <2>2. card' \in hist' /\ TokenIsItsServers' /\ KeptFits'
    BY <1>1, <1>6 DEF Frame, IInv, TokenIsItsServers, KeptFits, Holds
  <2>3. StepFits' /\ BodyFits' /\ NamesFit'
    BY <1>1, <1>6 DEF Frame, IInv, StepFits, BodyFits, NamesFit, File, Url
  <2>4. ConfigFits'
    BY <1>1, <1>6 DEF Frame, IInv, ConfigFits, Published, StepFits, Url
  <2> QED  BY <2>1, <2>2, <2>3, <2>4 DEF IInv
<1> QED  BY <1>4, <1>5, <1>6

(* The `.old` goes once the new file has the name.                          *)
LEMMA TidyPreviousInv == ASSUME IInv, TidyPrevious PROVE IInv'
<1> USE DEF TidyPrevious, Granted, Refused, Returns
<1>1. Frame /\ kept' = kept
  BY DEF Frame
<1>2. good' \in BOOLEAN
  BY Zenon DEF IInv, TypeOK
<1>3. step' \in Steps /\ faults' \in 0 .. MaxFaults
  BY DEF IInv, TypeOK
<1>4. CASE Put(File, card[File].main, None)
  <2>0. Put(File, card[File].main, None)
    BY <1>4
  <2>1. /\ CardOK(card') /\ \A c \in hist' : CardOK(c)
        /\ card' \in hist' /\ hist' = hist \cup {card'}
        /\ card'[File].main = card[File].main /\ card'[File].old = None
        /\ \A g \in Files \ {File} : card'[g] = card[g]
    <3>1. [main |-> card[File].main, old |-> None] \in
             IF File = "token" THEN Record(Tokens \cup {Junk})
             ELSE IF File = "auth" THEN Record(Blocks \cup {Junk}) ELSE Record(Servers)
      BY FileFits DEF IInv, TypeOK, CardOK, Record, BodyFits
    <3> QED  BY <2>0, <3>1, PutFits, FileFits
  <2>2. TypeOK' /\ GateFits' /\ SliceAsksItsServer'
    BY <1>1, <1>2, <1>3, <2>1, FrameFits DEF IInv, TypeOK
  <2>3. pc # "editWrite" => Url(card') = Url(card)
    BY <1>4, <2>1, FileFits DEF IInv, BodyFits, NamesFit, Url
  <2>4. CardMatches(card')
    BY <1>4, <2>1, <2>3, FileFits DEF IInv, TokenIsItsServers, CardMatches, BodyFits, NamesFit,
       ConfigFits, Published, TypeOK, Tokens
  <2>5. kept # None => Holds(card')
    BY <1>4, <2>1, FileFits DEF IInv, KeptFits, Holds, BodyFits, NamesFit, TypeOK, Tokens
  <2>6. card' \in hist' /\ TokenIsItsServers' /\ KeptFits'
    BY <1>1, <2>1, <2>4, <2>5, AddFits
  <2>7. StepFits' /\ BodyFits' /\ NamesFit'
    BY <1>1, <1>4, <2>1, <2>3, FileFits DEF Frame, IInv, StepFits, BodyFits, NamesFit, File
  <2>8. ConfigFits'
    BY <1>1, <1>4, <2>1, <2>3, FileFits DEF Frame, IInv, ConfigFits, Published, StepFits, NamesFit,
       BodyFits, Url
  <2> QED  BY <2>2, <2>6, <2>7, <2>8 DEF IInv
<1>5. CASE UNCHANGED disk
  <2>1. TypeOK' /\ GateFits' /\ SliceAsksItsServer'
    BY <1>1, <1>2, <1>3, <1>5, FrameFits DEF IInv, TypeOK
  <2>2. card' \in hist' /\ TokenIsItsServers' /\ KeptFits'
    BY <1>1, <1>5 DEF Frame, IInv, TokenIsItsServers, KeptFits, Holds
  <2>3. StepFits' /\ BodyFits' /\ NamesFit'
    BY <1>1, <1>5 DEF Frame, IInv, StepFits, BodyFits, NamesFit, File, Url
  <2>4. ConfigFits'
    BY <1>1, <1>5 DEF Frame, IInv, ConfigFits, Published, StepFits, Url
  <2> QED  BY <2>1, <2>2, <2>3, <2>4 DEF IInv
<1> QED  BY <1>4, <1>5

(* A commit the card confirmed is the pairing kept.                         *)
LEMMA SyncNameInv == ASSUME IInv, SyncName PROVE IInv'
<1> USE DEF SyncName, Granted, Refused, Returns
<1>1. Frame /\ card' = card
  BY DEF Frame
<1>2. good' \in BOOLEAN
  BY Zenon
<1>3. step' = "done" /\ good' = TRUE /\ faults' \in 0 .. MaxFaults
  BY DEF IInv, TypeOK
<1>4. card' \in hist' /\ hist' \subseteq hist
  BY DEF IInv
<1>5. kept' # kept => pc = "commitSave" /\ kept' = driven /\ hist' = {card} /\ driven \in Tokens
                      /\ card["token"].main = driven
  BY DEF IInv, BodyFits, NamesFit, File, TypeOK
<1>6. TypeOK' /\ GateFits' /\ SliceAsksItsServer'
  BY <1>1, <1>2, <1>3, <1>4, <1>5, FrameFits DEF IInv, TypeOK
<1>7. StepFits' /\ BodyFits' /\ NamesFit'
  BY <1>1, <1>3, FileFits DEF Frame, IInv, StepFits, BodyFits, NamesFit, File, Url
<1>8. ConfigFits'
  BY <1>1, <1>3 DEF Frame, IInv, ConfigFits, Published, StepFits, Url
<1>9. TokenIsItsServers'
  BY <1>1, <1>4 DEF Frame, IInv, TokenIsItsServers
<1>10. KeptFits'
  <2>1. CASE kept' = kept
    BY <1>1, <1>4, <2>1 DEF Frame, IInv, KeptFits, Holds
  <2>2. CASE kept' # kept
    BY <1>1, <1>5, <2>2 DEF Frame, IInv, KeptFits, Holds, Tokens
  <2> QED  BY <2>1, <2>2
<1> QED  BY <1>4, <1>6, <1>7, <1>8, <1>9, <1>10 DEF IInv

(* Zeroes over a name, or the name gone, under a path that keeps no token.  *)
LEMMA ShredFits ==
    ASSUME NEW c, IInv, step \in {"shred", "shredOld"}, DOMAIN c = Files,
           \A g \in Files \ {File} : c[g] = card[g],
           \/ c[File] \in [main : {None, Junk}, old : {card[File].old}]
           \/ c[File] \in [main : {card[File].main}, old : {None, Junk}]
           \/ c[File] = card[File]
    PROVE  CardOK(c) /\ CardMatches(c) /\ Url(c) = Url(card) /\ (kept # None => Holds(c))
<1>1. File \in {"token", "auth"} /\ c["config"] = card["config"]
  BY FileFits
<1>2. Url(c) = Url(card)
  BY <1>1 DEF Url
<1>3. CardOK(c)
  BY <1>1 DEF IInv, TypeOK, CardOK, Record
<1>4. CardMatches(c)
  <2>1. CardMatches(card) /\ None \notin Tokens /\ Junk \notin Tokens
    BY DEF IInv, TokenIsItsServers, Tokens
  <2>2. CASE File = "auth"
    BY <1>2, <2>1, <2>2 DEF CardMatches
  <2>3. CASE File = "token"
    BY <1>2, <2>1, <2>3 DEF CardMatches
  <2> QED  BY <1>1, <2>2, <2>3
<1>5. kept # None => Holds(c)
  <2>1. CASE File = "token"
    BY <2>1, FileFits DEF IInv, KeptFits
  <2>2. CASE File = "auth"
    BY <2>2 DEF IInv, KeptFits, Holds
  <2> QED  BY <1>1, <2>1, <2>2
<1> QED  BY <1>2, <1>3, <1>4, <1>5

(* A token is overwritten only where none is kept.                          *)
LEMMA ShredMainInv == ASSUME IInv, ShredMain PROVE IInv'
<1> USE DEF ShredMain, Granted, Refused
<1> DEFINE zeroed == [card EXCEPT ![File].main = IF @ = None THEN None ELSE Junk]
           gone == [card EXCEPT ![File].main = None]
<1>1. Frame /\ kept' = kept /\ step' = "shredOld" /\ faults' \in 0 .. MaxFaults
  BY DEF Frame, IInv, TypeOK
<1>2. good' \in BOOLEAN
  BY Zenon DEF IInv, TypeOK
<1>3. /\ DOMAIN card = Files /\ File \in Files
      /\ card["token"] \in Record(Tokens \cup {Junk}) /\ card["auth"] \in Record(Blocks \cup {Junk})
      /\ card["config"] \in Record(Servers)
  BY FileFits DEF IInv, TypeOK, CardOK
<1>4. /\ DOMAIN zeroed = Files /\ DOMAIN gone = Files
      /\ \A g \in Files \ {File} : zeroed[g] = card[g] /\ gone[g] = card[g]
  BY <1>3
<1>5. /\ gone[File].main = None /\ gone[File].old = card[File].old
      /\ zeroed[File].old = card[File].old /\ zeroed[File].main \in {None, Junk}
      /\ gone[File] \in [main : {None, Junk}, old : {card[File].old}]
      /\ zeroed[File] \in [main : {None, Junk}, old : {card[File].old}]
  BY <1>3 DEF Record
<1>6. \A c \in {zeroed, gone, card} : CardOK(c) /\ CardMatches(c) /\ Url(c) = Url(card)
                                       /\ (kept # None => Holds(c))
  BY <1>4, <1>5, <1>3, ShredFits
<1>7. card' \in {zeroed, gone, card} /\ card' \in hist' /\ hist' \subseteq hist \cup {zeroed, gone}
  BY DEF IInv
<1> HIDE DEF zeroed, gone
<1>8. TypeOK' /\ GateFits' /\ SliceAsksItsServer'
  BY <1>1, <1>2, <1>6, <1>7, FrameFits DEF IInv, TypeOK
<1>9. TokenIsItsServers' /\ KeptFits'
  BY <1>1, <1>6, <1>7 DEF Frame, IInv, TokenIsItsServers, KeptFits, Holds
<1>10. StepFits' /\ BodyFits'
  BY <1>1, <1>6, <1>7 DEF Frame, IInv, StepFits, BodyFits
<1>11. ConfigFits'
  BY <1>1, <1>6, <1>7, FileFits DEF Frame, IInv, ConfigFits, Published, StepFits
<1>12. good' => card'[File].main = None /\ card'[File].old = card[File].old
  BY <1>5 DEF zeroed, gone
<1>13. \A g \in Files \ {File} : card'[g] = card[g]
  BY <1>4, <1>7
<1>14. NamesFit'
  BY <1>1, <1>12, <1>13, FileFits DEF Frame, IInv, NamesFit, StepFits, File
<1> QED  BY <1>7, <1>8, <1>9, <1>10, <1>11, <1>14 DEF IInv

(* A discard that succeeded left no token under either name.                *)
LEMMA ShredOldInv == ASSUME IInv, ShredOld PROVE IInv'
<1> USE DEF ShredOld, Granted, Refused
<1> DEFINE zeroed == [card EXCEPT ![File].old = IF @ = None THEN None ELSE Junk]
           gone == [card EXCEPT ![File].old = None]
<1>1. Frame /\ kept' = kept /\ step' = "done" /\ faults' \in 0 .. MaxFaults
  BY DEF Frame, IInv, TypeOK
<1>2. good' \in BOOLEAN
  BY Zenon DEF IInv, TypeOK
<1>3. /\ DOMAIN card = Files /\ File \in Files
      /\ card["token"] \in Record(Tokens \cup {Junk}) /\ card["auth"] \in Record(Blocks \cup {Junk})
      /\ card["config"] \in Record(Servers)
  BY FileFits DEF IInv, TypeOK, CardOK
<1>4. /\ DOMAIN zeroed = Files /\ DOMAIN gone = Files
      /\ \A g \in Files \ {File} : zeroed[g] = card[g] /\ gone[g] = card[g]
  BY <1>3
<1>5. /\ gone[File].old = None /\ gone[File].main = card[File].main
      /\ zeroed[File].main = card[File].main /\ zeroed[File].old \in {None, Junk}
      /\ gone[File] \in [old : {None, Junk}, main : {card[File].main}]
      /\ zeroed[File] \in [old : {None, Junk}, main : {card[File].main}]
  BY <1>3 DEF Record
<1>6. \A c \in {zeroed, gone, card} : CardOK(c) /\ CardMatches(c) /\ Url(c) = Url(card)
                                       /\ (kept # None => Holds(c))
  BY <1>4, <1>5, <1>3, ShredFits
<1>7. card' \in {zeroed, gone, card} /\ card' \in hist' /\ hist' \subseteq hist \cup {zeroed, gone}
  BY DEF IInv
<1> HIDE DEF zeroed, gone
<1>8. TypeOK' /\ GateFits' /\ SliceAsksItsServer'
  BY <1>1, <1>2, <1>6, <1>7, FrameFits DEF IInv, TypeOK
<1>9. TokenIsItsServers' /\ KeptFits'
  BY <1>1, <1>6, <1>7 DEF Frame, IInv, TokenIsItsServers, KeptFits, Holds
<1>10. StepFits' /\ BodyFits'
  BY <1>1, <1>6, <1>7 DEF Frame, IInv, StepFits, BodyFits
<1>11. ConfigFits'
  BY <1>1, <1>6, <1>7, FileFits DEF Frame, IInv, ConfigFits, Published, StepFits
<1>12. good' => card'[File].old = None /\ card'[File].main = card[File].main/\ good
  BY <1>5 DEF zeroed, gone
<1>13. \A g \in Files \ {File} : card'[g] = card[g]
  BY <1>4, <1>7
<1>14. NamesFit'
  BY <1>1, <1>12, <1>13, FileFits DEF Frame, IInv, NamesFit, StepFits, File
<1> QED  BY <1>7, <1>8, <1>9, <1>10, <1>11, <1>14 DEF IInv

-----------------------------------------------------------------------------

(* Every call on the card.                                                  *)
LEMMA CardStepInv == ASSUME IInv, CardStep PROVE IInv'
BY WriteStagedInv, DropPreviousInv, MoveAsideInv, PublishInv, TidyPreviousInv, SyncNameInv,
   ShredMainInv, ShredOldInv DEF CardStep

(* Every step of a change of server.                                        *)
LEMMA EditStepInv == ASSUME IInv, EditStep PROVE IInv'
BY ConfigEditInv, EditDiscardedInv, EditForgetsInv, EditClearedInv, EditResetsInv,
   EditUnwrittenInv, EditWrittenInv, EditUnpairsInv, EditAdoptsInv DEF EditStep

(* Every step of Unpair.                                                    *)
LEMMA UnpairStepInv == ASSUME IInv, UnpairStep PROVE IInv'
BY UnpairInv, UnpairDiscardedInv, UnpairClearedInv, UnpairSliceInv DEF UnpairStep

(* Every step of a pairing.                                                 *)
LEMMA PairingStepInv == ASSUME IInv, PairingStep PROVE IInv'
BY StartPairingInv, PairingTakesInv, PairingEndsInv, PairingApprovedInv, CommitBeginsInv,
   CommitSavedInv, CommitClearedInv, CommitSliceInv DEF PairingStep

(* Every step of the worker's requests.                                     *)
LEMMA WorkerStepInv == ASSUME IInv, WorkerStep PROVE IInv'
BY TickReadsConfigInv, TickReadsTokenInv, DrainStartsInv, PageStartsInv, AnsweredInv,
   PersistBeginsInv, PersistEndsInv DEF WorkerStep

(* A step that changes nothing.                                             *)
LEMMA StutterInv == ASSUME IInv, UNCHANGED vars PROVE IInv'
<1> USE DEF vars
<1>1. good' \in BOOLEAN /\ restored' \in BOOLEAN
  BY Zenon DEF IInv, TypeOK
<1>2. TypeOK'
  BY <1>1 DEF IInv, TypeOK
<1> QED
  BY <1>2 DEF IInv, StepFits, BodyFits, GateFits, NamesFit, ConfigFits, TokenIsItsServers,
     SliceAsksItsServer, KeptFits, File, Published, Url, CardMatches, Holds

(* The console before it was ever paired.                                   *)
LEMMA InitInv == ASSUME Init PROVE IInv
<1> USE DEF Init
<1>1. PICK url \in Urls :
         /\ card = [f \in Files |-> [main |-> IF f = "config" THEN url ELSE None, old |-> None]]
         /\ config = url
  OBVIOUS
<1>2. /\ DOMAIN card = Files
      /\ card["token"].main = None /\ card["token"].old = None
      /\ card["token"] \in Record(Tokens \cup {Junk}) /\ card["auth"] \in Record(Blocks \cup {Junk})
      /\ card["config"] \in Record(Servers) /\ Url(card) = url
  BY <1>1 DEF Record, Url
<1>3. TypeOK
  <2>1. good \in BOOLEAN /\ restored \in BOOLEAN
    BY Zenon
  <2>2. gate \in Gates /\ gate.rev + gate.den <= Budget
    BY DEF Reset, Gates
  <2>3. CardOK(card) /\ \A c \in hist : CardOK(c)
    BY <1>2 DEF CardOK
  <2> QED  BY <1>1, <2>1, <2>2, <2>3 DEF TypeOK
<1>4. card \in hist /\ StepFits /\ BodyFits /\ GateFits /\ SliceAsksItsServer /\ KeptFits
  BY DEF StepFits, BodyFits, GateFits, Reset, SliceAsksItsServer, KeptFits
<1>5. NamesFit /\ ConfigFits
  BY <1>1, <1>2 DEF NamesFit, ConfigFits, Published
<1>6. TokenIsItsServers
  BY <1>2 DEF TokenIsItsServers, CardMatches, Tokens
<1> QED  BY <1>3, <1>4, <1>5, <1>6 DEF IInv

-----------------------------------------------------------------------------
(* What auth.json says.                                                     *)

(* Nothing but a step of the call in progress changes the card, and only    *)
(* the record the call is about.                                            *)
LEMMA AuthKept ==
    ASSUME CardOK(card), NEW f \in Files \ {"auth"}, NEW main, NEW old, Put(f, main, old)
    PROVE  card'["auth"] = card["auth"]
BY DEF Put, CardOK

LEMMA AuthPut ==
    ASSUME CardOK(card), NEW main, NEW old, Put("auth", main, old)
    PROVE  card'["auth"] = [main |-> main, old |-> old]
BY DEF Put, CardOK

(* auth.json through a step of a write: only ObserveAnswer's is about it,   *)
(* and with nothing refused it publishes onto an empty name.                *)
LEMMA WriteAuth ==
    ASSUME IInv, Faultless => AuthFits, Faultless',
           WriteStaged \/ DropPrevious \/ MoveAside \/ Publish \/ TidyPrevious \/ SyncName
    PROVE  AuthFits'
<1> USE DEF Returns, Granted, Refused
<1>1. Faultless /\ AuthFits /\ CardOK(card) /\ pc \in Writes
  BY DEF IInv, TypeOK, Faultless, StepFits, WriteStaged, DropPrevious, MoveAside, Publish,
         TidyPrevious, SyncName
<1>2. Granted /\ UNCHANGED <<pc, body, gate, persist, cuts>>
  BY <1>1 DEF Faultless, IInv, TypeOK, WriteStaged, DropPrevious, MoveAside, Publish, TidyPrevious, SyncName
<1>3. CASE pc # "observeSave"
  <2>1. File \in Files \ {"auth"}
    BY <1>1, <1>3 DEF File
  <2>2. card'["auth"] = card["auth"]
    BY <1>1, <2>1, AuthKept DEF WriteStaged, DropPrevious, MoveAside, Publish, TidyPrevious, SyncName
  <2> QED  BY <1>1, <1>2, <1>3, <2>2 DEF AuthFits, LoadBlock
<1>4. CASE pc = "observeSave"
  <2>1. File = "auth"
    BY <1>4 DEF File
  <2>2. CASE WriteStaged
    BY <1>1, <1>2, <1>4, <2>1, <2>2 DEF WriteStaged, AuthFits, Faultless, IInv, TypeOK
  <2>3. CASE Publish
    <3>1. Put("auth", body, card["auth"].old) /\ step' = "tidy"
      BY <1>1, <1>2, <1>4, <2>1, <2>3 DEF Publish, AuthFits, Faultless, IInv, TypeOK
    <3>2. card'["auth"] = [main |-> body, old |-> None]
      BY <1>1, <1>4, <3>1, AuthPut DEF AuthFits
    <3> QED  BY <1>1, <1>2, <1>4, <3>1, <3>2 DEF AuthFits, IInv, BodyFits
  <2>4. CASE TidyPrevious
    <3>1. Put("auth", card["auth"].main, None) /\ step' = "sync"
      BY <1>1, <1>2, <1>4, <2>1, <2>4 DEF TidyPrevious, AuthFits, Faultless, IInv, TypeOK
    <3>2. card'["auth"] = [main |-> card["auth"].main, old |-> None]
      BY <1>1, <1>4, <3>1, AuthPut
    <3> QED  BY <1>1, <1>2, <1>4, <2>4, <3>1, <3>2 DEF AuthFits, IInv, BodyFits, TidyPrevious
  <2>5. CASE SyncName
    BY <1>1, <1>2, <1>4, <2>5 DEF SyncName, AuthFits
  <2>6. ~DropPrevious /\ ~MoveAside
    BY <1>1, <1>4 DEF DropPrevious, MoveAside, AuthFits
  <2> QED  BY <2>2, <2>3, <2>4, <2>5, <2>6
<1> QED  BY <1>3, <1>4

(* ... and through a step of a shred: with nothing refused the name is gone *)
(* when the call returns.                                                   *)
LEMMA ShredAuth ==
    ASSUME IInv, Faultless => AuthFits, Faultless', ShredMain \/ ShredOld
    PROVE  AuthFits'
<1> USE DEF Granted, Refused
<1>1. Faultless /\ AuthFits /\ CardOK(card) /\ pc \in Discards \cup Clears
  BY DEF IInv, TypeOK, Faultless, StepFits, ShredMain, ShredOld
<1>2. Granted /\ UNCHANGED <<pc, body, gate, persist, cuts>>
  BY <1>1 DEF Faultless, IInv, TypeOK, ShredMain, ShredOld
<1>3. \/ ShredMain /\ card' = [card EXCEPT ![File].main = None] /\ step' = "shredOld"
      \/ ShredOld /\ card' = [card EXCEPT ![File].old = None] /\ step' = "done"
  BY <1>1, <1>2 DEF Faultless, IInv, TypeOK, ShredMain, ShredOld
<1>4. CASE pc \in Discards
  <2>1. File = "token"
    BY <1>4 DEF File
  <2>2. card'["auth"] = card["auth"]
    BY <1>1, <1>3, <2>1 DEF CardOK
  <2> QED  BY <1>1, <1>2, <1>3, <1>4, <2>2 DEF AuthFits, LoadBlock
<1>5. CASE pc \in Clears
  <2>1. File = "auth"
    BY <1>5 DEF File
  <2>2. card'["auth"].main = None /\ card'["auth"].old = None
    BY <1>1, <1>3, <1>5, <2>1 DEF CardOK, AuthFits, Record, ShredMain, ShredOld
  <2> QED  BY <1>1, <1>2, <1>3, <1>5, <2>2 DEF AuthFits
<1> QED  BY <1>1, <1>4, <1>5

(* Every slice that opens the gate follows the shred of auth.json, and the  *)
(* holder of the card lock leaves it alone otherwise.                       *)
LEMMA HolderAuth ==
    ASSUME IInv, Faultless => AuthFits, Faultless', EditStep \/ UnpairStep
    PROVE  AuthFits'
<1> USE DEF Calls, Slice, Release, Returned
<1>1. Faultless /\ AuthFits
  BY DEF IInv, TypeOK, Faultless, EditStep, UnpairStep, ConfigEdit, EditDiscarded, EditForgets, EditCleared, EditResets,
         EditUnwritten, EditWritten, EditUnpairs, EditAdopts, Unpair, UnpairDiscarded, UnpairCleared, UnpairSlice
<1>2. ASSUME NEW url \in Servers, ConfigEdit(url) PROVE AuthFits'
  BY <1>1, <1>2 DEF ConfigEdit, AuthFits, LoadBlock
<1>3. CASE EditDiscarded \/ UnpairDiscarded
  BY <1>1, <1>3 DEF EditDiscarded, UnpairDiscarded, AuthFits, LoadBlock
<1>4. CASE EditForgets
  BY <1>1, <1>4 DEF EditForgets, AuthFits, LoadBlock
<1>5. CASE EditCleared \/ UnpairCleared
  BY <1>1, <1>5 DEF EditCleared, UnpairCleared, AuthFits, LoadBlock
<1>6. CASE EditResets
  BY <1>1, <1>6 DEF EditResets, AuthFits, LoadBlock, Reset
<1>7. CASE UnpairSlice
  BY <1>1, <1>7 DEF UnpairSlice, AuthFits, LoadBlock, Reset
<1>8. CASE EditUnwritten \/ EditWritten
  BY <1>1, <1>8 DEF EditUnwritten, EditWritten, AuthFits, LoadBlock
<1>9. CASE EditUnpairs \/ EditAdopts
  BY <1>1, <1>9 DEF EditUnpairs, EditAdopts, AuthFits, LoadBlock
<1>10. CASE Unpair
  BY <1>1, <1>10 DEF Unpair, AuthFits, LoadBlock
<1> QED  BY <1>2, <1>3, <1>4, <1>5, <1>6, <1>7, <1>8, <1>9, <1>10 DEF EditStep, UnpairStep

(* A commit reads the answer of its write, shreds the verdict and resets.   *)
LEMMA PairingAuth ==
    ASSUME IInv, Faultless => AuthFits, Faultless', PairingStep
    PROVE  AuthFits'
<1> USE DEF Calls, Slice, Release, Returned
<1>1. Faultless /\ AuthFits
  BY DEF Faultless, PairingStep, StartPairing, PairingTakes, PairingEnds, PairingApproved,
         CommitBegins, CommitSaved, CommitCleared, CommitSlice
<1>2. CASE StartPairing \/ PairingTakes \/ PairingEnds \/ PairingApproved
  BY <1>1, <1>2 DEF StartPairing, PairingTakes, PairingEnds, PairingApproved, AuthFits, LoadBlock
<1>3. CASE CommitBegins
  BY <1>1, <1>3 DEF CommitBegins, AuthFits, LoadBlock
<1>4. CASE CommitSaved
  BY <1>1, <1>4 DEF CommitSaved, AuthFits, LoadBlock
<1>5. CASE CommitCleared
  BY <1>1, <1>5 DEF CommitCleared, AuthFits, LoadBlock
<1>6. CASE CommitSlice
  BY <1>1, <1>6 DEF CommitSlice, AuthFits, LoadBlock, Reset
<1> QED  BY <1>2, <1>3, <1>4, <1>5, <1>6 DEF PairingStep

(* A verdict waits where the gate had none, and the write under the card    *)
(* lock takes what the gate says by then.                                   *)
LEMMA WorkerAuth ==
    ASSUME IInv, Faultless => AuthFits, Faultless', WorkerStep
    PROVE  AuthFits'
<1> USE DEF Calls, Release, Returned
<1>1. Faultless /\ AuthFits
  BY DEF Faultless, WorkerStep, TickReadsConfig, TickReadsToken, DrainStarts, PageStarts, Answered,
         PersistBegins, PersistEnds
<1>2. CASE TickReadsConfig \/ TickReadsToken \/ DrainStarts \/ PageStarts
  BY <1>1, <1>2 DEF TickReadsConfig, TickReadsToken, DrainStarts, PageStarts, AuthFits, LoadBlock
<1>3. ASSUME NEW answer \in Answers, Answered(answer) PROVE AuthFits'
  <2>1. UNCHANGED <<card, pc, step, body>> /\ persist = "none"
        /\ persist' = IF gate.block = "none" THEN gate'.block ELSE "none"
    BY <1>3 DEF Answered
  <2>2. gate.block # "none" => gate'.block = gate.block
    BY <1>3 DEF Answered, Observe
  <2> QED  BY <1>1, <2>1, <2>2 DEF AuthFits, LoadBlock
<1>4. CASE PersistBegins
  <2>1. gate.block \in Blocks \cup {"none"}
    BY DEF IInv, TypeOK, Gates
  <2> QED  BY <1>1, <1>4, <2>1 DEF PersistBegins, AuthFits, LoadBlock
<1>5. CASE PersistEnds
  <2>1. card["auth"].main = gate.block /\ gate.block \in Blocks
    BY <1>1, <1>5 DEF PersistEnds, AuthFits, IInv, BodyFits
  <2> QED  BY <1>1, <1>5, <2>1 DEF PersistEnds, AuthFits, LoadBlock
<1> QED  BY <1>2, <1>3, <1>4, <1>5 DEF WorkerStep

(* auth.json is in step with the gate in every state without a refusal.     *)
LEMMA AuthInv ==
    ASSUME IInv, Faultless => AuthFits, [Next]_vars
    PROVE  (Faultless => AuthFits)'
<1> SUFFICES ASSUME Faultless' PROVE AuthFits'
  OBVIOUS
<1>1. CASE CardStep
  BY <1>1, WriteAuth, ShredAuth DEF CardStep
<1>2. CASE PowerCut
  <2>1. cuts \in Nat /\ cuts' = cuts + 1 /\ cuts' = 0
    BY <1>2 DEF PowerCut, Faultless, IInv, TypeOK
  <2> QED  BY <2>1
<1>3. CASE UNCHANGED vars
  BY <1>3 DEF vars, Faultless, AuthFits, LoadBlock
<1> QED  BY <1>1, <1>2, <1>3, HolderAuth, PairingAuth, WorkerAuth DEF Next

-----------------------------------------------------------------------------
(* Whose answers closed the gate.                                           *)

(* At most two answers are ever due to a request that carries another token.*)
LEMMA DueBound == IInv => Due \in 0 .. 2
BY DEF Due

(* A request begun now carries the engine's token, or reads it later.       *)
LEMMA RequestEarned ==
    ASSUME IInv, EarnedFits, TickReadsConfig \/ TickReadsToken \/ DrainStarts \/ PageStarts
    PROVE  EarnedFits'
<1>1. UNCHANGED <<token, gate, about, restored>> /\ Due' = 0
  BY DEF TickReadsConfig, TickReadsToken, DrainStarts, PageStarts, Request, Due
<1>2. gate.rev \in 0 .. Budget /\ gate.den \in 0 .. Budget /\ Due \in 0 .. 2
  BY DueBound DEF IInv, TypeOK, Gates
<1> QED  BY <1>1, <1>2 DEF EarnedFits

(* An answer to the engine's own token is counted to it; one to another is  *)
(* one of those that were due.                                              *)
LEMMA AnsweredEarned ==
    ASSUME IInv, EarnedFits, Budget > 2, NEW answer \in Answers, Answered(answer)
    PROVE  EarnedFits'
<1> SUFFICES ASSUME token # None, ~restored, token \notin about'
             PROVE  gate'.block = "none" /\ gate'.rev + gate'.den + Due' <= 2
  BY DEF EarnedFits, Answered
<1>1. /\ gate \in Gates /\ ask # None /\ ask \in Requests /\ ask.stage # "config"
      /\ token' = token /\ gate' = Observe(gate, answer)
      /\ about' = IF gate.block # "none" \/ answer = "silent" THEN about
                  ELSE IF answer = "accepted" THEN {} ELSE about \cup {ask.token}
  BY DEF Answered, IInv, TypeOK
<1>2. PICK stage \in After(ask.stage, answer) :
         ask' = IF stage = "end" THEN None ELSE [ask EXCEPT !.stage = stage]
  BY DEF Answered
<1>3. stage \in {"saves", "states", "end"} /\ (stage = "saves" => answer = "accepted")
      /\ (stage # "end" => ask.stage \in {"library", "saves"})
      /\ (stage = "states" => ask.stage = "saves")
  BY <1>2 DEF After
<1>4. Due' \in 0 .. 2 /\ (stage = "end" => Due' = 0) /\ (stage = "states" => Due' <= 1)
  BY <1>1, <1>2, <1>3 DEF Due, Requests
<1>5. CASE answer = "accepted"
  <2>1. gate'.rev = 0 /\ gate'.den = 0 /\ gate'.block = gate.block
    BY <1>1, <1>5 DEF Observe
  <2>2. gate.block = "none"
    BY <1>1, <1>5 DEF EarnedFits
  <2> QED  BY <1>4, <2>1, <2>2
<1>6. CASE answer # "accepted"
  <2>1. token \notin about
    BY <1>1, <1>6
  <2>2. gate.block = "none" /\ gate.rev + gate.den + Due <= 2
    BY <2>1 DEF EarnedFits
  <2>3. stage # "saves"
    BY <1>3, <1>6
  <2>4. CASE answer = "silent"
    <3>1. gate' = gate
      BY <1>1, <2>4 DEF Observe
    <3>2. Due' <= Due
      BY <1>1, <1>2, <1>3, <1>4, <2>3 DEF Due, Requests
    <3> QED  BY <1>1, <1>4, <2>2, <3>1, <3>2, DueBound DEF Gates
  <2>5. CASE answer # "silent"
    <3>1. ask.token # token
      BY <1>1, <1>6, <2>2, <2>5
    <3>2. Due >= 1 /\ Due' <= Due - 1 /\ Due \in 0 .. 2
      BY <1>1, <1>2, <1>3, <1>4, <2>3, <3>1 DEF Due, Requests
    <3>3. gate.rev + gate.den + 1 <= 2
      BY <1>1, <2>2, <3>2 DEF Gates
    <3>4. gate'.rev + gate'.den = gate.rev + gate.den + 1 /\ gate'.block = "none"
      BY <1>1, <1>6, <2>2, <2>5, <3>3 DEF Observe, Gates, Answers
    <3>5. gate.rev \in Nat /\ gate.den \in Nat
      BY <1>1 DEF Gates
    <3>6. gate'.rev \in Nat /\ gate'.den \in Nat
      BY <1>1, <1>6, <2>2, <2>5, <3>5 DEF Observe
    <3> QED  BY <1>4, <2>2, <3>2, <3>4, <3>5, <3>6
  <2> QED  BY <2>4, <2>5
<1> QED  BY <1>5, <1>6

(* A token comes with an open gate and an empty count, and so does a boot   *)
(* whose verdict is not the card's.                                         *)
LEMMA TokenEarned ==
    ASSUME IInv, EarnedFits,
           EditResets \/ EditForgets \/ UnpairSlice \/ CommitSlice \/ PowerCut
    PROVE  EarnedFits'
<1>1. CASE EditForgets
  BY <1>1 DEF EditForgets, EarnedFits
<1>2. CASE EditResets \/ UnpairSlice \/ CommitSlice
  <2>1. gate' = Reset /\ Due' \in 0 .. 2
    BY <1>2 DEF EditResets, UnpairSlice, CommitSlice, Due
  <2> QED  BY <2>1 DEF EarnedFits, Reset
<1>3. CASE PowerCut
  <2>1. PICK c \in hist, unread \in SUBSET Files : Load(c, unread)
    BY <1>3 DEF PowerCut
  <2>2. Due' = 0 /\ restored' = (gate'.block # "none")
    BY <2>1 DEF Load, Due
  <2>3. gate'.block = "none" => gate'.rev = 0 /\ gate'.den = 0
    BY <2>1 DEF Load, Restore, Reset
  <2>4. CASE gate'.block = "none"
    BY <2>2, <2>3, <2>4 DEF EarnedFits
  <2>5. CASE gate'.block # "none"
    BY <2>2, <2>5 DEF EarnedFits
  <2> QED  BY <2>4, <2>5
<1> QED  BY <1>1, <1>2, <1>3

(* No other step has a say in it.                                           *)
LEMMA EarnedKept ==
    ASSUME EarnedFits, UNCHANGED <<token, gate, about, restored, ask>>
    PROVE  EarnedFits'
BY DEF EarnedFits, Due

(* A token no answer has been about cannot lose the gate.                   *)
LEMMA EarnedInv ==
    ASSUME IInv, EarnedFits, Budget > 2, [Next]_vars
    PROVE  EarnedFits'
<1>1. CASE CardStep
  <2>1. UNCHANGED <<token, gate, about, restored, ask>>
    BY <1>1 DEF CardStep, WriteStaged, DropPrevious, MoveAside, Publish, TidyPrevious, SyncName,
                ShredMain, ShredOld
  <2> QED  BY <2>1, EarnedKept
<1>2. CASE EditStep
  <2>1. ASSUME ~EditForgets, ~EditResets PROVE UNCHANGED <<token, gate, about, restored, ask>>
    BY <1>2, <2>1 DEF EditStep, ConfigEdit, EditDiscarded, EditCleared, EditUnwritten, EditWritten,
                      EditUnpairs, EditAdopts
  <2> QED  BY <2>1, EarnedKept, TokenEarned
<1>3. CASE UnpairStep
  <2>1. ASSUME ~UnpairSlice PROVE UNCHANGED <<token, gate, about, restored, ask>>
    BY <1>3, <2>1 DEF UnpairStep, Unpair, UnpairDiscarded, UnpairCleared
  <2> QED  BY <2>1, EarnedKept, TokenEarned
<1>4. CASE PairingStep
  <2>1. ASSUME ~CommitSlice PROVE UNCHANGED <<token, gate, about, restored, ask>>
    BY <1>4, <2>1 DEF PairingStep, StartPairing, PairingTakes, PairingEnds, PairingApproved,
                      CommitBegins, CommitSaved, CommitCleared
  <2> QED  BY <2>1, EarnedKept, TokenEarned
<1>5. CASE WorkerStep
  <2>1. CASE PersistBegins \/ PersistEnds
    <3>1. UNCHANGED <<token, gate, about, restored, ask>>
      BY <2>1 DEF PersistBegins, PersistEnds
    <3> QED  BY <3>1, EarnedKept
  <2> QED  BY <1>5, <2>1, RequestEarned, AnsweredEarned DEF WorkerStep
<1>6. CASE UNCHANGED vars
  BY <1>6, EarnedKept DEF vars
<1> QED  BY <1>1, <1>2, <1>3, <1>4, <1>5, <1>6, TokenEarned DEF Next

-----------------------------------------------------------------------------
(* The theorems.                                                            *)

(* What the paths rely on holds in every state.                             *)
THEOREM Invariance == Spec => []IInv
<1>1. Init => IInv
  BY InitInv
<1>2. IInv /\ [Next]_vars => IInv'
  BY CardStepInv, EditStepInv, UnpairStepInv, PairingStepInv, WorkerStepInv, PowerCutInv, StutterInv
  DEF Next
<1> QED  BY <1>1, <1>2, PTL DEF Spec

(* The state has its type, and the gate never counts past its budget        *)
(* (Gate::Observe).                                                         *)
THEOREM TypeCorrect == Spec => []TypeOK
<1>1. IInv => TypeOK
  BY DEF IInv
<1> QED  BY <1>1, Invariance, PTL

(* Whatever is refused and wherever the power goes, in an edit, an Unpair or*)
(* a commit, no card holds a token beside the address of another server, and*)
(* the engine does not either (ApplyConfigEdit, CommitGrant, LoadToken).    *)
THEOREM TokensStayHome == Spec => []TokenIsItsServers
<1>1. IInv => TokenIsItsServers
  BY DEF IInv
<1> QED  BY <1>1, Invariance, PTL

(* A drain and a page carry a token only to the server that issued it       *)
(* (DrainDownloads, Service::Pump).                                         *)
THEOREM SlicesAskTheirServer == Spec => []SliceAsksItsServer
<1>1. IInv => SliceAsksItsServer
  BY DEF IInv
<1> QED  BY <1>1, Invariance, PTL

(* A pairing the card confirmed is the one the next boot finds, or a newer  *)
(* one, until the player gives it up (WriteAtomically, LoadToken).          *)
THEOREM PairingsSurvive == Spec => []PairingSurvives
<1>1. ASSUME IInv, kept # None, NEW c \in hist
      PROVE  LoadToken(c) # None /\ LoadToken(c).id >= kept.id
  <2>1. Holds(c) /\ None \notin Tokens
    BY <1>1 DEF IInv, KeptFits, Tokens
  <2> QED  BY <2>1 DEF Holds, LoadToken
<1>2. IInv => PairingSurvives
  BY <1>1 DEF PairingSurvives
<1> QED  BY <1>2, Invariance, PTL

(* A run in which nothing was refused and no power was cut has auth.json say*)
(* what the gate says, whenever the card lock is free and no verdict waits  *)
(* for it (ObserveAnswer asks the gate again under that lock).              *)
THEOREM VerdictsAgree == Spec => []VerdictFileAgrees
<1>1. ASSUME Init PROVE AuthFits
  <2>1. card["auth"].main = None /\ card["auth"].old = None
    <3>1. PICK url \in Urls :
             card = [f \in Files |-> [main |-> IF f = "config" THEN url ELSE None, old |-> None]]
      BY <1>1 DEF Init
    <3> QED  BY <3>1
  <2> QED  BY <1>1, <2>1 DEF Init, AuthFits, LoadBlock, Reset
<1>2. IInv /\ (Faultless => AuthFits) /\ [Next]_vars => (Faultless => AuthFits)'
  BY AuthInv
<1>3. (Faultless => AuthFits) => VerdictFileAgrees
  BY DEF AuthFits, Faultless, VerdictFileAgrees
<1> QED  BY <1>1, <1>2, <1>3, Invariance, PTL DEF Spec

(* With the default budget of three or more, a verdict reached since boot   *)
(* over a token counts a rejection of that token: two answers at most are   *)
(* due to an older one when a grant is committed (ObserveAnswer,            *)
(* CommitGrant's Reset, GateConfig::max_consecutive_rejections).            *)
THEOREM VerdictsEarned == ASSUME Budget > 2 PROVE Spec => []VerdictIsEarned
<1>1. Init => EarnedFits
  BY DEF Init, EarnedFits
<1>2. IInv /\ EarnedFits /\ [Next]_vars => EarnedFits'
  BY EarnedInv
<1>3. EarnedFits => VerdictIsEarned
  BY DEF EarnedFits, VerdictIsEarned
<1> QED  BY <1>1, <1>2, <1>3, Invariance, PTL DEF Spec

=============================================================================
