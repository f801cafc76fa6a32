------------------------------ MODULE KeepBoth ------------------------------
(***************************************************************************)
(* What the console promises about one save, whatever the server plans:    *)
(* it puts on the card only bytes some device gave the server, or bytes it *)
(* kept itself; it takes off the card only what it keeps a copy of; and it *)
(* removes a save only when the server lost that very save.                *)
(***************************************************************************)
EXTENDS Naturals

CONSTANTS Bytes, None

VARIABLES
    card,    \* the save, or None
    kept,    \* the copies the console keeps
    given,   \* what the server was ever given
    lost,    \* what the server lost to a deletion
    world    \* steps taken by games, players and other devices

vars == <<card, kept, given, lost, world>>

Init ==
    /\ card \in Bytes \cup {None}
    /\ kept = {}
    /\ given = {}
    /\ lost = {}
    /\ world = 0

(* The world writes or deletes the save, gives the server bytes, or deletes *)
(* them there.                                                              *)
Outside ==
    /\ world' = world + 1
    /\ card' \in Bytes \cup {None}
    /\ kept' = kept
    /\ given \subseteq given'
    /\ lost \subseteq lost'

(* The player puts a kept copy back: what it replaces is kept.              *)
Recall ==
    /\ world' = world + 1
    /\ card' \in kept
    /\ kept' = kept \cup ({card} \ {None})
    /\ UNCHANGED <<given, lost>>

Keep ==
    /\ kept' = kept \cup {card}
    /\ UNCHANGED <<card, given, lost, world>>

Give ==
    /\ given' = given \cup {card}
    /\ UNCHANGED <<card, kept, lost, world>>

Adopt ==
    /\ card \in kept \cup {None}
    /\ card' \in given
    /\ UNCHANGED <<kept, given, lost, world>>

Withdraw ==
    /\ card \in kept
    /\ card \in lost
    /\ card' = None
    /\ UNCHANGED <<kept, given, lost, world>>

Next == Outside \/ Recall \/ Keep \/ Give \/ Adopt \/ Withdraw

Spec == Init /\ [][Next]_vars
=============================================================================
