---------------------------- MODULE DownloadBoard ----------------------------
(***************************************************************************)
(* What the download queue promises to everyone who reads it: each rom is  *)
(* absent, pending or ended, a pending rom leaves only when the owner      *)
(* takes it out or when it ends, an ended one may be forgotten, and a list *)
(* a boot cannot read is left alone.  `Downloads` implements this    *)
(* specification, and `Installs` is written over it.                       *)
(***************************************************************************)
EXTENDS Naturals

CONSTANT Roms

VARIABLES
    board,       \* board[r]: what the list says of rom r
    readable     \* the list was read back at the last start

boardVars == <<board, readable>>

\* What a row comes to: `already` is a done row that fetched nothing.
Ends == {"done", "already", "failed"}

BoardInit == board \in [Roms -> {"absent", "pending"} \cup Ends] /\ readable \in BOOLEAN

\* A rom is asked for; to make room one ended rom may be forgotten with it.
Ask(r) ==
    /\ readable /\ board[r] # "pending"
    /\ \/ board' = [board EXCEPT ![r] = "pending"]
       \/ \E old \in Roms \ {r} :
            /\ board[old] \in Ends
            /\ board' = [board EXCEPT ![r] = "pending", ![old] = "absent"]
    /\ UNCHANGED readable

Withdraw(r) ==
    /\ readable /\ board[r] # "absent"
    /\ board' = [board EXCEPT ![r] = "absent"]
    /\ UNCHANGED readable

End(r, end) ==
    /\ readable /\ board[r] = "pending"
    /\ board' = [board EXCEPT ![r] = end]
    /\ UNCHANGED readable

\* A boot that cannot read the list leaves it, and one that can finds it as it was.
Unreadable == readable' = FALSE /\ UNCHANGED board
ReadAgain == readable' = TRUE /\ UNCHANGED board

BoardNext ==
    \/ \E r \in Roms : Ask(r) \/ Withdraw(r) \/ \E end \in Ends : End(r, end)
    \/ Unreadable \/ ReadAgain

BoardSpec == BoardInit /\ [][BoardNext]_boardVars
=============================================================================
