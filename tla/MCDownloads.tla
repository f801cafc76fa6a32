---------------------------- MODULE MCDownloads ----------------------------
(* Downloads on a small instance.                                          *)
EXTENDS Downloads

CONSTANTS r1, r2, r3

\* One rom that can be checked and is held in an older copy, one that cannot be
\* checked, and one that is refused.
MCLibraries == {[r \in Roms |-> IF r = r1 THEN "hashed" ELSE IF r = r2 THEN "unhashed" ELSE "set"]}
MCQueued == {<<r1, r2>>}
MCSettings ==
    {[resume |-> TRUE, verify |-> TRUE, max_attempts |-> 2],
     [resume |-> TRUE, verify |-> TRUE, max_attempts |-> 3]}
=============================================================================
