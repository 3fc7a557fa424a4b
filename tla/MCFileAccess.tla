---------------------------- MODULE MCFileAccess ----------------------------
(***************************************************************************)
(* TLC instances of FileAccess.  A block is 2 bytes and grows by 2, a      *)
(* chunk is one block.  Of the three uploads that can be made of a file v1 *)
(* needs one chunk, v2 and v3 two, the second of v3 shorter: every         *)
(* replacement changes the length of the second chunk.  The header of v3   *)
(* is as long as leaves one byte of the listed size of v1, less than a     *)
(* tag: an open then calculates a size of -1.                              *)
(***************************************************************************)
EXTENDS FileAccess

CONSTANTS v1, v2, v3

TwoVersions == {v1, v2}
ThreeVersions == {v1, v2, v3}

Plain == [v \in Versions |-> IF v = v1 THEN 2 ELSE IF v = v2 THEN 4 ELSE 3]

\* v3 was uploaded with its header in the object.
Header == [v \in Versions |-> IF v = v3 THEN 3 ELSE 0]

WritesOnly == {"write"}
VaultFailsOnly == {"vaultFails"}

\* The files that nobody rewrites are of one version.
MCInit == Init /\ \A f \in Files \ Rewritten : obj[f] = v1
MCSpec == MCInit /\ [][Next]_vars
=============================================================================
