---------------------------- MODULE MCNodeTable ----------------------------
(* The instances of NodeTable that TLC checks. *)
EXTENDS NodeTable, TLC

\* At most one coincidence in a behaviour.
MCInit == Init /\ Cardinality(events) <= 1

MCSpec == MCInit /\ [][Next]_vars

\* Descriptors, goroutines and indices are only compared.
Alike == UNION {Permutations(S) : S \in {Handles, Updaters, Indices}}

\* The only coincidence is a file being opened when FilesOpen is asked.
SlowOpenSpec == Init /\ events = {"slowOpen"} /\ [][Next]_vars
=============================================================================
