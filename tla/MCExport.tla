------------------------------ MODULE MCExport ------------------------------
(* Instances of Export. *)
EXTENDS Export

\* At most one event in each behaviour.
MCInit == Init /\ Cardinality(events) <= 1
MCSpec == MCInit /\ [][Next]_vars /\ Fairness

\* Only an export that fails after it has created its bucket.
CreatedInVainSpec == Init /\ events = {"createdInVain"} /\ [][Next]_vars
=============================================================================
