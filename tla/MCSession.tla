----------------------------- MODULE MCSession ------------------------------
(* An instance of Session. *)
EXTENDS Session

\* At most two events in each behaviour; CSC_PASSWORD is not set when the
\* profile lets the user in, as it is not read then.
MCInit ==
    /\ Init
    /\ Cardinality(events) <= 2
    /\ access => variable = ""

MCSpec == MCInit /\ [][Next]_vars /\ Fairness
=============================================================================
