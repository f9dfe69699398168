--------------------------- MODULE MCEventStream ---------------------------
(***************************************************************************)
(* Small instances of EventStream.                                         *)
(***************************************************************************)
EXTENDS EventStream, FiniteSets

\* An attempt that starts, and one that ends with an alert.
MCPublications == {<<"execution.started">>, <<"execution.completed", "alert.created">>}

\* A connection more than faults for each page: every fault costs a page at most one.
ASSUME EnoughConnections ==
    MaxConns >= (MaxFaults + 1) * Cardinality(Pages)
===========================================================================
