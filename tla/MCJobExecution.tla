-------------------------- MODULE MCJobExecution --------------------------
(***************************************************************************)
(* Small instances of JobExecution.                                        *)
(***************************************************************************)
EXTENDS JobExecution, TLC

CONSTANT j1

\* Every execution belongs to the same job.
OneJob == [e \in Executions |-> j1]

\* Workers and the executions of one job are interchangeable.
Symmetry == Permutations(Workers) \cup Permutations(Executions)
===========================================================================
