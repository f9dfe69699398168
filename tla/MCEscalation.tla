--------------------------- MODULE MCEscalation ---------------------------
(***************************************************************************)
(* Small instances of Escalation.                                          *)
(***************************************************************************)
EXTENDS Escalation, TLC

CONSTANTS p1, c1, c2, s1, s2, s3

\* One policy: step s1 is sent at once, s2 and s3 fall due together.
TwoDeferred ==
    [s \in Steps |->
       [policy |-> p1,
        channel |-> IF s = s3 THEN c2 ELSE c1,
        order |-> CASE s = s1 -> 0 [] s = s2 -> 1 [] s = s3 -> 2,
        delay |-> IF s = s1 THEN 0 ELSE 1]]

\* The channels are active until an administrator changes one.
ConfiguredInit == Init /\ channel = [c \in Channels |-> "active"]
ConfiguredSpec == ConfiguredInit /\ [][Next]_vars /\ Fairness

\* Alerts are interchangeable.
Symmetry == Permutations(Alerts)
===========================================================================
