------------------------------ MODULE MCIntake ------------------------------
(***************************************************************************)
(* Instances of Intake for TLC: three deliveries of one installation, one  *)
(* without an installation and one that matches no trigger.                *)
(***************************************************************************)
EXTENDS Intake, TLC

CONSTANTS d1, d2, d3, pat, other, i1, s1, s2

MCInstOf == [d \in Delivery |-> IF d = pat THEN NoInst ELSE i1]
MCActionable == Delivery \ {other}

\* An hour of two ticks and a day of three, one job an hour and two a day.
MCWindow   == [hour |-> 2, day |-> 3]
AllThree   == [hour |-> 1, day |-> 2, concurrent |-> 2]

Faults == [k \in IntakeFaults |-> 1]

\* Deliveries of the installation, and processes, are interchangeable.
Alike == Permutations({d1, d2, d3}) \cup Permutations({s1, s2})
=============================================================================
