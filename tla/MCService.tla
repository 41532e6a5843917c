------------------------------ MODULE MCService ------------------------------
(***************************************************************************)
(* Instances of Service for TLC: two jobs of one installation, one webhook *)
(* process and one worker.                                                 *)
(***************************************************************************)
EXTENDS Service, TLC

CONSTANTS j1, j2, w1, i1, r1, r2

MCRepoOf == [j \in Job |-> IF j = j2 THEN r2 ELSE r1]
MCInstOf == [j \in Job |-> i1]
MCIds    == [w \in Worker |-> {"a"}]

OneAtATime == [hour |-> 0, day |-> 0, concurrent |-> 1]
MCWindow   == [hour |-> 1, day |-> 1]

\* The kinds of JobQueue and Intake, spelt out: a constant of these modules
\* cannot be defined from them.
QueueKinds  == {"crash", "signal", "error", "overrun", "expiry", "requeue", "adminCrash"}
IntakeKinds == {"death", "dedupExpiry", "concExpiry"}

QueueEvents(S)  == [k \in QueueKinds |-> IF k \in S THEN 1 ELSE 0]
IntakeEvents(S) == [k \in IntakeKinds |-> IF k \in S THEN 1 ELSE 0]

Faults  == QueueEvents({"crash", "error"})
LongRun == IntakeEvents({"death", "concExpiry"})
=============================================================================
