----------------------------- MODULE MCJobQueue -----------------------------
(***************************************************************************)
(* Instances of JobQueue for TLC: one or two jobs of a repository, two     *)
(* workers, one administrator.                                             *)
(***************************************************************************)
EXTENDS JobQueueLedger, TLC

CONSTANTS j1, j2, w1, w2, r1

\* The jobs compete for a repository.
MCRepoOf == [j \in Job |-> r1]

\* `worker --id`, or one worker per process whose host and pid stay the same.
OwnIds == [w \in Worker |-> IF w = w1 THEN {"a"} ELSE {"b"}]

Quiet   == [k \in Kinds |-> 0]
With(S) == [k \in Kinds |-> IF k \in S THEN 1 ELSE 0]

Orderly  == With({"signal", "requeue", "adminCrash", "error"})
Deadly   == With({"crash", "expiry"})
OneError == With({"error"})
=============================================================================
