------------------------------ MODULE MCAgentRun ------------------------------
(***************************************************************************)
(* Instances of AgentRun for TLC.                                          *)
(***************************************************************************)
EXTENDS AgentRun, TLC

CONSTANTS fix, evolve, amend, review

MCBranch == {"main", "master", "issue", "topic", "evolve-1", "evolve-2", "evolve-3"}
MCKind   == [j \in Job |-> CASE j = fix -> "fix" [] j = evolve -> "evolve"
                             [] j = amend -> "iterate" [] j = review -> "review"]

\* The branch of an issue is the same for each try, that of an evolution has the
\* time in its name.
MCAsked  == [j \in Job |-> IF j = evolve THEN <<"evolve-1", "evolve-2", "evolve-3">>
                           ELSE [n \in 1 .. 3 |-> "issue"]]

\* The pull request that is amended comes from the default branch of a fork, the
\* one that is reviewed from a branch here.
MCPullOf == [j \in Job |-> [head |-> IF j = amend THEN "master" ELSE "topic",
                            base |-> IF j = amend THEN "topic" ELSE "master",
                            fork |-> j = amend]]

Pairs == {{fix, amend}, {evolve, review}}

Kinds    == {"api", "box", "skip", "crash", "push", "close"}
Once     == [e \in Kinds |-> 1]
=============================================================================
