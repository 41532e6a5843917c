--------------------------- MODULE AgentRunProofs ---------------------------
(***************************************************************************)
(* Machine-checked proofs about AgentRun, for every set of jobs, branches  *)
(* and files, every number of tries and turns and every life of a token.   *)
(***************************************************************************)
EXTENDS AgentRun, FiniteSetTheorems, SequenceTheorems, TLAPS

-----------------------------------------------------------------------------
(* Files, commits and histories *)

Values == ({"repo", "gone", "user"} \cup Job) \X Nat \X Nat

LEMMA ValueFacts ==
  /\ Old \in Values /\ Gone \in Values
  /\ \A n \in Nat : <<"user", 0, n>> \in Values
  BY DEF Values, Old, Gone

\* What a call of the agent writes carries the run's name, and a file that is
\* gone carries no run's.
LEMMA WrittenFacts ==
  ASSUME NEW j \in Job, NEW n \in Nat, NEW k \in Nat
  PROVE  /\ <<j, n, k>> \in Values
         /\ Author(<<j, n, k>>) = <<j, n>>
         /\ Author(Gone) # <<j, n>>
  BY AgentRunAssumption DEF Values, Gone, Author

LEMMA TreeFacts == Trees = [File -> Values] /\ Start \in Commits
  BY ValueFacts DEF Trees, Values, Start, Commits, Commit

LEMMA CommitFacts ==
  ASSUME NEW j \in Job \cup {"user"}, NEW n \in Nat, NEW tree \in Trees
  PROVE  Commit(j, n, tree) \in Commits
  BY DEF Commits, Commit

\* A commit on top of a history.
LEMMA AppendFacts ==
  ASSUME NEW S, NEW s \in Seq(S), NEW c \in S
  PROVE  /\ Append(s, c) \in Seq(S) /\ Append(s, c) # <<>>
         /\ Len(Append(s, c)) = Len(s) + 1
         /\ DOMAIN Append(s, c) = 1..Len(s) + 1
         /\ Last(Append(s, c)) = c /\ Append(s, c)[Len(s) + 1] = c
         /\ \A i \in 1..Len(s) : Append(s, c)[i] = s[i]
  BY DEF Last

LEMMA LastFacts ==
  ASSUME NEW S, NEW s \in Seq(S), s # <<>>
  PROVE  Last(s) \in S /\ Last(s) = s[Len(s)] /\ Len(s) \in 1..Len(s)
  BY DEF Last

-----------------------------------------------------------------------------
(* Types *)

\* A run that is in progress has begun.
Begun == pc # "idle" => tries[cur] >= 1

LEMMA NoRunJob == NoRun \in Job
  BY AgentRunAssumption DEF NoRun

LEMMA InitType == Init => TypeOK /\ Begun
<1> SUFFICES ASSUME Init PROVE TypeOK /\ Begun
  OBVIOUS
<1> USE AgentRunAssumption, JobAssumption, TreeFacts, NoRunJob DEF Init
<1>1. <<Start>> \in Seq(Commits) /\ <<Start>> # <<>> /\ <<>> \in Seq(Commits)
  OBVIOUS
<1>2. Start.tree \in Trees
  BY DEF Commits
<1>3. GitTypeOK
  BY <1>1 DEF GitTypeOK
<1>4. RunTypeOK
  BY DEF RunTypeOK
<1>5. DirTypeOK
  BY <1>1, <1>2 DEF DirTypeOK
<1>6. JobsTypeOK
  BY DEF JobsTypeOK, Events
<1>7. WorldTypeOK
  BY DEF WorldTypeOK, Events
<1>. QED
  BY <1>3, <1>4, <1>5, <1>6, <1>7 DEF TypeOK, Begun

\* The names a run is asked for are branches.
LEMMA AskedBranch ==
  ASSUME TypeOK, Begun, pc # "idle"
  PROVE  Base \in Branch /\ Asked[cur][tries[cur]] \in Branch
  BY AgentRunAssumption, JobAssumption
     DEF TypeOK, Begun, RunTypeOK, JobsTypeOK, WorldTypeOK, Events

LEMMA SpendFacts ==
  ASSUME WorldTypeOK, NEW e \in Events, Spend(e)
  PROVE  /\ spent' \in [Events -> Nat] /\ now' = now /\ spent' # spent
         /\ spent'[e] = spent[e] + 1 /\ spent[e] < Budget[e]
         /\ \A x \in Events : x # e => spent'[x] = spent[x]
  BY DEF Spend, WorldTypeOK

LEMMA SpentType ==
  ASSUME WorldTypeOK
  PROVE  \A e \in Events : Spend(e) => /\ spent' \in [Events -> Nat] /\ now' = now
                                      /\ \A x \in Events : spent'[x] <= Budget[x]
<1> SUFFICES ASSUME NEW e \in Events, Spend(e)
             PROVE  /\ spent' \in [Events -> Nat] /\ now' = now
                    /\ \A x \in Events : spent'[x] <= Budget[x]
  OBVIOUS
<1>1. Budget \in [Events -> Nat]
  BY AgentRunAssumption
<1>. QED
  BY <1>1, SpendFacts DEF WorldTypeOK

\* The tools that download from the sandbox leave everything but the clone, the
\* run's place and the budget alone.
LEMMA SyncStep ==
  ASSUME NEW S \in SUBSET File, Summarize(S) \/ \E name \in Branch : Finalize(name, S)
  PROVE  /\ pc = "agent" /\ pc' \in {"agent", "push", "cleanup"}
         /\ outcome' \in {outcome, "raised"}
         /\ turns < MaxTurns /\ turns' = turns + 1
         /\ UNCHANGED <<git, jobs, cur, box, live, tokens>>
         /\ UNCHANGED world \/ Spend("skip") \/ Spend("box")
  BY DEF Summarize, Finalize, SyncRaises, Skips, ToolRaises, Raise, AgentTurn

\* What a new sandbox costs.
LEMMA BuildStep ==
  ASSUME Build
  PROVE  /\ pc = "build" /\ pc' \in {"agent", "settle"}
         /\ outcome' \in {outcome, "raised"}
         /\ live' = IF cur \in Sandboxed THEN live \cup {Me} ELSE live
         /\ UNCHANGED <<git, jobs, cur, dir, turns, tokens>>
         /\ \/ pc' = "agent" /\ (UNCHANGED world \/ Spend("skip"))
            \/ pc' = "settle" /\ Spend("box")
  BY DEF Build, Skips, Raise

LEMMA TokenFacts ==
  ASSUME WorldTypeOK
  PROVE  /\ Token \in 0 .. MaxTime + Life /\ Renewed \in 0 .. MaxTime + Life
         /\ Token > now + Margin /\ Renewed > now + Margin
  BY AgentRunAssumption DEF WorldTypeOK, Token, Renewed

\* Tokens, the clock and the budget.
LEMMA NextWorld ==
  ASSUME TypeOK, Begun, [Next]_vars
  PROVE  WorldTypeOK'
<1> USE DEF git, jobs, files, tokens, world
<1>0. WorldTypeOK
  BY DEF TypeOK
<1>1. ASSUME NEW j \in Job, Begin(j) PROVE WorldTypeOK'
  BY <1>0, <1>1, SpentType, TokenFacts, AgentRunAssumption
     DEF Begin, TakeToken, WorldTypeOK, Events
<1>2. CASE Clone
  BY <1>0, <1>2, SpentType, TokenFacts, AgentRunAssumption
     DEF Clone, TakeToken, WorldTypeOK, Events
<1>3. CASE Checkout
  BY <1>0, <1>3, SpentType, TokenFacts DEF Checkout, WorldTypeOK, Events
<1>4. CASE Build
  BY <1>0, <1>4, BuildStep, SpentType DEF WorldTypeOK, Events
<1>5. ASSUME NEW f \in File, Edit(f) PROVE WorldTypeOK'
  BY <1>0, <1>5, SpentType, TokenFacts DEF Edit, WorldTypeOK, Events
<1>6. ASSUME NEW f \in File, HostTool(f) PROVE WorldTypeOK'
  BY <1>0, <1>6, SpentType, TokenFacts DEF HostTool, WorldTypeOK, Events
<1>7. ASSUME NEW S \in SUBSET File, Summarize(S) PROVE WorldTypeOK'
  BY <1>0, <1>7, SyncStep, SpentType DEF WorldTypeOK, Events
<1>8. ASSUME NEW name \in Branch, NEW S \in SUBSET File, Finalize(name, S) PROVE WorldTypeOK'
  BY <1>0, <1>8, SyncStep, SpentType DEF WorldTypeOK, Events
<1>9. CASE Answer
  BY <1>0, <1>9, SpentType, TokenFacts DEF Answer, WorldTypeOK, Events
<1>10. CASE StreamRaises
  BY <1>0, <1>10, SpentType, TokenFacts DEF StreamRaises, WorldTypeOK, Events
<1>11. CASE PushAccepted
  BY <1>0, <1>11, SpentType, TokenFacts DEF PushAccepted, WorldTypeOK, Events
<1>12. CASE PushDenied
  BY <1>0, <1>12, SpentType, TokenFacts DEF PushDenied, WorldTypeOK, Events
<1>13. CASE PushFails
  BY <1>0, <1>13, SpentType, TokenFacts DEF PushFails, WorldTypeOK, Events
<1>14. CASE FindPull
  BY <1>0, <1>14, SpentType, TokenFacts DEF FindPull, TakeToken, WorldTypeOK, Events
<1>15. CASE OpenPull
  BY <1>0, <1>15, SpentType, TokenFacts DEF OpenPull, TakeToken, WorldTypeOK, Events
<1>16. CASE Post
  BY <1>0, <1>16, SpentType, TokenFacts DEF Post, WorldTypeOK, Events
<1>17. CASE Cleanup
  BY <1>0, <1>17, SpentType, TokenFacts DEF Cleanup, WorldTypeOK, Events
<1>18. CASE Settle
  BY <1>0, <1>18, AgentRunAssumption DEF Settle, Forget, WorldTypeOK
<1>19. CASE WorkerDies
  BY <1>0, <1>19, SpentType, AgentRunAssumption
     DEF WorkerDies, Forget, WorldTypeOK, Events
<1>20. ASSUME NEW b \in Branch, NEW f \in File, UserPushes(b, f)
      PROVE  WorldTypeOK'
  BY <1>0, <1>20, SpentType, TokenFacts DEF UserPushes, WorldTypeOK, Events
<1>21. ASSUME NEW p \in pulls, UserCloses(p) PROVE WorldTypeOK'
  BY <1>0, <1>21, SpentType, TokenFacts DEF UserCloses, WorldTypeOK, Events
<1>22. CASE Tick
  BY <1>0, <1>22, AgentRunAssumption DEF Tick, WorldTypeOK
<1>23. CASE UNCHANGED vars
  BY <1>0, <1>23 DEF vars, WorldTypeOK
<1>. QED
  BY AskedBranch, <1>1, <1>2, <1>3, <1>4, <1>5, <1>6, <1>7, <1>8, <1>9, <1>10, <1>11, <1>12,
     <1>13, <1>14, <1>15, <1>16, <1>17, <1>18, <1>19, <1>20, <1>21, <1>22, <1>23
     DEF Next, RunStep, AgentStep

\* The run.
LEMMA NextRun ==
  ASSUME TypeOK, Begun, [Next]_vars
  PROVE  RunTypeOK'
<1> USE DEF git, jobs, files, tokens, world
<1>0. RunTypeOK /\ tries \in [Job -> Nat]
  BY AgentRunAssumption DEF TypeOK, JobsTypeOK, Events
<1>1. ASSUME NEW j \in Job, Begin(j) PROVE RunTypeOK'
  BY <1>0, <1>1, AgentRunAssumption DEF Begin, Raise, RunTypeOK
<1>2. CASE Clone
  BY <1>0, <1>2 DEF Clone, Raise, RunTypeOK
<1>3. CASE Checkout
  BY <1>0, <1>3 DEF Checkout, Raise, RunTypeOK
<1>4. CASE Build
  <2>1. Me \in Job \X Nat
    BY <1>0 DEF Me, RunTypeOK
  <2>. QED
    BY <1>0, <1>4, <2>1, BuildStep DEF RunTypeOK
<1>5. ASSUME NEW f \in File, Edit(f) PROVE RunTypeOK'
  BY <1>0, <1>5, AgentRunAssumption DEF Edit, AgentTurn, RunTypeOK
<1>6. ASSUME NEW f \in File, HostTool(f) PROVE RunTypeOK'
  BY <1>0, <1>6, AgentRunAssumption DEF HostTool, AgentTurn, RunTypeOK
<1>7. ASSUME NEW S \in SUBSET File, Summarize(S) PROVE RunTypeOK'
  BY <1>0, <1>7, SyncStep, AgentRunAssumption DEF RunTypeOK
<1>8. ASSUME NEW name \in Branch, NEW S \in SUBSET File, Finalize(name, S) PROVE RunTypeOK'
  <2>1. /\ pc' \in {"agent", "push", "cleanup"} /\ outcome' \in {outcome, "raised"}
        /\ turns < MaxTurns /\ turns' = turns + 1 /\ UNCHANGED <<cur, live>>
    BY <1>8, SyncStep
  <2>. QED
    BY <1>0, <2>1, AgentRunAssumption DEF RunTypeOK
<1>9. CASE Answer
  BY <1>0, <1>9 DEF Answer, RunTypeOK
<1>10. CASE StreamRaises
  BY <1>0, <1>10 DEF StreamRaises, Raise, RunTypeOK
<1>11. CASE PushAccepted
  BY <1>0, <1>11 DEF PushAccepted, Deliver, AfterPush, ToolRaises, Raise, RunTypeOK
<1>12. CASE PushDenied
  BY <1>0, <1>12 DEF PushDenied, Deliver, AfterPush, ToolRaises, Raise, RunTypeOK
<1>13. CASE PushFails
  BY <1>0, <1>13 DEF PushFails, ToolRaises, Raise, RunTypeOK
<1>14. CASE FindPull
  BY <1>0, <1>14 DEF FindPull, ToolRaises, Raise, RunTypeOK
<1>15. CASE OpenPull
  BY <1>0, <1>15 DEF OpenPull, ToolRaises, Raise, RunTypeOK
<1>16. CASE Post
  BY <1>0, <1>16 DEF Post, RunTypeOK
<1>17. CASE Cleanup
  BY <1>0, <1>17 DEF Cleanup, RunTypeOK
<1>18. CASE Settle
  BY <1>0, <1>18, NoRunJob, AgentRunAssumption DEF Settle, Forget, RunTypeOK
<1>19. CASE WorkerDies
  BY <1>0, <1>19, NoRunJob, AgentRunAssumption DEF WorkerDies, Forget, RunTypeOK
<1>20. ASSUME NEW b \in Branch, NEW f \in File, UserPushes(b, f)
      PROVE  RunTypeOK'
  BY <1>0, <1>20 DEF UserPushes, RunTypeOK
<1>21. ASSUME NEW p \in pulls, UserCloses(p) PROVE RunTypeOK'
  BY <1>0, <1>21 DEF UserCloses, RunTypeOK
<1>22. CASE Tick
  BY <1>0, <1>22 DEF Tick, RunTypeOK
<1>23. CASE UNCHANGED vars
  BY <1>0, <1>23 DEF vars, RunTypeOK
<1>. QED
  BY AskedBranch, <1>1, <1>2, <1>3, <1>4, <1>5, <1>6, <1>7, <1>8, <1>9, <1>10, <1>11, <1>12,
     <1>13, <1>14, <1>15, <1>16, <1>17, <1>18, <1>19, <1>20, <1>21, <1>22, <1>23
     DEF Next, RunStep, AgentStep

\* The jobs and their tries.
LEMMA NextJobs ==
  ASSUME TypeOK, Begun, [Next]_vars
  PROVE  JobsTypeOK' /\ Begun'
<1> USE DEF git, jobs, files, tokens, world
<1>0. RunTypeOK /\ JobsTypeOK /\ WorldTypeOK
  BY DEF TypeOK
<1>1. ASSUME NEW j \in Job, Begin(j) PROVE JobsTypeOK' /\ Begun'
  BY <1>0, <1>1, SpendFacts, NoRunJob, AgentRunAssumption
     DEF Begin, Raise, WorldTypeOK, RunTypeOK, JobsTypeOK, Begun, Events
<1>2. CASE Clone
  BY <1>0, <1>2, SpendFacts, NoRunJob, AgentRunAssumption
     DEF Clone, Raise, WorldTypeOK, RunTypeOK, JobsTypeOK, Begun, Events
<1>3. CASE Checkout
  BY <1>0, <1>3, SpendFacts, NoRunJob, AgentRunAssumption
     DEF Checkout, Raise, WorldTypeOK, RunTypeOK, JobsTypeOK, Begun, Events
<1>4. CASE Build
  BY <1>0, <1>4, BuildStep, SpendFacts
     DEF WorldTypeOK, RunTypeOK, JobsTypeOK, Begun, Events
<1>5. ASSUME NEW f \in File, Edit(f) PROVE JobsTypeOK' /\ Begun'
  BY <1>0, <1>5, SpendFacts, NoRunJob, AgentRunAssumption
     DEF Edit, AgentTurn, WorldTypeOK, RunTypeOK, JobsTypeOK, Begun, Events
<1>6. ASSUME NEW f \in File, HostTool(f) PROVE JobsTypeOK' /\ Begun'
  BY <1>0, <1>6, SpendFacts, NoRunJob, AgentRunAssumption
     DEF HostTool, AgentTurn, WorldTypeOK, RunTypeOK, JobsTypeOK, Begun, Events
<1>7. ASSUME NEW S \in SUBSET File, Summarize(S) PROVE JobsTypeOK' /\ Begun'
  BY <1>0, <1>7, SyncStep, SpendFacts
     DEF WorldTypeOK, RunTypeOK, JobsTypeOK, Begun, Events
<1>8. ASSUME NEW name \in Branch, NEW S \in SUBSET File, Finalize(name, S)
      PROVE  JobsTypeOK' /\ Begun'
  BY <1>0, <1>8, SyncStep, SpendFacts
     DEF WorldTypeOK, RunTypeOK, JobsTypeOK, Begun, Events
<1>9. CASE Answer
  BY <1>0, <1>9, SpendFacts, NoRunJob, AgentRunAssumption
     DEF Answer, WorldTypeOK, RunTypeOK, JobsTypeOK, Begun, Events
<1>10. CASE StreamRaises
  BY <1>0, <1>10, SpendFacts, NoRunJob, AgentRunAssumption
     DEF StreamRaises, Raise, WorldTypeOK, RunTypeOK, JobsTypeOK, Begun, Events
<1>11. CASE PushAccepted
  BY <1>0, <1>11, SpendFacts, NoRunJob, AgentRunAssumption
     DEF PushAccepted, Deliver, AfterPush, ToolRaises, Raise, WorldTypeOK, RunTypeOK,
         JobsTypeOK, Begun, Events
<1>12. CASE PushDenied
  BY <1>0, <1>12, SpendFacts, NoRunJob, AgentRunAssumption
     DEF PushDenied, Deliver, AfterPush, ToolRaises, Raise, WorldTypeOK, RunTypeOK,
         JobsTypeOK, Begun, Events
<1>13. CASE PushFails
  BY <1>0, <1>13, SpendFacts, NoRunJob, AgentRunAssumption
     DEF PushFails, ToolRaises, Raise, WorldTypeOK, RunTypeOK,
         JobsTypeOK, Begun, Events
<1>14. CASE FindPull
  BY <1>0, <1>14, SpendFacts, NoRunJob, AgentRunAssumption
     DEF FindPull, ToolRaises, Raise, WorldTypeOK, RunTypeOK,
         JobsTypeOK, Begun, Events
<1>15. CASE OpenPull
  BY <1>0, <1>15, SpendFacts, NoRunJob, AgentRunAssumption
     DEF OpenPull, ToolRaises, Raise, WorldTypeOK, RunTypeOK,
         JobsTypeOK, Begun, Events
<1>16. CASE Post
  BY <1>0, <1>16, SpendFacts, NoRunJob, AgentRunAssumption
     DEF Post, WorldTypeOK, RunTypeOK, JobsTypeOK, Begun, Events
<1>17. CASE Cleanup
  BY <1>0, <1>17, SpendFacts, NoRunJob, AgentRunAssumption
     DEF Cleanup, WorldTypeOK, RunTypeOK, JobsTypeOK, Begun, Events
<1>18. CASE Settle
  BY <1>0, <1>18, SpendFacts, NoRunJob, AgentRunAssumption
     DEF Settle, Forget, WorldTypeOK, RunTypeOK, JobsTypeOK, Begun, Events
<1>19. CASE WorkerDies
  BY <1>0, <1>19, SpendFacts, NoRunJob, AgentRunAssumption
     DEF WorkerDies, Forget, WorldTypeOK, RunTypeOK, JobsTypeOK, Begun, Events
<1>20. ASSUME NEW b \in Branch, NEW f \in File, UserPushes(b, f)
      PROVE  JobsTypeOK' /\ Begun'
  BY <1>0, <1>20, SpendFacts, NoRunJob, AgentRunAssumption
     DEF UserPushes, WorldTypeOK, RunTypeOK, JobsTypeOK, Begun, Events
<1>21. ASSUME NEW p \in pulls, UserCloses(p) PROVE JobsTypeOK' /\ Begun'
  BY <1>0, <1>21, SpendFacts, NoRunJob, AgentRunAssumption
     DEF UserCloses, WorldTypeOK, RunTypeOK, JobsTypeOK, Begun, Events
<1>22. CASE Tick
  BY <1>0, <1>22, SpendFacts, NoRunJob, AgentRunAssumption
     DEF Tick, WorldTypeOK, RunTypeOK, JobsTypeOK, Begun, Events
<1>23. CASE UNCHANGED vars
  BY <1>0, <1>23 DEF vars, JobsTypeOK, Begun
<1>. QED
  BY AskedBranch, <1>1, <1>2, <1>3, <1>4, <1>5, <1>6, <1>7, <1>8, <1>9, <1>10, <1>11, <1>12,
     <1>13, <1>14, <1>15, <1>16, <1>17, <1>18, <1>19, <1>20, <1>21, <1>22, <1>23
     DEF Next, RunStep, AgentStep

\* A branch that gets another history.
LEMMA RemoteType ==
  ASSUME GitTypeOK, NEW b \in Branch, NEW s \in Seq(Commits), b # Base \/ s # <<>>
  PROVE  /\ [remote EXCEPT ![b] = s] \in [Branch -> Seq(Commits)]
         /\ [remote EXCEPT ![b] = s][Base] # <<>>
<1> DEFINE H == Seq(Commits)
<1>1. s \in H /\ remote \in [Branch -> H] /\ remote[Base] # <<>> /\ Base \in Branch
  BY AgentRunAssumption DEF GitTypeOK
<1> HIDE DEF H
<1>2. /\ [remote EXCEPT ![b] = s] \in [Branch -> H]
      /\ [remote EXCEPT ![b] = s][Base] # <<>>
  BY <1>1
<1>. QED
  BY <1>2 DEF H

\* What the sandbox and the clone hold after a download.
LEMMA SyncedTree ==
  ASSUME DirTypeOK, NEW S \in SUBSET File
  PROVE  Synced(S) \in Trees
  BY TreeFacts DEF DirTypeOK, Synced

\* The last commit of the branch that is checked out.
LEMMA PastFacts ==
  ASSUME DirTypeOK
  PROVE  /\ dir.refs[dir.head] \in Seq(Commits) /\ dir.refs[dir.head] # <<>>
         /\ Last(dir.refs[dir.head]) \in Commits
<1>1. dir.refs[dir.head] \in Seq(Commits) /\ dir.refs[dir.head] # <<>>
  BY DEF DirTypeOK
<1>. QED
  BY <1>1, LastFacts

LEMMA TargetBranch ==
  ASSUME RunTypeOK, NEW name \in Branch
  PROVE  Target(name) \in Branch
  BY JobAssumption DEF RunTypeOK, Target

\* What finalize_patch makes of the clone.
LEMMA OnBranchFacts ==
  ASSUME DirTypeOK, NEW b \in Branch, NEW S \in SUBSET File,
         NEW commits \in Seq(Commits) \ {<<>>}
  PROVE  /\ OnBranch(b, Synced(S), commits) \in
              [refs : {OnBranch(b, Synced(S), commits).refs}, head : Branch, tree : Trees,
               token : 0 .. MaxTime + Life]
         /\ DOMAIN OnBranch(b, Synced(S), commits).refs = DOMAIN dir.refs \cup {b}
         /\ OnBranch(b, Synced(S), commits).refs[b] = commits
         /\ \A x \in DOMAIN dir.refs \ {b} : OnBranch(b, Synced(S), commits).refs[x] = dir.refs[x]
         /\ OnBranch(b, Synced(S), commits).head = b
         /\ OnBranch(b, Synced(S), commits).tree = Synced(S)
         /\ OnBranch(b, Synced(S), commits).token = dir.token
<1> DEFINE refs == [x \in DOMAIN dir.refs \cup {b} |-> IF x = b THEN commits ELSE dir.refs[x]]
<1>1. /\ OnBranch(b, Synced(S), commits).refs = refs /\ OnBranch(b, Synced(S), commits).head = b
      /\ OnBranch(b, Synced(S), commits).tree = Synced(S)
      /\ OnBranch(b, Synced(S), commits).token = dir.token
      /\ OnBranch(b, Synced(S), commits) \in [refs : {refs}, head : Branch, tree : Trees,
                                    token : 0 .. MaxTime + Life]
  <2> HIDE DEF refs
  <2>1. OnBranch(b, Synced(S), commits) = [dir EXCEPT !.tree = Synced(S), !.head = b, !.refs = refs]
    BY DEF OnBranch, refs
  <2>. QED
    BY <2>1, SyncedTree DEF DirTypeOK
<1>. QED
  BY <1>1

\* What finalize_patch can do: refuse, find nothing to commit, or commit.
LEMMA FinalizeFacts ==
  ASSUME TypeOK, NEW name \in Branch, NEW S \in SUBSET File, Finalize(name, S)
  PROVE  /\ pc = "agent"
         /\ \/ dir' = [dir EXCEPT !.tree = Synced(S)] /\ pc' # "push"
            \/ /\ ~Refused(name) /\ Synced(S) = Last(dir.refs[dir.head]).tree
               /\ dir' = OnBranch(Target(name), Synced(S), dir.refs[dir.head]) /\ pc' = pc
            \/ /\ ~Refused(name) /\ pc' = "push"
               /\ dir' = OnBranch(Target(name), Synced(S), Append(dir.refs[dir.head],
                                                       Commit(cur, tries[cur], Synced(S))))
  BY DEF Finalize, AgentTurn, SyncRaises, ToolRaises, Raise

\* summarize_diff changes the files of the clone and nothing else of it.
LEMMA SummarizeFacts ==
  ASSUME NEW S \in SUBSET File, Summarize(S)
  PROVE  dir' = [dir EXCEPT !.tree = Synced(S)] /\ pc' # "push"
  BY DEF Summarize, AgentTurn, SyncRaises, ToolRaises, Raise

LEMMA CommitMade ==
  ASSUME TypeOK, NEW S \in SUBSET File
  PROVE  Commit(cur, tries[cur], Synced(S)) \in Commits
<1>1. cur \in Job /\ tries[cur] \in Nat /\ Synced(S) \in Trees
  BY SyncedTree, AgentRunAssumption DEF TypeOK, RunTypeOK, JobsTypeOK, Events
<1>. QED
  BY <1>1, CommitFacts

\* The clone and the sandbox.
LEMMA NextDir ==
  ASSUME TypeOK, Begun, [Next]_vars
  PROVE  DirTypeOK'
<1> USE DEF git, jobs, files, tokens, world
<1>0. DirTypeOK
  BY DEF TypeOK
<1>1. ASSUME NEW j \in Job, Begin(j) PROVE DirTypeOK'
  BY <1>0, <1>1 DEF Begin, DirTypeOK
<1>2. CASE Clone
  <2>1. remote[Base] \in Seq(Commits) /\ remote[Base] # <<>> /\ Base \in Branch
    BY AgentRunAssumption DEF TypeOK, GitTypeOK
  <2>2. Last(remote[Base]).tree \in Trees
    <3>1. Last(remote[Base]) \in Commits
      BY <2>1, LastFacts
    <3>. QED
      BY <3>1 DEF Commits
  <2>3. Token \in 0 .. MaxTime + Life
    BY TokenFacts DEF TypeOK
  <2>4. dir' = [refs |-> [b \in {Base} |-> remote[Base]], head |-> Base,
                tree |-> Last(remote[Base]).tree, token |-> Token]
    BY <1>2 DEF Clone
  <2>5. box' = box
    BY <1>2 DEF Clone
  <2>. QED
    BY <1>0, <2>1, <2>2, <2>3, <2>4, <2>5 DEF DirTypeOK
<1>3. CASE Checkout
  BY <1>0, <1>3 DEF Checkout, DirTypeOK
<1>4. CASE Build
  <2>1. dir' = dir /\ (box' = box \/ \E S \in SUBSET File : box' = Uploaded(S))
    BY <1>4 DEF Build
  <2>2. \A S \in SUBSET File : Uploaded(S) \in Trees
    BY <1>0, TreeFacts, ValueFacts DEF DirTypeOK, Uploaded
  <2>. QED
    BY <1>0, <2>1, <2>2 DEF DirTypeOK
<1>5. ASSUME NEW f \in File, Edit(f) PROVE DirTypeOK'
  <2>1. Mine \in Values /\ Gone \in Values
    BY <1>0, WrittenFacts, ValueFacts, AgentRunAssumption
       DEF TypeOK, RunTypeOK, JobsTypeOK, Events, Mine
  <2>2. PICK v \in Values : Write(f, v)
    BY <1>5, <2>1 DEF Edit
  <2>. QED
    <3>1. CASE box' = [box EXCEPT ![f] = v] /\ dir' = dir
      BY <1>0, <3>1, TreeFacts DEF DirTypeOK
    <3>2. CASE dir' = [dir EXCEPT !.tree[f] = v] /\ box' = box
      BY <1>0, <3>2, TreeFacts DEF DirTypeOK
    <3>. QED
      BY <2>2, <3>1, <3>2 DEF Write
<1>6. ASSUME NEW f \in File, HostTool(f) PROVE DirTypeOK'
  <2>1. Mine \in Values /\ Gone \in Values
    BY <1>0, WrittenFacts, ValueFacts, AgentRunAssumption
       DEF TypeOK, RunTypeOK, JobsTypeOK, Events, Mine
  <2>. QED
    BY <1>0, <1>6, <2>1, TreeFacts DEF HostTool, DirTypeOK
<1>7. ASSUME NEW S \in SUBSET File, Summarize(S) PROVE DirTypeOK'
  BY <1>0, <1>7, SummarizeFacts, SyncStep, SyncedTree DEF DirTypeOK
<1>8. ASSUME NEW name \in Branch, NEW S \in SUBSET File, Finalize(name, S) PROVE DirTypeOK'
  <2>1. /\ dir.refs[dir.head] \in Seq(Commits) \ {<<>>}
        /\ Append(dir.refs[dir.head], Commit(cur, tries[cur], Synced(S))) \in Seq(Commits) \ {<<>>}
    BY <1>0, PastFacts, CommitMade, AppendFacts
  <2>2. Target(name) \in Branch
    BY TargetBranch DEF TypeOK
  <2>3. ASSUME NEW commits \in Seq(Commits) \ {<<>>},
               dir' = OnBranch(Target(name), Synced(S), commits)
        PROVE  DirTypeOK'
    <3>1. box' = box
      BY <1>8 DEF Finalize
    <3> DEFINE b == Target(name)
    <3> HIDE DEF b
    <3>2. b \in Branch /\ dir' = OnBranch(b, Synced(S), commits)
      BY <2>2, <2>3 DEF b
    <3>. QED
      BY <1>0, <3>1, <3>2, OnBranchFacts DEF DirTypeOK
  <2>4. box' = box
    BY <1>8 DEF Finalize
  <2>5. ASSUME dir' = [dir EXCEPT !.tree = Synced(S)] PROVE DirTypeOK'
    BY <1>0, <2>4, <2>5, SyncedTree DEF DirTypeOK
  <2>. QED
    BY <1>8, FinalizeFacts, <2>1, <2>3, <2>5
<1>9. CASE Answer
  BY <1>0, <1>9 DEF Answer, DirTypeOK
<1>10. CASE StreamRaises
  BY <1>0, <1>10 DEF StreamRaises, DirTypeOK
<1>11. CASE PushAccepted
  BY <1>0, <1>11 DEF PushAccepted, DirTypeOK
<1>12. CASE PushDenied
  <2>1. Renewed \in 0 .. MaxTime + Life
    BY TokenFacts DEF TypeOK
  <2>. QED
    BY <1>0, <1>12, <2>1 DEF PushDenied, DirTypeOK
<1>13. CASE PushFails
  BY <1>0, <1>13 DEF PushFails, DirTypeOK
<1>14. CASE FindPull
  BY <1>0, <1>14 DEF FindPull, DirTypeOK
<1>15. CASE OpenPull
  BY <1>0, <1>15 DEF OpenPull, DirTypeOK
<1>16. CASE Post
  BY <1>0, <1>16 DEF Post, DirTypeOK
<1>17. CASE Cleanup
  BY <1>0, <1>17 DEF Cleanup, DirTypeOK
<1>18. CASE Settle
  <2>1. Start.tree \in Trees
    BY TreeFacts DEF Commits
  <2>. QED
    BY <1>0, <1>18, <2>1 DEF Settle, Forget, DirTypeOK
<1>19. CASE WorkerDies
  <2>1. Start.tree \in Trees
    BY TreeFacts DEF Commits
  <2>. QED
    BY <1>0, <1>19, <2>1 DEF WorkerDies, Forget, DirTypeOK
<1>20. ASSUME NEW b \in Branch, NEW f \in File, UserPushes(b, f)
      PROVE  DirTypeOK'
  BY <1>0, <1>20 DEF UserPushes, DirTypeOK
<1>21. ASSUME NEW p \in pulls, UserCloses(p) PROVE DirTypeOK'
  BY <1>0, <1>21 DEF UserCloses, DirTypeOK
<1>22. CASE Tick
  BY <1>0, <1>22 DEF Tick, DirTypeOK
<1>23. CASE UNCHANGED vars
  BY <1>0, <1>23 DEF vars, DirTypeOK
<1>. QED
  BY AskedBranch, <1>1, <1>2, <1>3, <1>4, <1>5, <1>6, <1>7, <1>8, <1>9, <1>10, <1>11, <1>12,
     <1>13, <1>14, <1>15, <1>16, <1>17, <1>18, <1>19, <1>20, <1>21, <1>22, <1>23
     DEF Next, RunStep, AgentStep

\* GitHub.
LEMMA NextGit ==
  ASSUME TypeOK, Begun, [Next]_vars
  PROVE  GitTypeOK'
<1> USE DEF git, jobs, files, tokens, world
<1>0. GitTypeOK
  BY DEF TypeOK
<1>1. ASSUME NEW j \in Job, Begin(j) PROVE GitTypeOK'
  BY <1>0, <1>1 DEF Begin, GitTypeOK
<1>2. CASE Clone
  BY <1>0, <1>2 DEF Clone, GitTypeOK
<1>3. CASE Checkout
  BY <1>0, <1>3 DEF Checkout, GitTypeOK
<1>4. CASE Build
  BY <1>0, <1>4 DEF Build, GitTypeOK
<1>5. ASSUME NEW f \in File, Edit(f) PROVE GitTypeOK'
  BY <1>0, <1>5 DEF Edit, GitTypeOK
<1>6. ASSUME NEW f \in File, HostTool(f) PROVE GitTypeOK'
  BY <1>0, <1>6 DEF HostTool, GitTypeOK
<1>7. ASSUME NEW S \in SUBSET File, Summarize(S) PROVE GitTypeOK'
  BY <1>0, <1>7, SyncStep DEF GitTypeOK
<1>8. ASSUME NEW name \in Branch, NEW S \in SUBSET File, Finalize(name, S) PROVE GitTypeOK'
  BY <1>0, <1>8, SyncStep DEF GitTypeOK
<1>9. CASE Answer
  BY <1>0, <1>9 DEF Answer, GitTypeOK
<1>10. CASE StreamRaises
  BY <1>0, <1>10 DEF StreamRaises, GitTypeOK
<1>11. CASE PushAccepted
  <2>1. dir.head \in Branch /\ dir.refs[dir.head] \in Seq(Commits) \ {<<>>}
    BY DEF TypeOK, DirTypeOK
  <2>. QED
    <3>1. remote' = remote \/ remote' = [remote EXCEPT ![dir.head] = dir.refs[dir.head]]
      BY <1>11 DEF PushAccepted, Deliver
    <3>2. UNCHANGED <<pulls, opened>>
      BY <1>11 DEF PushAccepted
    <3>. QED
      BY <1>0, <2>1, <3>1, <3>2, RemoteType DEF GitTypeOK
<1>12. CASE PushDenied
  <2>1. dir.head \in Branch /\ dir.refs[dir.head] \in Seq(Commits) \ {<<>>}
    BY DEF TypeOK, DirTypeOK
  <2>. QED
    <3>1. remote' = remote \/ remote' = [remote EXCEPT ![dir.head] = dir.refs[dir.head]]
      BY <1>12 DEF PushDenied, Deliver
    <3>2. UNCHANGED <<pulls, opened>>
      BY <1>12 DEF PushDenied
    <3>. QED
      BY <1>0, <2>1, <3>1, <3>2, RemoteType DEF GitTypeOK
<1>13. CASE PushFails
  BY <1>0, <1>13 DEF PushFails, GitTypeOK
<1>14. CASE FindPull
  BY <1>0, <1>14 DEF FindPull, GitTypeOK
<1>15. CASE OpenPull
  <2>1. dir.head \in Branch /\ Base \in Branch /\ "main" \in Branch /\ PullOf[cur].base \in Branch
    BY AgentRunAssumption, JobAssumption DEF TypeOK, DirTypeOK, RunTypeOK
  <2>2. \/ UNCHANGED <<pulls, opened>>
        \/ \E b \in Branch :
             /\ pulls' = pulls \cup {[head |-> dir.head, base |-> b, fork |-> FALSE]}
             /\ opened' = opened \cup {dir.head}
    BY <1>15, <2>1 DEF OpenPull
  <2>3. remote' = remote
    BY <1>15 DEF OpenPull
  <2>. QED
    <3>1. ASSUME NEW b \in Branch PROVE [head |-> dir.head, base |-> b, fork |-> FALSE]
                                          \in [head : Branch, base : Branch, fork : BOOLEAN]
      BY <2>1
    <3>. QED
      BY <1>0, <2>1, <2>2, <2>3, <3>1 DEF GitTypeOK
<1>16. CASE Post
  BY <1>0, <1>16 DEF Post, GitTypeOK
<1>17. CASE Cleanup
  BY <1>0, <1>17 DEF Cleanup, GitTypeOK
<1>18. CASE Settle
  BY <1>0, <1>18 DEF Settle, GitTypeOK
<1>19. CASE WorkerDies
  BY <1>0, <1>19 DEF WorkerDies, GitTypeOK
<1>20. ASSUME NEW b \in Branch, NEW f \in File, UserPushes(b, f)
      PROVE  GitTypeOK'
  <2>1. remote[b] \in Seq(Commits) /\ remote[b] # <<>>
    BY <1>0, <1>20 DEF UserPushes, GitTypeOK
  <2>2. Last(remote[b]).tree \in Trees
    <3>1. Last(remote[b]) \in Commits
      BY <2>1, LastFacts
    <3>. QED
      BY <3>1 DEF Commits
  <2> DEFINE tree == [Last(remote[b]).tree EXCEPT ![f] = <<"user", 0, spent["push"] + 1>>]
  <2>3. tree \in Trees
    <3>1. spent["push"] + 1 \in Nat
      BY DEF TypeOK, WorldTypeOK, Events
    <3>. QED
      BY <2>2, <3>1, TreeFacts, ValueFacts
  <2> HIDE DEF tree
  <2>4. Commit("user", 0, tree) \in Commits
    BY <2>3, CommitFacts
  <2> DEFINE longer == Append(remote[b], Commit("user", 0, tree))
  <2>5. longer \in Seq(Commits) /\ longer # <<>>
    BY <2>1, <2>4, AppendFacts
  <2> HIDE DEF longer
  <2>6. remote' = [remote EXCEPT ![b] = longer] /\ UNCHANGED <<pulls, opened>>
    BY <1>20 DEF UserPushes, longer, tree
  <2>. QED
    BY <1>0, <2>5, <2>6 DEF GitTypeOK
<1>21. ASSUME NEW p \in pulls, UserCloses(p) PROVE GitTypeOK'
  <2>1. p.head \in Branch /\ <<>> \in Seq(Commits)
    BY <1>0 DEF GitTypeOK
  <2>2. remote' = remote \/ (p.head # Base /\ remote' = [remote EXCEPT ![p.head] = <<>>])
    BY <1>21 DEF UserCloses
  <2>3. pulls' \subseteq pulls /\ opened' = opened
    BY <1>21 DEF UserCloses
  <2>4. remote' \in [Branch -> Seq(Commits)] /\ remote'[Base] # <<>>
    <3>1. CASE remote' = remote
      BY <1>0, <3>1 DEF GitTypeOK
    <3>2. CASE p.head # Base /\ remote' = [remote EXCEPT ![p.head] = <<>>]
      BY <1>0, <2>1, <3>2, RemoteType
    <3>. QED
      BY <2>2, <3>1, <3>2
  <2>. QED
    BY <1>0, <2>3, <2>4 DEF GitTypeOK
<1>22. CASE Tick
  BY <1>0, <1>22 DEF Tick, GitTypeOK
<1>23. CASE UNCHANGED vars
  BY <1>0, <1>23 DEF vars, GitTypeOK
<1>. QED
  BY AskedBranch, <1>1, <1>2, <1>3, <1>4, <1>5, <1>6, <1>7, <1>8, <1>9, <1>10, <1>11, <1>12,
     <1>13, <1>14, <1>15, <1>16, <1>17, <1>18, <1>19, <1>20, <1>21, <1>22, <1>23
     DEF Next, RunStep, AgentStep

LEMMA NextType ==
  ASSUME TypeOK, Begun, [Next]_vars
  PROVE  TypeOK' /\ Begun'
<1>1. GitTypeOK' /\ RunTypeOK' /\ DirTypeOK' /\ JobsTypeOK' /\ WorldTypeOK' /\ Begun'
  BY NextGit, NextRun, NextDir, NextJobs, NextWorld
<1>. QED
  BY <1>1 DEF TypeOK

\* Every field of the state has its type: the clone's branches have commits,
\* a job that waits has a run left, the default branch is never empty.
THEOREM RunTypeCorrect == Spec => [](TypeOK /\ Begun)
<1>1. Init => TypeOK /\ Begun
  BY InitType
<1>2. TypeOK /\ Begun /\ [Next]_vars => (TypeOK /\ Begun)'
  BY NextType
<1>. QED
  BY <1>1, <1>2, PTL DEF Spec

-----------------------------------------------------------------------------
(* The branch that is checked out *)

\* A run that amends a pull request gets past its checkout only if the branch
\* is the default branch, and stays on it.
OnHead ==
    /\ pc = "checkout" => DOMAIN dir.refs = {Base} /\ dir.head = Base
    /\ pc \in {"build", "agent", "push", "find", "open"} /\ Iterating
         => PullOf[cur].head = Base /\ dir.head = Base

\* Every step keeps it there.
LEMMA NextHead ==
  ASSUME TypeOK, Begun, OnHead, [Next]_vars
  PROVE  OnHead'
<1> USE DEF git, jobs, files, tokens, world
<1>0. OnHead /\ DirTypeOK
  BY DEF TypeOK
<1>1. ASSUME NEW j \in Job, Begin(j) PROVE OnHead'
  BY <1>0, <1>1 DEF Begin, Raise, OnHead, Iterating, DirTypeOK
<1>2. CASE Clone
  <2>1. /\ dir'.refs = [b \in {Base} |-> remote[Base]] /\ dir'.head = Base
        /\ cur' = cur
        /\ pc' \in {"checkout", "build", "settle"} /\ (pc' = "build" => ~Iterating)
    BY <1>2 DEF Clone, Raise, Iterating
  <2>. QED
    BY <2>1 DEF OnHead, Iterating
<1>3. CASE Checkout
  BY <1>0, <1>3 DEF Checkout, Raise, OnHead, Iterating, DirTypeOK
<1>4. CASE Build
  BY <1>0, <1>4 DEF Build, Raise, OnHead, Iterating, DirTypeOK
<1>5. ASSUME NEW f \in File, Edit(f) PROVE OnHead'
  BY <1>0, <1>5 DEF Edit, AgentTurn, Write, OnHead, Iterating, DirTypeOK
<1>6. ASSUME NEW f \in File, HostTool(f) PROVE OnHead'
  BY <1>0, <1>6 DEF HostTool, AgentTurn, OnHead, Iterating, DirTypeOK
<1>7. ASSUME NEW S \in SUBSET File, Summarize(S) PROVE OnHead'
  BY <1>0, <1>7, SyncStep, SummarizeFacts DEF OnHead, Iterating, DirTypeOK
<1>8. ASSUME NEW name \in Branch, NEW S \in SUBSET File, Finalize(name, S) PROVE OnHead'
  <2>1. cur' = cur /\ pc' \in {"agent", "push", "cleanup"}
    BY <1>8, SyncStep
  <2>2. pc = "agent"
    BY <1>8, FinalizeFacts
  <2>4. CASE dir' = [dir EXCEPT !.tree = Synced(S)]
    BY <1>0, <2>1, <2>2, <2>4 DEF OnHead, Iterating, DirTypeOK
  <2>5. ASSUME NEW commits, dir' = OnBranch(Target(name), Synced(S), commits) PROVE OnHead'
    <3>1. dir'.head = Target(name)
      BY <1>0, <2>5 DEF OnBranch, DirTypeOK
    <3>. QED
      BY <1>0, <2>1, <2>2, <3>1 DEF OnHead, Iterating, Target
  <2>. QED
    BY <1>8, <2>4, <2>5, FinalizeFacts
<1>9. CASE Answer
  BY <1>0, <1>9 DEF Answer, OnHead, Iterating, DirTypeOK
<1>10. CASE StreamRaises
  BY <1>0, <1>10 DEF StreamRaises, Raise, OnHead, Iterating, DirTypeOK
<1>11. CASE PushAccepted
  BY <1>0, <1>11
     DEF PushAccepted, Deliver, AfterPush, ToolRaises, Raise, OnHead, Iterating,
         DirTypeOK
<1>12. CASE PushDenied
  BY <1>0, <1>12
     DEF PushDenied, Deliver, AfterPush, ToolRaises, Raise, OnHead, Iterating,
         DirTypeOK
<1>13. CASE PushFails
  BY <1>0, <1>13 DEF PushFails, ToolRaises, Raise, OnHead, Iterating, DirTypeOK
<1>14. CASE FindPull
  BY <1>0, <1>14 DEF FindPull, ToolRaises, Raise, OnHead, Iterating, DirTypeOK
<1>15. CASE OpenPull
  BY <1>0, <1>15 DEF OpenPull, ToolRaises, Raise, OnHead, Iterating, DirTypeOK
<1>16. CASE Post
  BY <1>0, <1>16 DEF Post, OnHead, Iterating, DirTypeOK
<1>17. CASE Cleanup
  BY <1>0, <1>17 DEF Cleanup, OnHead, Iterating, DirTypeOK
<1>18. CASE Settle
  BY <1>0, <1>18 DEF Settle, Forget, OnHead, Iterating, DirTypeOK
<1>19. CASE WorkerDies
  BY <1>0, <1>19 DEF WorkerDies, Forget, OnHead, Iterating, DirTypeOK
<1>20. ASSUME NEW b \in Branch, NEW f \in File, UserPushes(b, f) PROVE OnHead'
  BY <1>0, <1>20 DEF UserPushes, OnHead, Iterating, DirTypeOK
<1>21. ASSUME NEW p \in pulls, UserCloses(p) PROVE OnHead'
  BY <1>0, <1>21 DEF UserCloses, OnHead, Iterating, DirTypeOK
<1>22. CASE Tick
  BY <1>0, <1>22 DEF Tick, OnHead, Iterating, DirTypeOK
<1>23. CASE UNCHANGED vars
  BY <1>0, <1>23 DEF vars, OnHead, Iterating, DirTypeOK
<1>. QED
  BY AskedBranch, <1>1, <1>2, <1>3, <1>4, <1>5, <1>6, <1>7, <1>8, <1>9, <1>10, <1>11, <1>12,
     <1>13, <1>14, <1>15, <1>16, <1>17, <1>18, <1>19, <1>20, <1>21, <1>22, <1>23
     DEF Next, RunStep, AgentStep

-----------------------------------------------------------------------------
(* The default branch *)

\* A history has no commits of jobs that were not asked to amend a branch.
Iterated(s) == \A i \in DOMAIN s : s[i].by \in Job => Kind[s[i].by] = "iterate"

BaseInv ==
    /\ Iterated(remote[Base])
    /\ Base \in DOMAIN dir.refs => Iterated(dir.refs[Base])

LEMMA IteratedAppend ==
  ASSUME NEW s \in Seq(Commits), NEW c \in Commits, Iterated(s),
         c.by \in Job => Kind[c.by] = "iterate"
  PROVE  Iterated(Append(s, c))
  BY AppendFacts DEF Iterated

\* A branch other than the default one is what a run of its own pushes to.
LEMMA NotBase ==
  ASSUME Base \in {"main", "master"}, NEW name, ~Iterating, ~Refused(name)
  PROVE  Target(name) # Base
  BY DEF Refused, Protected, Target

\* What a user commits is a tree.
LEMMA UserTree ==
  ASSUME TypeOK, NEW b \in Branch, NEW f \in File, UserPushes(b, f)
  PROVE  \E tree \in Trees : remote' = [remote EXCEPT ![b] = Append(@, Commit("user", 0, tree))]
<1> DEFINE tree == [Last(remote[b]).tree EXCEPT ![f] = <<"user", 0, spent["push"] + 1>>]
<1>1. Last(remote[b]) \in Commits
  BY LastFacts DEF UserPushes, TypeOK, GitTypeOK
<1>2. <<"user", 0, spent["push"] + 1>> \in Values
  BY ValueFacts DEF TypeOK, WorldTypeOK, Events
<1>3. tree \in Trees
  BY <1>1, <1>2, TreeFacts DEF Commits
<1>4. remote' = [remote EXCEPT ![b] = Append(@, Commit("user", 0, tree))]
  BY DEF UserPushes
<1>. QED
  BY <1>3, <1>4

\* No step of another run touches it.
LEMMA NextBase ==
  ASSUME Base \in {"main", "master"}, TypeOK, Begun, OnHead, BaseInv, [Next]_vars
  PROVE  BaseInv'
<1> USE DEF git, jobs, files, tokens, world
<1>0. BaseInv /\ OnHead /\ DirTypeOK
  BY DEF TypeOK
<1>1. ASSUME NEW j \in Job, Begin(j) PROVE BaseInv'
  BY <1>0, <1>1 DEF Begin, Raise, BaseInv, DirTypeOK
<1>2. CASE Clone
  <2>1. dir'.refs = [b \in {Base} |-> remote[Base]] /\ remote' = remote
    BY <1>2 DEF Clone
  <2>. QED
    BY <1>0, <2>1 DEF BaseInv
<1>3. CASE Checkout
  BY <1>0, <1>3 DEF Checkout, Raise, BaseInv, DirTypeOK
<1>4. CASE Build
  BY <1>0, <1>4 DEF Build, Raise, BaseInv, DirTypeOK
<1>5. ASSUME NEW f \in File, Edit(f) PROVE BaseInv'
  BY <1>0, <1>5 DEF Edit, Write, BaseInv, DirTypeOK
<1>6. ASSUME NEW f \in File, HostTool(f) PROVE BaseInv'
  BY <1>0, <1>6 DEF HostTool, AgentTurn, BaseInv, DirTypeOK
<1>7. ASSUME NEW S \in SUBSET File, Summarize(S) PROVE BaseInv'
  BY <1>0, <1>7, SyncStep, SummarizeFacts DEF BaseInv, DirTypeOK
<1>8. ASSUME NEW name \in Branch, NEW S \in SUBSET File, Finalize(name, S) PROVE BaseInv'
  <2> DEFINE past == dir.refs[dir.head]
             c == Commit(cur, tries[cur], Synced(S))
  <2>1. remote' = remote /\ pc = "agent" /\ cur \in Job
    BY <1>8, FinalizeFacts DEF Finalize, TypeOK, RunTypeOK
  <2>2. past \in Seq(Commits) \ {<<>>} /\ c \in Commits /\ c.by = cur
        /\ Append(past, c) \in Seq(Commits) \ {<<>>} /\ Target(name) \in Branch
    BY <1>0, PastFacts, CommitMade, AppendFacts, TargetBranch DEF TypeOK, Commit
  <2>4. CASE dir' = [dir EXCEPT !.tree = Synced(S)]
    BY <1>0, <2>1, <2>4 DEF BaseInv, DirTypeOK
  <2>5. ASSUME NEW commits \in Seq(Commits) \ {<<>>}, commits \in {past, Append(past, c)},
               ~Refused(name), dir' = OnBranch(Target(name), Synced(S), commits)
        PROVE  BaseInv'
    <3>1. /\ DOMAIN dir'.refs = DOMAIN dir.refs \cup {Target(name)}
          /\ dir'.refs[Target(name)] = commits
          /\ \A x \in DOMAIN dir.refs \ {Target(name)} : dir'.refs[x] = dir.refs[x]
      BY <1>0, <2>2, <2>5, OnBranchFacts
    <3>2. CASE Iterating
      <4>1. dir.head = Base /\ Base \in DOMAIN dir.refs
        BY <1>0, <2>1, <3>2 DEF OnHead, DirTypeOK
      <4>2. Iterated(past)
        BY <1>0, <4>1 DEF BaseInv
      <4>3. Iterated(Append(past, c))
        BY <2>2, <3>2, <4>2, IteratedAppend DEF Iterating
      <4>4. Target(name) = Base
        BY <1>0, <2>1, <3>2 DEF OnHead, Target
      <4>. QED
        BY <1>0, <2>1, <2>5, <3>1, <4>2, <4>3, <4>4 DEF BaseInv
    <3>3. CASE ~Iterating
      <4>1. Target(name) # Base
        BY <2>5, <3>3, NotBase
      <4>. QED
        BY <1>0, <2>1, <3>1, <4>1 DEF BaseInv
    <3>. QED
      BY <3>2, <3>3
  <2>6. \/ dir' = [dir EXCEPT !.tree = Synced(S)]
        \/ ~Refused(name) /\ dir' = OnBranch(Target(name), Synced(S), past)
        \/ ~Refused(name) /\ dir' = OnBranch(Target(name), Synced(S), Append(past, c))
    BY <1>8, FinalizeFacts
  <2> HIDE DEF past, c
  <2>. QED
    BY <2>2, <2>4, <2>5, <2>6
<1>9. CASE Answer
  BY <1>0, <1>9 DEF Answer, BaseInv, DirTypeOK
<1>10. CASE StreamRaises
  BY <1>0, <1>10 DEF StreamRaises, Raise, BaseInv, DirTypeOK
<1>11. CASE PushAccepted
  <2>1. remote' = remote \/ remote' = [remote EXCEPT ![dir.head] = dir.refs[dir.head]]
    BY <1>11 DEF PushAccepted, Deliver
  <2>2. dir'.refs = dir.refs
    BY <1>0, <1>11 DEF PushAccepted, DirTypeOK
  <2>3. dir.head \in DOMAIN dir.refs /\ remote \in [Branch -> Seq(Commits)] /\ Base \in Branch
    BY AgentRunAssumption DEF TypeOK, GitTypeOK, DirTypeOK
  <2>4. remote'[Base] = remote[Base] \/ (dir.head = Base /\ remote'[Base] = dir.refs[Base])
    BY <2>1, <2>3
  <2>. QED
    BY <1>0, <2>2, <2>3, <2>4 DEF BaseInv
<1>12. CASE PushDenied
  <2>1. remote' = remote \/ remote' = [remote EXCEPT ![dir.head] = dir.refs[dir.head]]
    BY <1>12 DEF PushDenied, Deliver
  <2>2. dir'.refs = dir.refs
    BY <1>0, <1>12 DEF PushDenied, DirTypeOK
  <2>3. dir.head \in DOMAIN dir.refs /\ remote \in [Branch -> Seq(Commits)] /\ Base \in Branch
    BY AgentRunAssumption DEF TypeOK, GitTypeOK, DirTypeOK
  <2>4. remote'[Base] = remote[Base] \/ (dir.head = Base /\ remote'[Base] = dir.refs[Base])
    BY <2>1, <2>3
  <2>. QED
    BY <1>0, <2>2, <2>3, <2>4 DEF BaseInv
<1>13. CASE PushFails
  BY <1>0, <1>13 DEF PushFails, ToolRaises, Raise, BaseInv, DirTypeOK
<1>14. CASE FindPull
  BY <1>0, <1>14 DEF FindPull, ToolRaises, Raise, BaseInv, DirTypeOK
<1>15. CASE OpenPull
  BY <1>0, <1>15 DEF OpenPull, ToolRaises, Raise, BaseInv, DirTypeOK
<1>16. CASE Post
  BY <1>0, <1>16 DEF Post, BaseInv, DirTypeOK
<1>17. CASE Cleanup
  BY <1>0, <1>17 DEF Cleanup, BaseInv, DirTypeOK
<1>18. CASE Settle
  BY <1>0, <1>18 DEF Settle, Forget, BaseInv, DirTypeOK
<1>19. CASE WorkerDies
  BY <1>0, <1>19 DEF WorkerDies, Forget, BaseInv, DirTypeOK
<1>20. ASSUME NEW b \in Branch, NEW f \in File, UserPushes(b, f) PROVE BaseInv'
  <2>1. PICK tree \in Trees : remote' = [remote EXCEPT ![b] = Append(@, Commit("user", 0, tree))]
    BY <1>20, UserTree DEF UserPushes
  <2>2. /\ dir' = dir /\ remote[b] \in Seq(Commits) /\ remote \in [Branch -> Seq(Commits)]
        /\ Commit("user", 0, tree) \in Commits
    BY <1>20, CommitFacts DEF UserPushes, TypeOK, GitTypeOK
  <2>3. Commit("user", 0, tree).by \notin Job
    BY AgentRunAssumption DEF Commit
  <2>4. Iterated(remote[b]) => Iterated(Append(remote[b], Commit("user", 0, tree)))
    BY <2>2, <2>3, IteratedAppend
  <2>. QED
    BY <1>0, <2>1, <2>2, <2>4 DEF BaseInv
<1>21. ASSUME NEW p \in pulls, UserCloses(p) PROVE BaseInv'
  <2>1. p.head \in Branch /\ remote \in [Branch -> Seq(Commits)] /\ Base \in Branch
    BY AgentRunAssumption DEF TypeOK, GitTypeOK
  <2>2. remote'[Base] = remote[Base] /\ dir' = dir
    BY <1>21, <2>1 DEF UserCloses
  <2>. QED
    BY <1>0, <2>2 DEF BaseInv
<1>22. CASE Tick
  BY <1>0, <1>22 DEF Tick, BaseInv, DirTypeOK
<1>23. CASE UNCHANGED vars
  BY <1>0, <1>23 DEF vars, BaseInv, DirTypeOK
<1>. QED
  BY AskedBranch, <1>1, <1>2, <1>3, <1>4, <1>5, <1>6, <1>7, <1>8, <1>9, <1>10, <1>11, <1>12,
     <1>13, <1>14, <1>15, <1>16, <1>17, <1>18, <1>19, <1>20, <1>21, <1>22, <1>23
     DEF Next, RunStep, AgentStep

LEMMA InitBase == Init => OnHead /\ BaseInv
<1> SUFFICES ASSUME Init PROVE OnHead /\ BaseInv
  OBVIOUS
<1>1. Iterated(<<Start>>)
  <2>1. "user" \notin Job
    BY AgentRunAssumption
  <2>. QED
    BY <2>1 DEF Iterated, Start, Commit
<1>2. remote[Base] = <<Start>> /\ dir.refs[Base] = <<Start>>
  BY AgentRunAssumption DEF Init
<1>. QED
  BY <1>1, <1>2 DEF Init, OnHead, BaseInv

-----------------------------------------------------------------------------
(* Whose work a commit is *)

\* What a tree holds is from the first n commits of s or the run's own.
Adds(tree, s, n, by, try) ==
    \A f \in File :
       \/ tree[f] = Gone
       \/ \E k \in 1 .. n : tree[f] = s[k].tree[f]
       \/ Author(tree[f]) = <<by, try>>

\* Every commit of a run adds its own work to the ones before.
Chain(s) ==
    \A i \in 2 .. Len(s) :
        s[i].by \in Job => Adds(s[i].tree, s, i - 1, s[i].by, s[i].try)

HistoryInv ==
    /\ \A b \in Branch : Chain(remote[b])
    /\ \A b \in DOMAIN dir.refs : Chain(dir.refs[b])

\* What the run has in its hands adds its work to what it has checked out.
Handling(tree) ==
    Adds(tree, dir.refs[dir.head], Len(dir.refs[dir.head]), cur, tries[cur])

WorkInv ==
    /\ pc \in {"checkout", "build", "agent", "push", "find", "open"} => Handling(dir.tree)
    /\ pc \in {"agent", "push", "find", "open"} /\ cur \in Sandboxed => Handling(box)

\* A longer history has what the shorter one has.
LEMMA AddsAppend ==
  ASSUME NEW s \in Seq(Commits), NEW c \in Commits, NEW tree, NEW by, NEW try,
         NEW n \in 1 .. Len(s), Adds(tree, s, n, by, try)
  PROVE  /\ Adds(tree, Append(s, c), n, by, try)
         /\ Adds(tree, Append(s, c), Len(Append(s, c)), by, try)
<1> DEFINE t == Append(s, c)
<1>1. Len(t) = Len(s) + 1 /\ \A i \in 1 .. Len(s) : t[i] = s[i]
  BY AppendFacts
<1> HIDE DEF t
<1>2. \A k \in 1 .. n : t[k] = s[k] /\ k \in 1 .. Len(t)
  BY <1>1
<1>3. Adds(tree, t, n, by, try) /\ Adds(tree, t, Len(t), by, try)
  BY <1>2 DEF Adds
<1>. QED
  BY <1>3 DEF t

LEMMA ChainAppend ==
  ASSUME NEW s \in Seq(Commits), s # <<>>, NEW c \in Commits, Chain(s),
         c.by \in Job => Adds(c.tree, s, Len(s), c.by, c.try)
  PROVE  Chain(Append(s, c))
<1> DEFINE t == Append(s, c)
<1>1. /\ t \in Seq(Commits) /\ Len(t) = Len(s) + 1
      /\ t[Len(s) + 1] = c /\ \A i \in 1..Len(s) : t[i] = s[i]
  BY AppendFacts
<1>2. Len(s) \in Nat /\ Len(s) \in 1..Len(s)
  BY LastFacts
<1>3. ASSUME NEW i \in 2..Len(t), t[i].by \in Job
      PROVE  Adds(t[i].tree, t, i - 1, t[i].by, t[i].try)
  <2>1. CASE i = Len(s) + 1
    <3>1. t[i] = c /\ i - 1 = Len(s)
      BY <1>1, <1>2, <2>1
    <3>2. Adds(c.tree, s, Len(s), c.by, c.try)
      BY <1>3, <3>1
    <3>. QED
      BY <1>2, <3>1, <3>2, AddsAppend
  <2>2. CASE i # Len(s) + 1
    <3>1. i \in 2..Len(s) /\ i - 1 \in 1..Len(s) /\ t[i] = s[i]
      BY <1>1, <1>2, <2>2
    <3>2. Adds(s[i].tree, s, i - 1, s[i].by, s[i].try)
      BY <1>3, <3>1 DEF Chain
    <3>. QED
      BY <3>1, <3>2, AddsAppend
  <2>. QED
    BY <2>1, <2>2
<1> HIDE DEF t
<1>4. Chain(t)
  BY <1>3 DEF Chain
<1>. QED
  BY <1>4 DEF t

\* What is downloaded from the sandbox is the run's work too.
LEMMA SyncedAdds ==
  ASSUME DirTypeOK, WorkInv, pc = "agent", NEW S \in SUBSET File
  PROVE  Handling(Synced(S))
<1>1. Handling(dir.tree) /\ (cur \in Sandboxed => Handling(box))
  BY DEF WorkInv
<1>2. CASE cur \in Sandboxed
  BY <1>1, <1>2 DEF Handling, Adds, Synced
<1>3. CASE cur \notin Sandboxed
  BY <1>1, <1>3 DEF Synced
<1>. QED
  BY <1>2, <1>3

\* Histories grow by commits of that kind only.
LEMMA NextHistory ==
  ASSUME TypeOK, Begun, HistoryInv, WorkInv, [Next]_vars
  PROVE  HistoryInv'
<1> USE DEF git, jobs, files, tokens, world
<1>0. HistoryInv /\ WorkInv /\ DirTypeOK
  BY DEF TypeOK
<1>1. ASSUME NEW j \in Job, Begin(j) PROVE HistoryInv'
  BY <1>0, <1>1 DEF Begin, Raise, HistoryInv, DirTypeOK
<1>2. CASE Clone
  <2>1. dir'.refs = [b \in {Base} |-> remote[Base]] /\ remote' = remote /\ Base \in Branch
    BY <1>2, AgentRunAssumption DEF Clone
  <2>. QED
    BY <1>0, <2>1 DEF HistoryInv
<1>3. CASE Checkout
  BY <1>0, <1>3 DEF Checkout, Raise, HistoryInv, DirTypeOK
<1>4. CASE Build
  BY <1>0, <1>4 DEF Build, Raise, HistoryInv, DirTypeOK
<1>5. ASSUME NEW f \in File, Edit(f) PROVE HistoryInv'
  BY <1>0, <1>5 DEF Edit, Write, HistoryInv, DirTypeOK
<1>6. ASSUME NEW f \in File, HostTool(f) PROVE HistoryInv'
  BY <1>0, <1>6 DEF HostTool, AgentTurn, HistoryInv, DirTypeOK
<1>7. ASSUME NEW S \in SUBSET File, Summarize(S) PROVE HistoryInv'
  BY <1>0, <1>7, SyncStep, SummarizeFacts DEF HistoryInv, DirTypeOK
<1>8. ASSUME NEW name \in Branch, NEW S \in SUBSET File, Finalize(name, S) PROVE HistoryInv'
  <2> DEFINE past == dir.refs[dir.head]
             c == Commit(cur, tries[cur], Synced(S))
  <2>1. remote' = remote /\ pc = "agent"
    BY <1>8, FinalizeFacts DEF Finalize
  <2>2. past \in Seq(Commits) \ {<<>>} /\ c \in Commits
        /\ Append(past, c) \in Seq(Commits) \ {<<>>} /\ Target(name) \in Branch
    BY <1>0, PastFacts, CommitMade, AppendFacts, TargetBranch DEF TypeOK
  <2>3. Chain(past) /\ Chain(Append(past, c))
    <3>1. Chain(past)
      BY <1>0 DEF HistoryInv, DirTypeOK
    <3>2. Adds(c.tree, past, Len(past), c.by, c.try)
      BY <1>0, <2>1, SyncedAdds DEF Handling, Commit
    <3> HIDE DEF past, c
    <3>. QED
      BY <2>2, <3>1, <3>2, ChainAppend
  <2>5. CASE dir' = [dir EXCEPT !.tree = Synced(S)]
    BY <1>0, <2>1, <2>5 DEF HistoryInv, DirTypeOK
  <2>6. ASSUME NEW commits \in Seq(Commits) \ {<<>>}, Chain(commits),
               dir' = OnBranch(Target(name), Synced(S), commits)
        PROVE  HistoryInv'
    <3>1. /\ DOMAIN dir'.refs = DOMAIN dir.refs \cup {Target(name)}
          /\ dir'.refs[Target(name)] = commits
          /\ \A x \in DOMAIN dir.refs \ {Target(name)} : dir'.refs[x] = dir.refs[x]
      BY <1>0, <2>2, <2>6, OnBranchFacts
    <3>. QED
      BY <1>0, <2>1, <2>6, <3>1 DEF HistoryInv
  <2>7. \/ dir' = [dir EXCEPT !.tree = Synced(S)]
        \/ dir' = OnBranch(Target(name), Synced(S), past)
        \/ dir' = OnBranch(Target(name), Synced(S), Append(past, c))
    BY <1>8, FinalizeFacts
  <2> HIDE DEF past, c
  <2>. QED
    BY <2>2, <2>3, <2>5, <2>6, <2>7
<1>9. CASE Answer
  BY <1>0, <1>9 DEF Answer, HistoryInv, DirTypeOK
<1>10. CASE StreamRaises
  BY <1>0, <1>10 DEF StreamRaises, Raise, HistoryInv, DirTypeOK
<1>11. CASE PushAccepted
  <2>1. remote' = remote \/ remote' = [remote EXCEPT ![dir.head] = dir.refs[dir.head]]
    BY <1>11 DEF PushAccepted, Deliver
  <2>2. dir'.refs = dir.refs
    BY <1>0, <1>11 DEF PushAccepted, DirTypeOK
  <2>3. dir.head \in DOMAIN dir.refs /\ remote \in [Branch -> Seq(Commits)]
    BY DEF TypeOK, GitTypeOK, DirTypeOK
  <2>4. \A b \in Branch : \/ remote'[b] = remote[b]
                          \/ b = dir.head /\ remote'[b] = dir.refs[dir.head]
    BY <2>1, <2>3
  <2>. QED
    BY <1>0, <2>2, <2>3, <2>4 DEF HistoryInv
<1>12. CASE PushDenied
  <2>1. remote' = remote \/ remote' = [remote EXCEPT ![dir.head] = dir.refs[dir.head]]
    BY <1>12 DEF PushDenied, Deliver
  <2>2. dir'.refs = dir.refs
    BY <1>0, <1>12 DEF PushDenied, DirTypeOK
  <2>3. dir.head \in DOMAIN dir.refs /\ remote \in [Branch -> Seq(Commits)]
    BY DEF TypeOK, GitTypeOK, DirTypeOK
  <2>4. \A b \in Branch : \/ remote'[b] = remote[b]
                          \/ b = dir.head /\ remote'[b] = dir.refs[dir.head]
    BY <2>1, <2>3
  <2>. QED
    BY <1>0, <2>2, <2>3, <2>4 DEF HistoryInv
<1>13. CASE PushFails
  BY <1>0, <1>13 DEF PushFails, ToolRaises, Raise, HistoryInv, DirTypeOK
<1>14. CASE FindPull
  BY <1>0, <1>14 DEF FindPull, ToolRaises, Raise, HistoryInv, DirTypeOK
<1>15. CASE OpenPull
  BY <1>0, <1>15 DEF OpenPull, ToolRaises, Raise, HistoryInv, DirTypeOK
<1>16. CASE Post
  BY <1>0, <1>16 DEF Post, HistoryInv, DirTypeOK
<1>17. CASE Cleanup
  BY <1>0, <1>17 DEF Cleanup, HistoryInv, DirTypeOK
<1>18. CASE Settle
  BY <1>0, <1>18 DEF Settle, Forget, HistoryInv, DirTypeOK
<1>19. CASE WorkerDies
  BY <1>0, <1>19 DEF WorkerDies, Forget, HistoryInv, DirTypeOK
<1>20. ASSUME NEW b \in Branch, NEW f \in File, UserPushes(b, f)
      PROVE  HistoryInv'
  <2>1. PICK tree \in Trees : remote' = [remote EXCEPT ![b] = Append(@, Commit("user", 0, tree))]
    BY <1>20, UserTree DEF UserPushes
  <2>2. /\ dir' = dir /\ remote[b] \in Seq(Commits) /\ remote \in [Branch -> Seq(Commits)]
        /\ remote[b] # <<>> /\ Commit("user", 0, tree) \in Commits
    BY <1>20, CommitFacts DEF UserPushes, TypeOK, GitTypeOK
  <2>3. Commit("user", 0, tree).by \notin Job
    BY AgentRunAssumption DEF Commit
  <2>4. Chain(Append(remote[b], Commit("user", 0, tree)))
    BY <1>0, <2>2, <2>3, ChainAppend DEF HistoryInv
  <2>. QED
    BY <1>0, <2>1, <2>2, <2>4 DEF HistoryInv
<1>21. ASSUME NEW p \in pulls, UserCloses(p) PROVE HistoryInv'
  <2>1. remote \in [Branch -> Seq(Commits)] /\ dir' = dir
    BY <1>21 DEF UserCloses, TypeOK, GitTypeOK
  <2>2. Chain(<<>>)
    BY DEF Chain
  <2>3. remote' = remote \/ remote' = [remote EXCEPT ![p.head] = <<>>]
    BY <1>21 DEF UserCloses
  <2>4. \A b \in Branch : remote'[b] \in {remote[b], <<>>}
    BY <2>1, <2>3
  <2>. QED
    BY <1>0, <2>1, <2>2, <2>4 DEF HistoryInv
<1>22. CASE Tick
  BY <1>0, <1>22 DEF Tick, HistoryInv, DirTypeOK
<1>23. CASE UNCHANGED vars
  BY <1>0, <1>23 DEF vars, HistoryInv, DirTypeOK
<1>. QED
  BY AskedBranch, <1>1, <1>2, <1>3, <1>4, <1>5, <1>6, <1>7, <1>8, <1>9, <1>10, <1>11, <1>12,
     <1>13, <1>14, <1>15, <1>16, <1>17, <1>18, <1>19, <1>20, <1>21, <1>22, <1>23
     DEF Next, RunStep, AgentStep

\* What a run writes, downloads or commits leaves its hands as clean.
LEMMA NextWork ==
  ASSUME TypeOK, Begun, WorkInv, [Next]_vars
  PROVE  WorkInv'
<1> USE DEF git, jobs, files, tokens, world
<1>0. WorkInv /\ DirTypeOK
  BY DEF TypeOK
<1>1. ASSUME NEW j \in Job, Begin(j) PROVE WorkInv'
  BY <1>1 DEF Begin, Raise, WorkInv
<1>2. CASE Clone
  <2>1. /\ dir'.refs = [b \in {Base} |-> remote[Base]] /\ dir'.head = Base
        /\ dir'.tree = Last(remote[Base]).tree
        /\ pc' \in {"checkout", "build", "settle"}
    BY <1>2 DEF Clone, Raise
  <2>2. dir'.refs[dir'.head] = remote[Base] /\ remote[Base] \in Seq(Commits) /\ remote[Base] # <<>>
    BY <2>1, AgentRunAssumption DEF TypeOK, GitTypeOK
  <2>3. LET s == remote[Base] IN Len(s) \in 1 .. Len(s) /\ Last(s) = s[Len(s)]
    BY <2>2, LastFacts
  <2>. QED
    BY <2>1, <2>2, <2>3 DEF WorkInv, Handling, Adds
<1>3. CASE Checkout
  BY <1>0, <1>3 DEF Checkout, Raise, WorkInv, Handling, DirTypeOK
<1>4. CASE Build
  <2>1. /\ pc = "build" /\ UNCHANGED <<cur, tries, dir>>
        /\ \/ pc' = "agent" /\ \E S \in SUBSET File : box' = Uploaded(S)
           \/ pc' = "settle"
    BY <1>4 DEF Build, Raise
  <2>2. Handling(dir.tree)
    BY <1>0, <2>1 DEF WorkInv
  <2>3. \A S \in SUBSET File : Handling(Uploaded(S))
    BY <2>2 DEF Handling, Adds, Uploaded
  <2>. QED
    BY <2>1, <2>2, <2>3 DEF WorkInv, Handling
<1>5. ASSUME NEW f \in File, Edit(f) PROVE WorkInv'
  <2>0. cur \in Job /\ tries[cur] \in Nat /\ turns + 1 \in Nat
    BY <1>0, AgentRunAssumption DEF TypeOK, RunTypeOK, JobsTypeOK, Events
  <2>1. Author(Mine) = Me
    BY <2>0, WrittenFacts DEF Mine, Me
  <2>2. UNCHANGED <<pc, cur, tries>> /\ pc = "agent"
    BY <1>5 DEF Edit, AgentTurn
  <2>3. PICK v \in {Mine, Gone} : Write(f, v)
    BY <1>5 DEF Edit
  <2>4. Handling(dir.tree) /\ (cur \in Sandboxed => Handling(box))
    BY <1>0, <2>2 DEF WorkInv
  <2>5. /\ dir'.refs = dir.refs /\ dir'.head = dir.head
        /\ \A g \in File : dir'.tree[g] = dir.tree[g] \/ dir'.tree[g] = v
        /\ \A g \in File : box'[g] = box[g] \/ box'[g] = v
    BY <1>0, <2>3 DEF Write, DirTypeOK, Trees
  <2>6. v = Gone \/ Author(v) = <<cur, tries[cur]>>
    BY <2>1 DEF Me
  <2>. QED
    BY <2>2, <2>4, <2>5, <2>6 DEF WorkInv, Handling, Adds
<1>6. ASSUME NEW f \in File, HostTool(f) PROVE WorkInv'
  <2>0. cur \in Job /\ tries[cur] \in Nat /\ turns + 1 \in Nat
    BY <1>0, AgentRunAssumption DEF TypeOK, RunTypeOK, JobsTypeOK, Events
  <2>1. Author(Mine) = Me
    BY <2>0, WrittenFacts DEF Mine, Me
  <2>2. UNCHANGED <<pc, cur, tries>> /\ pc = "agent"
    BY <1>6 DEF HostTool, AgentTurn
  <2>4. Handling(dir.tree) /\ (cur \in Sandboxed => Handling(box))
    BY <1>0, <2>2 DEF WorkInv
  <2>5. /\ dir'.refs = dir.refs /\ dir'.head = dir.head /\ box' = box
        /\ \A g \in File : dir'.tree[g] \in {dir.tree[g], Mine, Gone}
    BY <1>0, <1>6 DEF HostTool, DirTypeOK, Trees
  <2>6. Author(Mine) = <<cur, tries[cur]>>
    BY <2>1 DEF Me
  <2>. QED
    BY <2>2, <2>4, <2>5, <2>6 DEF WorkInv, Handling, Adds
<1>7. ASSUME NEW S \in SUBSET File, Summarize(S) PROVE WorkInv'
  <2>1. UNCHANGED <<cur, tries, box>> /\ pc = "agent"
    BY <1>7, SyncStep
  <2>2. Handling(Synced(S)) /\ (cur \in Sandboxed => Handling(box))
    BY <1>0, <2>1, SyncedAdds DEF WorkInv
  <2>3. dir'.refs = dir.refs /\ dir'.head = dir.head /\ dir'.tree = Synced(S)
    BY <1>0, <1>7, SummarizeFacts DEF DirTypeOK
  <2>. QED
    BY <2>1, <2>2, <2>3 DEF WorkInv, Handling
<1>8. ASSUME NEW name \in Branch, NEW S \in SUBSET File, Finalize(name, S) PROVE WorkInv'
  <2> DEFINE past == dir.refs[dir.head]
             c == Commit(cur, tries[cur], Synced(S))
  <2>1. UNCHANGED <<cur, tries, box>> /\ pc = "agent"
    BY <1>8, FinalizeFacts DEF Finalize
  <2>2. past \in Seq(Commits) \ {<<>>} /\ c \in Commits
        /\ Append(past, c) \in Seq(Commits) \ {<<>>} /\ Target(name) \in Branch
        /\ Last(Append(past, c)) = c
    BY <1>0, PastFacts, CommitMade, AppendFacts, TargetBranch DEF TypeOK
  <2>3. Handling(dir.tree) /\ Handling(Synced(S)) /\ (cur \in Sandboxed => Handling(box))
    BY <1>0, <2>1, SyncedAdds DEF WorkInv
  <2>5. CASE dir' = [dir EXCEPT !.tree = Synced(S)]
    <3>1. dir'.refs = dir.refs /\ dir'.head = dir.head /\ dir'.tree = Synced(S)
      BY <1>0, <2>5 DEF DirTypeOK
    <3>. QED
      BY <2>1, <2>3, <3>1 DEF WorkInv, Handling
  <2>6. /\ Adds(Synced(S), Append(past, c), Len(Append(past, c)), cur, tries[cur])
        /\ cur \in Sandboxed => Adds(box, Append(past, c), Len(Append(past, c)), cur, tries[cur])
    <3>1. Len(past) \in 1 .. Len(past)
      BY <2>2, LastFacts
    <3>. QED
      BY <2>2, <2>3, <3>1, AddsAppend DEF Handling
  <2>7. ASSUME NEW commits \in Seq(Commits) \ {<<>>}, commits \in {past, Append(past, c)},
               dir' = OnBranch(Target(name), Synced(S), commits)
        PROVE  WorkInv'
    <3>1. /\ dir'.refs[Target(name)] = commits /\ dir'.head = Target(name)
          /\ dir'.tree = Synced(S)
      BY <1>0, <2>2, <2>7, OnBranchFacts
    <3>2. dir'.refs[dir'.head] = commits
      BY <3>1
    <3>3. /\ Adds(Synced(S), commits, Len(commits), cur, tries[cur])
          /\ cur \in Sandboxed => Adds(box, commits, Len(commits), cur, tries[cur])
      BY <2>3, <2>6, <2>7 DEF Handling
    <3>. QED
      BY <2>1, <3>1, <3>2, <3>3 DEF WorkInv, Handling
  <2>8. \/ dir' = [dir EXCEPT !.tree = Synced(S)]
        \/ dir' = OnBranch(Target(name), Synced(S), past)
        \/ dir' = OnBranch(Target(name), Synced(S), Append(past, c))
    BY <1>8, FinalizeFacts
  <2> HIDE DEF past, c
  <2>. QED
    BY <2>2, <2>5, <2>7, <2>8
<1>9. CASE Answer
  BY <1>0, <1>9 DEF Answer, WorkInv, Handling, DirTypeOK
<1>10. CASE StreamRaises
  BY <1>0, <1>10 DEF StreamRaises, Raise, WorkInv, Handling, DirTypeOK
<1>11. CASE PushAccepted
  BY <1>0, <1>11
     DEF PushAccepted, Deliver, AfterPush, ToolRaises, Raise, WorkInv, Handling,
         DirTypeOK
<1>12. CASE PushDenied
  BY <1>0, <1>12
     DEF PushDenied, Deliver, AfterPush, ToolRaises, Raise, WorkInv, Handling,
         DirTypeOK
<1>13. CASE PushFails
  BY <1>0, <1>13 DEF PushFails, ToolRaises, Raise, WorkInv, Handling, DirTypeOK
<1>14. CASE FindPull
  BY <1>0, <1>14 DEF FindPull, ToolRaises, Raise, WorkInv, Handling, DirTypeOK
<1>15. CASE OpenPull
  BY <1>0, <1>15 DEF OpenPull, ToolRaises, Raise, WorkInv, Handling, DirTypeOK
<1>16. CASE Post
  BY <1>0, <1>16 DEF Post, WorkInv, Handling, DirTypeOK
<1>17. CASE Cleanup
  BY <1>0, <1>17 DEF Cleanup, WorkInv, Handling, DirTypeOK
<1>18. CASE Settle
  BY <1>18 DEF Settle, Forget, WorkInv
<1>19. CASE WorkerDies
  BY <1>19 DEF WorkerDies, Forget, WorkInv
<1>20. ASSUME NEW b \in Branch, NEW f \in File, UserPushes(b, f) PROVE WorkInv'
  BY <1>0, <1>20 DEF UserPushes, WorkInv, Handling, DirTypeOK
<1>21. ASSUME NEW p \in pulls, UserCloses(p) PROVE WorkInv'
  BY <1>0, <1>21 DEF UserCloses, WorkInv, Handling, DirTypeOK
<1>22. CASE Tick
  BY <1>0, <1>22 DEF Tick, WorkInv, Handling, DirTypeOK
<1>23. CASE UNCHANGED vars
  BY <1>0, <1>23 DEF vars, WorkInv, Handling, DirTypeOK
<1>. QED
  BY AskedBranch, <1>1, <1>2, <1>3, <1>4, <1>5, <1>6, <1>7, <1>8, <1>9, <1>10, <1>11, <1>12,
     <1>13, <1>14, <1>15, <1>16, <1>17, <1>18, <1>19, <1>20, <1>21, <1>22, <1>23
     DEF Next, RunStep, AgentStep

LEMMA InitWork == Init => HistoryInv /\ WorkInv
  BY DEF Init, HistoryInv, WorkInv, Chain

\* What a commit on GitHub that a run made holds is from the history of its
\* branch or the run's own: a clone starts from a commit, and all that is written,
\* uploaded, downloaded or committed afterwards is from there or the run's.
THEOREM OwnWorkOnly == Spec => []OnlyOwnWork
<1> DEFINE Inv == TypeOK /\ Begun /\ HistoryInv /\ WorkInv
<1>1. Init => Inv
  BY InitType, InitWork
<1>2. Inv /\ [Next]_vars => Inv'
  BY NextType, NextHistory, NextWork
<1>3. Inv => OnlyOwnWork
  BY DEF HistoryInv, Chain, Adds, OnlyOwnWork
<1>. QED
  BY <1>1, <1>2, <1>3, PTL DEF Spec

-----------------------------------------------------------------------------
(* The token in the clone's URL *)

\* It was good for more than the margin when the clone was made.
TokenInv ==
    /\ cloned <= now
    /\ pc \in {"checkout", "build", "agent", "push", "find", "open"}
         => dir.token > cloned + Margin

\* A token that replaces it is as good.
LEMMA NextToken ==
  ASSUME TypeOK, Begun, TokenInv, [Next]_vars
  PROVE  TokenInv'
<1> USE DEF git, jobs, files, tokens, world
<1>0. TokenInv /\ DirTypeOK /\ WorldTypeOK
  BY DEF TypeOK
<1>1. ASSUME NEW j \in Job, Begin(j) PROVE TokenInv'
  BY <1>0, <1>1, SpentType DEF Begin, Raise, TokenInv, Events
<1>2. CASE Clone
  <2>1. dir'.token = Token /\ cloned' = now
    BY <1>2 DEF Clone
  <2>2. now' = now
    BY <1>0, <1>2, SpentType DEF Clone, Events
  <2>. QED
    BY <1>0, <2>1, <2>2, TokenFacts, AgentRunAssumption DEF TokenInv, WorldTypeOK
<1>3. CASE Checkout
  BY <1>0, <1>3, SpentType
     DEF Checkout, Raise, TokenInv, DirTypeOK, WorldTypeOK, Events
<1>4. CASE Build
  BY <1>0, <1>4, BuildStep, SpentType
     DEF TokenInv, DirTypeOK, WorldTypeOK, Events
<1>5. ASSUME NEW f \in File, Edit(f) PROVE TokenInv'
  BY <1>0, <1>5 DEF Edit, AgentTurn, Write, TokenInv, DirTypeOK
<1>6. ASSUME NEW f \in File, HostTool(f) PROVE TokenInv'
  BY <1>0, <1>6, SpentType
     DEF HostTool, AgentTurn, TokenInv, DirTypeOK, WorldTypeOK, Events
<1>7. ASSUME NEW S \in SUBSET File, Summarize(S) PROVE TokenInv'
  BY <1>0, <1>7, SyncStep, SummarizeFacts, SpentType
     DEF TokenInv, DirTypeOK, WorldTypeOK, Events
<1>8. ASSUME NEW name \in Branch, NEW S \in SUBSET File, Finalize(name, S) PROVE TokenInv'
  <2>1. pc = "agent" /\ cloned' = cloned
    BY <1>8, FinalizeFacts DEF Finalize
  <2>2. now' = now
    BY <1>0, <1>8, SyncStep, SpentType DEF Events
  <2>3. dir'.token = dir.token
    <3>1. ASSUME NEW b, NEW commits, dir' = OnBranch(b, Synced(S), commits)
          PROVE  dir'.token = dir.token
      BY <1>0, <3>1 DEF OnBranch, DirTypeOK
    <3>2. CASE dir' = [dir EXCEPT !.tree = Synced(S)]
      BY <1>0, <3>2 DEF DirTypeOK
    <3>. QED
      BY <1>8, <3>1, <3>2, FinalizeFacts
  <2>. QED
    BY <1>0, <2>1, <2>2, <2>3 DEF TokenInv
<1>9. CASE Answer
  BY <1>0, <1>9, SpentType DEF Answer, TokenInv, DirTypeOK, WorldTypeOK, Events
<1>10. CASE StreamRaises
  BY <1>0, <1>10, SpentType
     DEF StreamRaises, Raise, TokenInv, DirTypeOK, WorldTypeOK, Events
<1>11. CASE PushAccepted
  BY <1>0, <1>11, SpentType
     DEF PushAccepted, Deliver, AfterPush, ToolRaises, Raise, TokenInv,
         DirTypeOK, WorldTypeOK, Events
<1>12. CASE PushDenied
  <2>1. pc = "push" /\ UNCHANGED <<now, cloned>>
    BY <1>12 DEF PushDenied
  <2>2. dir'.token \in {dir.token, Renewed}
    BY <1>0, <1>12 DEF PushDenied, DirTypeOK
  <2>. QED
    BY <1>0, <2>1, <2>2, TokenFacts, AgentRunAssumption DEF TokenInv, WorldTypeOK
<1>13. CASE PushFails
  BY <1>0, <1>13, SpentType
     DEF PushFails, ToolRaises, Raise, TokenInv, DirTypeOK, WorldTypeOK, Events
<1>14. CASE FindPull
  BY <1>0, <1>14, SpentType
     DEF FindPull, ToolRaises, Raise, TokenInv, DirTypeOK, WorldTypeOK, Events
<1>15. CASE OpenPull
  BY <1>0, <1>15, SpentType
     DEF OpenPull, ToolRaises, Raise, TokenInv, DirTypeOK, WorldTypeOK, Events
<1>16. CASE Post
  BY <1>0, <1>16, SpentType DEF Post, TokenInv, DirTypeOK, WorldTypeOK, Events
<1>17. CASE Cleanup
  BY <1>0, <1>17, SpentType DEF Cleanup, TokenInv, DirTypeOK, WorldTypeOK, Events
<1>18. CASE Settle
  BY <1>0, <1>18 DEF Settle, Forget, TokenInv, WorldTypeOK
<1>19. CASE WorkerDies
  BY <1>0, <1>19, SpentType DEF WorkerDies, Forget, TokenInv, WorldTypeOK, Events
<1>20. ASSUME NEW b \in Branch, NEW f \in File, UserPushes(b, f) PROVE TokenInv'
  BY <1>0, <1>20, SpentType
     DEF UserPushes, TokenInv, DirTypeOK, WorldTypeOK, Events
<1>21. ASSUME NEW p \in pulls, UserCloses(p) PROVE TokenInv'
  BY <1>0, <1>21, SpentType
     DEF UserCloses, TokenInv, DirTypeOK, WorldTypeOK, Events
<1>22. CASE Tick
  BY <1>0, <1>22 DEF Tick, TokenInv, WorldTypeOK
<1>23. CASE UNCHANGED vars
  BY <1>0, <1>23 DEF vars, TokenInv, DirTypeOK, WorldTypeOK, Events
<1>. QED
  BY AskedBranch, <1>1, <1>2, <1>3, <1>4, <1>5, <1>6, <1>7, <1>8, <1>9, <1>10, <1>11, <1>12,
     <1>13, <1>14, <1>15, <1>16, <1>17, <1>18, <1>19, <1>20, <1>21, <1>22, <1>23
     DEF Next, RunStep, AgentStep

\* Pushes of runs shorter than the margin are not refused for their token:
\* the one in the clone's URL has more than the margin left when it is put there.
THEOREM DeniedWhenLate == Spec => DeniedOnlyLate
<1> DEFINE Inv == TypeOK /\ Begun /\ TokenInv
<1>1. Init => Inv
  BY InitType, AgentRunAssumption DEF Init, TokenInv
<1>2. Inv /\ [Next]_vars => Inv'
  BY NextType, NextToken
<1>3. Inv /\ [Next]_vars => [PushDenied => now > cloned + Margin]_vars
  <2> SUFFICES ASSUME Inv, PushDenied PROVE now > cloned + Margin
    OBVIOUS
  <2>1. /\ now >= dir.token /\ dir.token > cloned + Margin
        /\ now \in Nat /\ dir.token \in Nat /\ cloned \in Nat /\ Margin \in Nat
    BY AgentRunAssumption DEF PushDenied, TokenInv, TypeOK, DirTypeOK, WorldTypeOK
  <2>. QED
    BY <2>1
<1>. QED
  BY <1>1, <1>2, <1>3, PTL DEF Spec, DeniedOnlyLate

-----------------------------------------------------------------------------
(* What the agent wrote *)

\* A finalize_patch that gets to the commit leaves every file the agent wrote,
\* where it wrote it, in the last commit of the branch that is checked out, but
\* for the files that the download left out.
LEMMA FinalizeDelivers ==
  ASSUME TypeOK, NEW name \in Branch, NEW S \in SUBSET File, Committing(name, S),
         NEW f \in File, Author(Workplace[f]) = Me
  PROVE  \/ Last(dir'.refs[dir'.head]).tree[f] = Workplace[f]
         \/ f \in S /\ spent'["skip"] > spent["skip"]
<1> DEFINE past == dir.refs[dir.head]
           c == Commit(cur, tries[cur], Synced(S))
<1>1. past \in Seq(Commits) \ {<<>>} /\ Last(Append(past, c)) = c
      /\ Append(past, c) \in Seq(Commits) \ {<<>>} /\ Target(name) \in Branch
  BY PastFacts, CommitMade, AppendFacts, TargetBranch DEF TypeOK
<1>2. f \notin S => Synced(S)[f] = Workplace[f]
  <2>1. cur \in Job /\ tries[cur] \in Nat
    BY AgentRunAssumption DEF TypeOK, RunTypeOK, JobsTypeOK, Events
  <2>2. Author(Gone) # Me
    BY <2>1, WrittenFacts DEF Me
  <2>3. Workplace[f] # Gone
    BY <2>2
  <2>. QED
    BY <2>3 DEF Synced, Workplace
<1>3. f \in S => spent'["skip"] > spent["skip"]
  <2>1. ~Spend("box")
    BY SpendFacts DEF Committing, TypeOK, WorldTypeOK, Events
  <2>2. Skips(S)
    BY <2>1 DEF Committing, Finalize, SyncRaises
  <2>3. spent["skip"] \in Nat
    BY DEF TypeOK, WorldTypeOK, Events
  <2>. QED
    BY <2>2, <2>3, SpendFacts DEF Skips, TypeOK, Events
<1>4. PICK commits \in Seq(Commits) \ {<<>>} :
        dir' = OnBranch(Target(name), Synced(S), commits) /\ Last(commits).tree = Synced(S)
  <2>1. ~Spend("box")
    BY SpendFacts DEF Committing, TypeOK, WorldTypeOK, Events
  <2>2. \/ dir' = OnBranch(Target(name), Synced(S), past) /\ Last(past).tree = Synced(S)
        \/ dir' = OnBranch(Target(name), Synced(S), Append(past, c))
    BY <2>1 DEF Committing, Finalize, SyncRaises
  <2>3. c.tree = Synced(S)
    BY DEF Commit
  <2> HIDE DEF past, c
  <2>. QED
    BY <1>1, <2>2, <2>3
<1>5. dir'.refs[dir'.head] = commits
  BY <1>1, <1>4, OnBranchFacts DEF TypeOK
<1>. QED
  BY <1>2, <1>3, <1>4, <1>5

\* Wherever the agent wrote, clone or sandbox, finalize_patch commits it, unless
\* that very download left the file out.
THEOREM EditsAreCommitted == Spec => EditsReachCommit
<1> DEFINE Reach == \A name \in Branch, S \in SUBSET File :
             Committing(name, S)
                => \A f \in File :
                     Author(Workplace[f]) = Me
                        => \/ Last(dir'.refs[dir'.head]).tree[f] = Workplace[f]
                           \/ f \in S /\ spent'["skip"] > spent["skip"]
<1>1. TypeOK => Reach
  BY FinalizeDelivers
<1>2. TypeOK /\ Begun /\ [Next]_vars => [Reach]_vars
  BY <1>1
<1>. QED
  BY <1>2, RunTypeCorrect, PTL DEF Spec, EditsReachCommit

-----------------------------------------------------------------------------
(* Sandboxes *)

\* The sandboxes whose run cannot stop them any more.
Strays == IF pc \in {"idle", "settle"} THEN live ELSE live \ {Me}

Paid == spent["box"] + spent["crash"]

BoxInv == IsFiniteSet(live) /\ Cardinality(Strays) <= Paid

\* A sandbox is named by a try that has begun; a run has none before it builds.
Fresh ==
    /\ \A j \in Job, n \in Nat : <<j, n>> \in live => n <= tries[j]
    /\ pc \in {"clone", "checkout", "build"} => Me \notin live

\* Names are not used twice.
LEMMA NextFresh ==
  ASSUME TypeOK, Begun, Fresh, [Next]_vars
  PROVE  Fresh'
<1> USE DEF git, jobs, files, tokens, world
<1>0. /\ Fresh /\ RunTypeOK /\ tries \in [Job -> Nat]
      /\ cur \in Job /\ tries[cur] \in Nat
  BY AgentRunAssumption DEF TypeOK, RunTypeOK, JobsTypeOK, Events
<1>1. ASSUME NEW j \in Job, Begin(j) PROVE Fresh'
  <2>1. UNCHANGED live /\ cur' = j /\ tries' = [tries EXCEPT ![j] = @ + 1]
    BY <1>1 DEF Begin
  <2>. QED
    BY <1>0, <2>1 DEF Fresh, Me
<1>2. CASE Clone
  BY <1>0, <1>2 DEF Clone, Raise, Fresh, Me, RunTypeOK
<1>3. CASE Checkout
  BY <1>0, <1>3 DEF Checkout, Raise, Fresh, Me, RunTypeOK
<1>4. CASE Build
  <2>1. UNCHANGED <<tries, cur>> /\ live' \in {live, live \cup {Me}}
        /\ pc' \in {"agent", "settle"}
    BY <1>4, BuildStep
  <2>. QED
    BY <1>0, <2>1 DEF Fresh, Me
<1>5. ASSUME NEW f \in File, Edit(f) PROVE Fresh'
  BY <1>0, <1>5 DEF Edit, AgentTurn, Fresh, Me, RunTypeOK
<1>6. ASSUME NEW f \in File, HostTool(f) PROVE Fresh'
  BY <1>0, <1>6 DEF HostTool, AgentTurn, Fresh, Me, RunTypeOK
<1>7. ASSUME NEW S \in SUBSET File, Summarize(S) PROVE Fresh'
  BY <1>0, <1>7, SyncStep DEF Fresh, Me
<1>8. ASSUME NEW name \in Branch, NEW S \in SUBSET File, Finalize(name, S) PROVE Fresh'
  BY <1>0, <1>8, SyncStep DEF Fresh, Me
<1>9. CASE Answer
  BY <1>0, <1>9 DEF Answer, Fresh, Me, RunTypeOK
<1>10. CASE StreamRaises
  BY <1>0, <1>10 DEF StreamRaises, Raise, Fresh, Me, RunTypeOK
<1>11. CASE PushAccepted
  BY <1>0, <1>11
     DEF PushAccepted, Deliver, AfterPush, ToolRaises, Raise, Fresh, Me,
         RunTypeOK
<1>12. CASE PushDenied
  BY <1>0, <1>12
     DEF PushDenied, Deliver, AfterPush, ToolRaises, Raise, Fresh, Me, RunTypeOK
<1>13. CASE PushFails
  BY <1>0, <1>13 DEF PushFails, ToolRaises, Raise, Fresh, Me, RunTypeOK
<1>14. CASE FindPull
  BY <1>0, <1>14 DEF FindPull, ToolRaises, Raise, Fresh, Me, RunTypeOK
<1>15. CASE OpenPull
  BY <1>0, <1>15 DEF OpenPull, ToolRaises, Raise, Fresh, Me, RunTypeOK
<1>16. CASE Post
  BY <1>0, <1>16 DEF Post, Fresh, Me, RunTypeOK
<1>17. CASE Cleanup
  BY <1>0, <1>17 DEF Cleanup, Fresh, Me, RunTypeOK
<1>18. CASE Settle
  BY <1>0, <1>18 DEF Settle, Forget, Fresh, Me, RunTypeOK
<1>19. CASE WorkerDies
  BY <1>0, <1>19 DEF WorkerDies, Forget, Fresh, Me, RunTypeOK
<1>20. ASSUME NEW b \in Branch, NEW f \in File, UserPushes(b, f) PROVE Fresh'
  BY <1>0, <1>20 DEF UserPushes, Fresh, Me, RunTypeOK
<1>21. ASSUME NEW p \in pulls, UserCloses(p) PROVE Fresh'
  BY <1>0, <1>21 DEF UserCloses, Fresh, Me, RunTypeOK
<1>22. CASE Tick
  BY <1>0, <1>22 DEF Tick, Fresh, Me, RunTypeOK
<1>23. CASE UNCHANGED vars
  BY <1>0, <1>23 DEF vars, Fresh, Me, RunTypeOK
<1>. QED
  BY AskedBranch, <1>1, <1>2, <1>3, <1>4, <1>5, <1>6, <1>7, <1>8, <1>9, <1>10, <1>11, <1>12,
     <1>13, <1>14, <1>15, <1>16, <1>17, <1>18, <1>19, <1>20, <1>21, <1>22, <1>23
     DEF Next, RunStep, AgentStep

\* A step that adds a sandbox to them is one that spends a failure.
Strayed ==
    \/ Strays' \subseteq Strays /\ Paid' \in {Paid, Paid + 1}
    \/ Strays' \subseteq Strays \cup {Me} /\ Paid' = Paid + 1

LEMMA SpentBox ==
  ASSUME TypeOK
  PROVE  \A e \in Events : Spend(e) =>
           Paid' = IF e \in {"box", "crash"} THEN Paid + 1 ELSE Paid
<1> SUFFICES ASSUME NEW e \in Events, Spend(e)
             PROVE  Paid' = IF e \in {"box", "crash"} THEN Paid + 1 ELSE Paid
  OBVIOUS
<1>1. /\ spent'[e] = spent[e] + 1 /\ spent \in [Events -> Nat]
      /\ \A x \in Events : x # e => spent'[x] = spent[x]
  BY SpendFacts DEF TypeOK, WorldTypeOK
<1>. QED
  BY <1>1 DEF Paid, Events

\* Every step is of that kind.
LEMMA StrayStep ==
  ASSUME TypeOK, Begun, Fresh, [Next]_vars
  PROVE  Strayed
<1> USE DEF git, jobs, files, tokens, world
<1>0. Fresh /\ Paid \in Nat
  BY DEF TypeOK, WorldTypeOK, Events, Paid
<1>1. ASSUME NEW j \in Job, Begin(j) PROVE Strayed
  BY <1>0, <1>1, SpentBox DEF Begin, Raise, Strayed, Strays, Me, Paid, Events
<1>2. CASE Clone
  <2>1. UNCHANGED <<live, cur, tries>> /\ pc = "clone" /\ pc' \in {"checkout", "build", "settle"}
    BY <1>2 DEF Clone, Raise
  <2>2. spent' = spent \/ Paid' \in {Paid, Paid + 1}
    BY <1>0, <1>2, SpentBox DEF Clone, Events
  <2>3. Strays' = Strays
    BY <1>0, <2>1 DEF Strays, Me, Fresh
  <2>. QED
    BY <1>0, <2>2, <2>3 DEF Strayed, Paid
<1>3. CASE Checkout
  <2>1. /\ UNCHANGED <<live, cur, tries, spent>>
        /\ pc = "checkout" /\ pc' \in {"build", "settle"}
    BY <1>3 DEF Checkout, Raise
  <2>2. Strays' = Strays
    BY <1>0, <2>1 DEF Strays, Me, Fresh
  <2>. QED
    BY <1>0, <2>1, <2>2 DEF Strayed, Paid
<1>4. CASE Build
  BY <1>0, <1>4, BuildStep, SpentBox DEF Strayed, Strays, Me, Paid, Events
<1>5. ASSUME NEW f \in File, Edit(f) PROVE Strayed
  BY <1>0, <1>5, SpentBox DEF Edit, AgentTurn, Strayed, Strays, Me, Paid, Events
<1>6. ASSUME NEW f \in File, HostTool(f) PROVE Strayed
  BY <1>0, <1>6, SpentBox DEF HostTool, AgentTurn, Strayed, Strays, Me, Paid, Events
<1>7. ASSUME NEW S \in SUBSET File, Summarize(S) PROVE Strayed
  BY <1>0, <1>7, SyncStep, SpentBox DEF Strayed, Strays, Me, Paid, Events
<1>8. ASSUME NEW name \in Branch, NEW S \in SUBSET File, Finalize(name, S) PROVE Strayed
  BY <1>0, <1>8, SyncStep, SpentBox DEF Strayed, Strays, Me, Paid, Events
<1>9. CASE Answer
  BY <1>0, <1>9, SpentBox DEF Answer, Strayed, Strays, Me, Paid, Events
<1>10. CASE StreamRaises
  BY <1>0, <1>10, SpentBox DEF StreamRaises, Raise, Strayed, Strays, Me, Paid, Events
<1>11. CASE PushAccepted
  BY <1>0, <1>11, SpentBox
     DEF PushAccepted, Deliver, AfterPush, ToolRaises, Raise, Strayed, Strays,
         Me, Paid, Events
<1>12. CASE PushDenied
  BY <1>0, <1>12, SpentBox
     DEF PushDenied, Deliver, AfterPush, ToolRaises, Raise, Strayed, Strays, Me,
         Paid, Events
<1>13. CASE PushFails
  BY <1>0, <1>13, SpentBox
     DEF PushFails, ToolRaises, Raise, Strayed, Strays, Me, Paid, Events
<1>14. CASE FindPull
  BY <1>0, <1>14, SpentBox
     DEF FindPull, ToolRaises, Raise, Strayed, Strays, Me, Paid, Events
<1>15. CASE OpenPull
  BY <1>0, <1>15, SpentBox
     DEF OpenPull, ToolRaises, Raise, Strayed, Strays, Me, Paid, Events
<1>16. CASE Post
  BY <1>0, <1>16, SpentBox DEF Post, Strayed, Strays, Me, Paid, Events
<1>17. CASE Cleanup
  BY <1>0, <1>17, SpentBox DEF Cleanup, Strayed, Strays, Me, Paid, Events
<1>18. CASE Settle
  BY <1>0, <1>18, SpentBox DEF Settle, Forget, Strayed, Strays, Me, Paid, Events
<1>19. CASE WorkerDies
  BY <1>0, <1>19, SpentBox DEF WorkerDies, Forget, Strayed, Strays, Me, Paid, Events
<1>20. ASSUME NEW b \in Branch, NEW f \in File, UserPushes(b, f) PROVE Strayed
  BY <1>0, <1>20, SpentBox DEF UserPushes, Strayed, Strays, Me, Paid, Events
<1>21. ASSUME NEW p \in pulls, UserCloses(p) PROVE Strayed
  BY <1>0, <1>21, SpentBox DEF UserCloses, Strayed, Strays, Me, Paid, Events
<1>22. CASE Tick
  BY <1>0, <1>22, SpentBox DEF Tick, Strayed, Strays, Me, Paid, Events
<1>23. CASE UNCHANGED vars
  BY <1>0, <1>23 DEF vars, Strayed, Strays, Me, Paid
<1>. QED
  BY AskedBranch, <1>1, <1>2, <1>3, <1>4, <1>5, <1>6, <1>7, <1>8, <1>9, <1>10, <1>11, <1>12,
     <1>13, <1>14, <1>15, <1>16, <1>17, <1>18, <1>19, <1>20, <1>21, <1>22, <1>23
     DEF Next, RunStep, AgentStep

LEMMA NextBox ==
  ASSUME TypeOK, Begun, Fresh, BoxInv, [Next]_vars
  PROVE  BoxInv'
<1>1. IsFiniteSet(live) /\ Cardinality(Strays) <= Paid /\ Paid \in Nat
  BY DEF BoxInv, TypeOK, WorldTypeOK, Events, Paid
<1>2. IsFiniteSet(Strays)
  <2>1. Strays \subseteq live
    BY DEF Strays
  <2>. QED
    BY <1>1, <2>1, FS_Subset
<1>3. IsFiniteSet(Strays')
  <2>1. IsFiniteSet(Strays \cup {Me})
    BY <1>2, FS_AddElement
  <2>2. Strays' \subseteq Strays \cup {Me}
    BY StrayStep DEF Strayed
  <2>. QED
    BY <2>1, <2>2, FS_Subset
<1>4. IsFiniteSet(live')
  <2>1. live' \subseteq Strays' \cup {Me'}
    BY DEF Strays
  <2>2. IsFiniteSet(Strays' \cup {Me'})
    BY <1>3, FS_AddElement
  <2>. QED
    BY <2>1, <2>2, FS_Subset
<1>5. Cardinality(Strays) \in Nat
  BY <1>2, FS_CardinalityType
<1>6. CASE Strays' \subseteq Strays /\ Paid' \in {Paid, Paid + 1}
  <2>1. Cardinality(Strays') <= Cardinality(Strays) /\ Cardinality(Strays') \in Nat
    BY <1>2, <1>3, <1>6, FS_Subset, FS_CardinalityType
  <2>. QED
    BY <1>1, <1>4, <1>5, <1>6, <2>1 DEF BoxInv
<1>7. CASE Strays' \subseteq Strays \cup {Me} /\ Paid' = Paid + 1
  <2>1. /\ IsFiniteSet(Strays \cup {Me})
        /\ Cardinality(Strays \cup {Me}) <= Cardinality(Strays) + 1
        /\ Cardinality(Strays \cup {Me}) \in Nat
    <3>1. /\ IsFiniteSet(Strays \cup {Me})
          /\ Cardinality(Strays \cup {Me}) = IF Me \in Strays THEN Cardinality(Strays)
                                             ELSE Cardinality(Strays) + 1
      BY <1>2, FS_AddElement
    <3>2. Cardinality(Strays \cup {Me}) \in Nat
      BY <3>1, FS_CardinalityType
    <3>. QED
      BY <1>5, <3>1, <3>2
  <2>2. Cardinality(Strays') <= Cardinality(Strays \cup {Me}) /\ Cardinality(Strays') \in Nat
    BY <1>3, <1>7, <2>1, FS_Subset, FS_CardinalityType
  <2>. QED
    BY <1>1, <1>4, <1>5, <1>7, <2>1, <2>2 DEF BoxInv
<1>. QED
  BY <1>6, <1>7, StrayStep DEF Strayed

\* A sandbox that outlives its run is paid for by a call to the provider that
\* failed or a worker that died: cleanup is reached from every step after the
\* sandbox is handed over.
THEOREM SandboxesStopped == Spec => []BoxesStopped
<1> DEFINE Inv == TypeOK /\ Begun /\ Fresh /\ BoxInv
<1>1. Init => Inv
  <2> SUFFICES ASSUME Init PROVE Inv
    OBVIOUS
  <2>1. TypeOK /\ Begun
    BY InitType
  <2>2. live = {} /\ pc = "idle" /\ Paid = 0
    BY DEF Init, Paid, Events
  <2>3. Strays = {}
    BY <2>2 DEF Strays
  <2>. QED
    BY <2>1, <2>2, <2>3, FS_EmptySet DEF Fresh, BoxInv
<1>2. Inv /\ [Next]_vars => Inv'
  BY NextType, NextFresh, NextBox
<1>3. Inv => BoxesStopped
  <2> SUFFICES ASSUME Inv PROVE BoxesStopped
    OBVIOUS
  <2> DEFINE left == live \ (IF pc = "idle" THEN {} ELSE {Me})
  <2>1. left \subseteq Strays /\ Strays \subseteq live
    BY DEF Strays
  <2>2. IsFiniteSet(Strays)
    BY <2>1, FS_Subset DEF BoxInv
  <2>3. /\ Cardinality(left) <= Cardinality(Strays)
        /\ Cardinality(left) \in Nat /\ Cardinality(Strays) \in Nat
    BY <2>1, <2>2, FS_Subset, FS_CardinalityType
  <2>4. Cardinality(Strays) <= Paid /\ Paid \in Nat
    BY DEF BoxInv, TypeOK, WorldTypeOK, Events, Paid
  <2> HIDE DEF left
  <2>5. Cardinality(left) <= Paid
    BY <2>3, <2>4
  <2>. QED
    BY <2>5 DEF left, BoxesStopped, Paid
<1>. QED
  BY <1>1, <1>2, <1>3, PTL DEF Spec

-----------------------------------------------------------------------------
(* Pull requests *)

HeadsOpened == \A p \in pulls : p.head \in opened

\* An open pull request was opened.
LEMMA NextOpened ==
  ASSUME TypeOK, Begun, HeadsOpened, [Next]_vars
  PROVE  HeadsOpened'
<1> USE DEF git, jobs, files, tokens, world
<1>0. HeadsOpened
  OBVIOUS
<1>1. ASSUME NEW j \in Job, Begin(j) PROVE HeadsOpened'
  BY <1>0, <1>1 DEF Begin, Raise, HeadsOpened
<1>2. CASE Clone
  BY <1>0, <1>2 DEF Clone, Raise, HeadsOpened
<1>3. CASE Checkout
  BY <1>0, <1>3 DEF Checkout, Raise, HeadsOpened
<1>4. CASE Build
  BY <1>0, <1>4 DEF Build, Raise, HeadsOpened
<1>5. ASSUME NEW f \in File, Edit(f) PROVE HeadsOpened'
  BY <1>0, <1>5 DEF Edit, AgentTurn, HeadsOpened
<1>6. ASSUME NEW f \in File, HostTool(f) PROVE HeadsOpened'
  BY <1>0, <1>6 DEF HostTool, AgentTurn, HeadsOpened
<1>7. ASSUME NEW S \in SUBSET File, Summarize(S) PROVE HeadsOpened'
  BY <1>0, <1>7, SyncStep DEF HeadsOpened
<1>8. ASSUME NEW name \in Branch, NEW S \in SUBSET File, Finalize(name, S) PROVE HeadsOpened'
  BY <1>0, <1>8, SyncStep DEF HeadsOpened
<1>9. CASE Answer
  BY <1>0, <1>9 DEF Answer, HeadsOpened
<1>10. CASE StreamRaises
  BY <1>0, <1>10 DEF StreamRaises, Raise, HeadsOpened
<1>11. CASE PushAccepted
  BY <1>0, <1>11
     DEF PushAccepted, Deliver, AfterPush, ToolRaises, Raise, HeadsOpened
<1>12. CASE PushDenied
  BY <1>0, <1>12
     DEF PushDenied, Deliver, AfterPush, ToolRaises, Raise, HeadsOpened
<1>13. CASE PushFails
  BY <1>0, <1>13 DEF PushFails, ToolRaises, Raise, HeadsOpened
<1>14. CASE FindPull
  BY <1>0, <1>14 DEF FindPull, ToolRaises, Raise, HeadsOpened
<1>15. CASE OpenPull
  BY <1>0, <1>15 DEF OpenPull, ToolRaises, Raise, HeadsOpened
<1>16. CASE Post
  BY <1>0, <1>16 DEF Post, HeadsOpened
<1>17. CASE Cleanup
  BY <1>0, <1>17 DEF Cleanup, HeadsOpened
<1>18. CASE Settle
  BY <1>0, <1>18 DEF Settle, Forget, HeadsOpened
<1>19. CASE WorkerDies
  BY <1>0, <1>19 DEF WorkerDies, Forget, HeadsOpened
<1>20. ASSUME NEW b \in Branch, NEW f \in File, UserPushes(b, f)
      PROVE  HeadsOpened'
  BY <1>0, <1>20 DEF UserPushes, HeadsOpened
<1>21. ASSUME NEW p \in pulls, UserCloses(p) PROVE HeadsOpened'
  BY <1>0, <1>21 DEF UserCloses, HeadsOpened
<1>22. CASE Tick
  BY <1>0, <1>22 DEF Tick, HeadsOpened
<1>23. CASE UNCHANGED vars
  BY <1>0, <1>23 DEF vars, HeadsOpened
<1>. QED
  BY AskedBranch, <1>1, <1>2, <1>3, <1>4, <1>5, <1>6, <1>7, <1>8, <1>9, <1>10, <1>11, <1>12,
     <1>13, <1>14, <1>15, <1>16, <1>17, <1>18, <1>19, <1>20, <1>21, <1>22, <1>23
     DEF Next, RunStep, AgentStep

\* What a run pushes ends in a commit of its own.
Signed ==
    /\ pc \in {"push", "find", "open"} => Last(dir.refs[dir.head]).by = cur
    /\ pc \in {"find", "open"} =>
         \/ remote[dir.head] = <<>>
         \/ \E i \in DOMAIN remote[dir.head] : remote[dir.head][i].by = cur

\* It stays there, whatever a user adds.
LEMMA NextSigned ==
  ASSUME TypeOK, Begun, Signed, [Next]_vars
  PROVE  Signed'
<1> USE DEF git, jobs, files, tokens, world
<1>0. Signed /\ DirTypeOK
  BY DEF TypeOK
<1>1. ASSUME NEW j \in Job, Begin(j) PROVE Signed'
  BY <1>0, <1>1 DEF Begin, Raise, Signed
<1>2. CASE Clone
  BY <1>0, <1>2 DEF Clone, Raise, Signed
<1>3. CASE Checkout
  BY <1>0, <1>3 DEF Checkout, Raise, Signed
<1>4. CASE Build
  BY <1>0, <1>4 DEF Build, Raise, Signed
<1>5. ASSUME NEW f \in File, Edit(f) PROVE Signed'
  BY <1>5 DEF Edit, AgentTurn, Signed
<1>6. ASSUME NEW f \in File, HostTool(f) PROVE Signed'
  BY <1>6 DEF HostTool, AgentTurn, Signed
<1>7. ASSUME NEW S \in SUBSET File, Summarize(S) PROVE Signed'
  BY <1>7, SyncStep, SummarizeFacts DEF Signed
<1>8. ASSUME NEW name \in Branch, NEW S \in SUBSET File, Finalize(name, S) PROVE Signed'
  <2> DEFINE c == Commit(cur, tries[cur], Synced(S))
             longer == Append(dir.refs[dir.head], c)
  <2>1. cur' = cur /\ pc = "agent" /\ pc' \in {"agent", "push", "cleanup"}
    BY <1>8, SyncStep
  <2>2. SUFFICES ASSUME pc' = "push" PROVE Last(dir'.refs[dir'.head]).by = cur
    BY <2>1 DEF Signed
  <2>3. dir' = OnBranch(Target(name), Synced(S), longer)
    BY <1>8, <2>1, <2>2, FinalizeFacts
  <2>4. longer \in Seq(Commits) \ {<<>>} /\ Last(longer) = c /\ Target(name) \in Branch
    BY <1>0, PastFacts, CommitMade, AppendFacts, TargetBranch DEF TypeOK
  <2>5. c.by = cur
    BY DEF Commit
  <2> HIDE DEF c, longer
  <2>6. dir'.refs[dir'.head] = longer
    BY <1>0, <2>3, <2>4, OnBranchFacts
  <2>. QED
    BY <2>4, <2>5, <2>6
<1>9. CASE Answer
  BY <1>0, <1>9 DEF Answer, Signed
<1>10. CASE StreamRaises
  BY <1>0, <1>10 DEF StreamRaises, Raise, Signed
<1>11. CASE PushAccepted
  <2>1. \/ /\ remote' = [remote EXCEPT ![dir.head] = dir.refs[dir.head]]
           /\ pc' \in {"find", "open"}
        \/ pc' \in {"agent", "cleanup"}
    BY <1>11 DEF PushAccepted, Deliver, AfterPush, ToolRaises, Raise
  <2>2. pc = "push" /\ cur' = cur
    BY <1>11 DEF PushAccepted
  <2>3. dir'.refs = dir.refs /\ dir'.head = dir.head
    BY <1>0, <1>11 DEF PushAccepted, DirTypeOK
  <2>4. /\ dir.head \in Branch /\ remote \in [Branch -> Seq(Commits)]
        /\ dir.refs[dir.head] \in Seq(Commits) \ {<<>>}
    BY DEF TypeOK, GitTypeOK, DirTypeOK
  <2>5. Len(dir.refs[dir.head]) \in DOMAIN dir.refs[dir.head]
        /\ dir.refs[dir.head][Len(dir.refs[dir.head])].by = cur
    BY <1>0, <2>2, <2>4, LastFacts DEF Signed
  <2>6. CASE pc' \in {"agent", "cleanup"}
    BY <2>6 DEF Signed
  <2>7. CASE remote' = [remote EXCEPT ![dir.head] = dir.refs[dir.head]]
    <3>1. remote'[dir.head] = dir.refs[dir.head]
      BY <2>4, <2>7
    <3>. QED
      BY <1>0, <2>2, <2>3, <2>5, <3>1 DEF Signed
  <2>. QED
    BY <2>1, <2>6, <2>7
<1>12. CASE PushDenied
  <2>1. \/ /\ remote' = [remote EXCEPT ![dir.head] = dir.refs[dir.head]]
           /\ pc' \in {"find", "open"}
        \/ pc' \in {"agent", "cleanup"}
    BY <1>12 DEF PushDenied, Deliver, AfterPush, ToolRaises, Raise
  <2>2. pc = "push" /\ cur' = cur
    BY <1>12 DEF PushDenied
  <2>3. dir'.refs = dir.refs /\ dir'.head = dir.head
    BY <1>0, <1>12 DEF PushDenied, DirTypeOK
  <2>4. /\ dir.head \in Branch /\ remote \in [Branch -> Seq(Commits)]
        /\ dir.refs[dir.head] \in Seq(Commits) \ {<<>>}
    BY DEF TypeOK, GitTypeOK, DirTypeOK
  <2>5. Len(dir.refs[dir.head]) \in DOMAIN dir.refs[dir.head]
        /\ dir.refs[dir.head][Len(dir.refs[dir.head])].by = cur
    BY <1>0, <2>2, <2>4, LastFacts DEF Signed
  <2>6. CASE pc' \in {"agent", "cleanup"}
    BY <2>6 DEF Signed
  <2>7. CASE remote' = [remote EXCEPT ![dir.head] = dir.refs[dir.head]]
    <3>1. remote'[dir.head] = dir.refs[dir.head]
      BY <2>4, <2>7
    <3>. QED
      BY <1>0, <2>2, <2>3, <2>5, <3>1 DEF Signed
  <2>. QED
    BY <2>1, <2>6, <2>7
<1>13. CASE PushFails
  BY <1>0, <1>13 DEF PushFails, ToolRaises, Raise, Signed
<1>14. CASE FindPull
  BY <1>0, <1>14 DEF FindPull, ToolRaises, Raise, Signed
<1>15. CASE OpenPull
  BY <1>0, <1>15 DEF OpenPull, ToolRaises, Raise, Signed
<1>16. CASE Post
  BY <1>0, <1>16 DEF Post, Signed
<1>17. CASE Cleanup
  BY <1>0, <1>17 DEF Cleanup, Signed
<1>18. CASE Settle
  BY <1>0, <1>18 DEF Settle, Forget, Signed
<1>19. CASE WorkerDies
  BY <1>0, <1>19 DEF WorkerDies, Forget, Signed
<1>20. ASSUME NEW b \in Branch, NEW f \in File, UserPushes(b, f) PROVE Signed'
  <2>1. PICK tree \in Trees : remote' = [remote EXCEPT ![b] = Append(@, Commit("user", 0, tree))]
    BY <1>20, UserTree DEF UserPushes
  <2>2. UNCHANGED <<pc, cur, dir>>
    BY <1>20 DEF UserPushes
  <2>3. /\ remote[b] \in Seq(Commits) /\ remote \in [Branch -> Seq(Commits)]
        /\ remote[b] # <<>> /\ Commit("user", 0, tree) \in Commits
    BY <1>20, CommitFacts DEF UserPushes, TypeOK, GitTypeOK
  <2> DEFINE longer == Append(remote[b], Commit("user", 0, tree))
  <2>4. \A i \in DOMAIN remote[b] : i \in DOMAIN longer /\ longer[i] = remote[b][i]
    BY <2>3, AppendFacts
  <2>5. \A x \in Branch : remote'[x] = IF x = b THEN longer ELSE remote[x]
    BY <2>1, <2>3
  <2>6. dir.head \in Branch
    BY DEF TypeOK, DirTypeOK
  <2> HIDE DEF longer
  <2>. QED
    BY <1>0, <2>2, <2>3, <2>4, <2>5, <2>6 DEF Signed
<1>21. ASSUME NEW p \in pulls, UserCloses(p) PROVE Signed'
  <2>1. remote \in [Branch -> Seq(Commits)] /\ dir.head \in Branch /\ UNCHANGED <<pc, cur, dir>>
    BY <1>21 DEF UserCloses, TypeOK, GitTypeOK, DirTypeOK
  <2>2. remote'[dir.head] \in {remote[dir.head], <<>>}
    BY <1>21, <2>1 DEF UserCloses
  <2>. QED
    BY <1>0, <2>1, <2>2 DEF Signed
<1>22. CASE Tick
  BY <1>0, <1>22 DEF Tick, Signed
<1>23. CASE UNCHANGED vars
  BY <1>0, <1>23 DEF vars, Signed
<1>. QED
  BY AskedBranch, <1>1, <1>2, <1>3, <1>4, <1>5, <1>6, <1>7, <1>8, <1>9, <1>10, <1>11, <1>12,
     <1>13, <1>14, <1>15, <1>16, <1>17, <1>18, <1>19, <1>20, <1>21, <1>22, <1>23
     DEF Next, RunStep, AgentStep

Failed == spent["api"] + spent["crash"]

\* Without failures, the branches that runs have pushed have had a pull request,
\* but for the one whose run is about to open it.
PullInv ==
    Failed = 0 =>
      \A b \in Branch \ {Base} :
        Pushed(b) => b \in opened \/ (pc \in {"find", "open"} /\ dir.head = b)

LEMMA SpentCalls ==
  ASSUME TypeOK
  PROVE  /\ Failed \in Nat
         /\ \A e \in Events : Spend(e) =>
              Failed' = IF e \in {"api", "crash"} THEN Failed + 1 ELSE Failed
<1>0. Failed \in Nat /\ spent \in [Events -> Nat]
  BY DEF TypeOK, WorldTypeOK, Events, Failed
<1>1. ASSUME NEW e \in Events, Spend(e)
      PROVE  Failed' = IF e \in {"api", "crash"} THEN Failed + 1 ELSE Failed
  <2>1. spent'[e] = spent[e] + 1 /\ \A x \in Events : x # e => spent'[x] = spent[x]
    BY <1>1, SpendFacts DEF TypeOK
  <2>. QED
    BY <1>0, <2>1 DEF Failed, Events
<1>. QED
  BY <1>0, <1>1

\* Where GitHub opens no pull request against the default branch, the branch
\* has one already or none of the run's commits: those are not on the default
\* branch.
LEMMA NotOpenable ==
  ASSUME TypeOK, OnHead, BaseInv, HeadsOpened, Signed, pc = "open", dir.head # Base,
         Pushed(dir.head), ~Openable(Base)
  PROVE  dir.head \in opened
<1>1. remote[Base] # <<>> /\ cur \in Job /\ remote[dir.head] # <<>>
  BY DEF TypeOK, GitTypeOK, RunTypeOK, Pushed
<1>2. PICK i \in DOMAIN remote[dir.head] : remote[dir.head][i].by = cur
  BY <1>1 DEF Signed
<1>3. Kind[cur] # "iterate"
  BY DEF OnHead, Iterating
<1>4. remote[Base] # remote[dir.head]
  BY <1>1, <1>2, <1>3 DEF BaseInv, Iterated
<1>5. \E p \in pulls : p.head = dir.head
  BY <1>1, <1>4 DEF Openable
<1>. QED
  BY <1>5 DEF HeadsOpened

\* Every step keeps it so.
LEMMA NextPull ==
  ASSUME TypeOK, Begun, OnHead, BaseInv, HeadsOpened, Signed, PullInv, [Next]_vars
  PROVE  PullInv'
<1> USE DEF git, jobs, files, tokens, world
<1>0. /\ PullInv /\ TypeOK /\ DirTypeOK /\ OnHead /\ BaseInv /\ HeadsOpened /\ Signed
  BY DEF TypeOK
<1>1. ASSUME NEW j \in Job, Begin(j) PROVE PullInv'
  BY <1>0, <1>1, SpentCalls DEF Begin, PullInv, Pushed, Failed, Events
<1>2. CASE Clone
  <2>1. UNCHANGED <<remote, opened>> /\ pc \notin {"find", "open"}
    BY <1>2 DEF Clone, AgentTurn
  <2>2. Failed' = 0 => Failed = 0
    BY <1>0, <1>2, SpentCalls DEF Clone, Events, Failed
  <2>. QED
    BY <1>0, <2>1, <2>2 DEF PullInv, Pushed
<1>3. CASE Checkout
  BY <1>0, <1>3, SpentCalls DEF Checkout, PullInv, Pushed, Failed, Events
<1>4. CASE Build
  BY <1>0, <1>4, BuildStep, SpentCalls DEF PullInv, Pushed, Failed, Events
<1>5. ASSUME NEW f \in File, Edit(f) PROVE PullInv'
  <2>1. UNCHANGED <<remote, opened>> /\ pc \notin {"find", "open"}
    BY <1>5 DEF Edit, AgentTurn
  <2>2. Failed' = 0 => Failed = 0
    BY <1>0, <1>5, SpentCalls DEF Edit, Events, Failed
  <2>. QED
    BY <1>0, <2>1, <2>2 DEF PullInv, Pushed
<1>6. ASSUME NEW f \in File, HostTool(f) PROVE PullInv'
  <2>1. UNCHANGED <<remote, opened>> /\ pc \notin {"find", "open"}
    BY <1>6 DEF HostTool, AgentTurn
  <2>2. Failed' = 0 => Failed = 0
    BY <1>0, <1>6, SpentCalls DEF HostTool, Events, Failed
  <2>. QED
    BY <1>0, <2>1, <2>2 DEF PullInv, Pushed
<1>7. ASSUME NEW S \in SUBSET File, Summarize(S) PROVE PullInv'
  <2>1. UNCHANGED <<remote, opened>> /\ pc \notin {"find", "open"}
    BY <1>7, SyncStep
  <2>2. Failed' = 0 => Failed = 0
    BY <1>0, <1>7, SyncStep, SpentCalls DEF Events, Failed
  <2>. QED
    BY <1>0, <2>1, <2>2 DEF PullInv, Pushed
<1>8. ASSUME NEW name \in Branch, NEW S \in SUBSET File, Finalize(name, S) PROVE PullInv'
  <2>1. UNCHANGED <<remote, opened>> /\ pc \notin {"find", "open"}
    BY <1>8, SyncStep
  <2>2. Failed' = 0 => Failed = 0
    BY <1>0, <1>8, SyncStep, SpentCalls DEF Events, Failed
  <2>. QED
    BY <1>0, <2>1, <2>2 DEF PullInv, Pushed
<1>9. CASE Answer
  BY <1>0, <1>9, SpentCalls DEF Answer, PullInv, Pushed, Failed, Events
<1>10. CASE StreamRaises
  BY <1>0, <1>10, SpentCalls DEF StreamRaises, PullInv, Pushed, Failed, Events
<1>11. CASE PushAccepted
  <2>1. \/ /\ remote' = [remote EXCEPT ![dir.head] = dir.refs[dir.head]]
           /\ pc' \in {"find", "open"}
        \/ remote' = remote
    BY <1>11 DEF PushAccepted, Deliver, AfterPush
  <2>2. pc = "push" /\ UNCHANGED <<opened, spent>>
    BY <1>11 DEF PushAccepted
  <2>3. dir'.head = dir.head /\ dir.head \in Branch /\ remote \in [Branch -> Seq(Commits)]
    BY <1>0, <1>11 DEF PushAccepted, DirTypeOK, TypeOK, GitTypeOK
  <2>4. \A b \in Branch : \/ remote'[b] = remote[b]
                          \/ b = dir.head /\ pc' \in {"find", "open"}
    BY <2>1, <2>3
  <2>. QED
    BY <1>0, <2>2, <2>3, <2>4 DEF PullInv, Pushed, Failed
<1>12. CASE PushDenied
  <2>1. \/ /\ remote' = [remote EXCEPT ![dir.head] = dir.refs[dir.head]]
           /\ pc' \in {"find", "open"}
        \/ remote' = remote
    BY <1>12 DEF PushDenied, Deliver, AfterPush
  <2>2. pc = "push" /\ UNCHANGED <<opened, spent>>
    BY <1>12 DEF PushDenied
  <2>3. dir'.head = dir.head /\ dir.head \in Branch /\ remote \in [Branch -> Seq(Commits)]
    BY <1>0, <1>12 DEF PushDenied, DirTypeOK, TypeOK, GitTypeOK
  <2>4. \A b \in Branch : \/ remote'[b] = remote[b]
                          \/ b = dir.head /\ pc' \in {"find", "open"}
    BY <2>1, <2>3
  <2>. QED
    BY <1>0, <2>2, <2>3, <2>4 DEF PullInv, Pushed, Failed
<1>13. CASE PushFails
  BY <1>0, <1>13, SpentCalls DEF PushFails, PullInv, Pushed, Failed, Events
<1>14. CASE FindPull
  <2>1. UNCHANGED <<remote, opened, dir>> /\ pc = "find"
    BY <1>14 DEF FindPull
  <2>2. \/ pc' = "open" /\ UNCHANGED spent
        \/ dir.head \in opened /\ UNCHANGED spent
        \/ Failed' # 0
    BY <1>0, <1>14, SpentCalls DEF FindPull, HeadsOpened, Events
  <2>. QED
    BY <1>0, <2>1, <2>2 DEF PullInv, Pushed, Failed
<1>15. CASE OpenPull
  <2>1. UNCHANGED <<remote, dir>> /\ pc = "open"
    BY <1>15 DEF OpenPull
  <2>2. opened \subseteq opened'
    BY <1>15 DEF OpenPull
  <2>3. \/ dir.head \in opened'
        \/ ~Openable(Base) /\ UNCHANGED spent
        \/ Failed' # 0
    BY <1>0, <1>15, SpentCalls DEF OpenPull, Events
  <2>4. dir.head # Base /\ Pushed(dir.head) /\ ~Openable(Base) => dir.head \in opened
    BY <1>0, <2>1, NotOpenable
  <2>5. Failed' = 0 => Failed = 0
    BY <1>0, <1>15, SpentCalls DEF OpenPull, Events, Failed
  <2>. QED
    BY <1>0, <2>1, <2>2, <2>3, <2>4, <2>5 DEF PullInv, Pushed
<1>16. CASE Post
  BY <1>0, <1>16, SpentCalls DEF Post, PullInv, Pushed, Failed, Events
<1>17. CASE Cleanup
  BY <1>0, <1>17, SpentCalls DEF Cleanup, PullInv, Pushed, Failed, Events
<1>18. CASE Settle
  BY <1>0, <1>18, SpentCalls DEF Settle, PullInv, Pushed, Failed, Events
<1>19. CASE WorkerDies
  <2>1. Failed' # 0
    BY <1>0, <1>19, SpentCalls DEF WorkerDies, Events
  <2>. QED
    BY <2>1 DEF PullInv
<1>20. ASSUME NEW b \in Branch, NEW f \in File, UserPushes(b, f) PROVE PullInv'
  <2>1. PICK tree \in Trees : remote' = [remote EXCEPT ![b] = Append(@, Commit("user", 0, tree))]
    BY <1>20, UserTree DEF UserPushes
  <2>2. UNCHANGED <<pc, cur, dir, opened>>
    BY <1>20 DEF UserPushes
  <2>3. /\ remote[b] \in Seq(Commits) /\ remote \in [Branch -> Seq(Commits)]
        /\ Commit("user", 0, tree) \in Commits /\ Commit("user", 0, tree).by \notin Job
    BY <1>20, CommitFacts, AgentRunAssumption DEF UserPushes, TypeOK, GitTypeOK, Commit
  <2> DEFINE longer == Append(remote[b], Commit("user", 0, tree))
  <2>4. \A i \in DOMAIN longer : longer[i].by \in Job
          => i \in DOMAIN remote[b] /\ longer[i] = remote[b][i]
    BY <2>3, AppendFacts
  <2>5. \A x \in Branch : remote'[x] = IF x = b THEN longer ELSE remote[x]
    BY <2>1, <2>3
  <2> HIDE DEF longer
  <2>6. \A x \in Branch : Pushed(x)' => Pushed(x)
    BY <2>4, <2>5 DEF Pushed
  <2>7. Failed' = 0 => Failed = 0
    BY <1>0, <1>20, SpentCalls DEF UserPushes, Events, Failed
  <2>. QED
    BY <1>0, <2>2, <2>6, <2>7 DEF PullInv
<1>21. ASSUME NEW p \in pulls, UserCloses(p) PROVE PullInv'
  <2>1. remote \in [Branch -> Seq(Commits)] /\ UNCHANGED <<pc, cur, dir, opened>>
    BY <1>21 DEF UserCloses, TypeOK, GitTypeOK
  <2>2. \A b \in Branch : remote'[b] \in {remote[b], <<>>}
    BY <1>21, <2>1 DEF UserCloses
  <2>3. \A b \in Branch : Pushed(b)' => Pushed(b)
    BY <2>2 DEF Pushed
  <2>4. Failed' = 0 => Failed = 0
    BY <1>0, <1>21, SpentCalls DEF UserCloses, Events, Failed
  <2>. QED
    BY <1>0, <2>1, <2>3, <2>4 DEF PullInv
<1>22. CASE Tick
  BY <1>0, <1>22, SpentCalls DEF Tick, PullInv, Pushed, Failed, Events
<1>23. CASE UNCHANGED vars
  BY <1>0, <1>23 DEF vars, PullInv, Pushed, Failed
<1>. QED
  BY AskedBranch, <1>1, <1>2, <1>3, <1>4, <1>5, <1>6, <1>7, <1>8, <1>9, <1>10, <1>11, <1>12,
     <1>13, <1>14, <1>15, <1>16, <1>17, <1>18, <1>19, <1>20, <1>21, <1>22, <1>23
     DEF Next, RunStep, AgentStep

LEMMA InitPull == Init => HeadsOpened /\ Signed /\ PullInv
<1> SUFFICES ASSUME Init PROVE HeadsOpened /\ Signed /\ PullInv
  OBVIOUS
<1>1. \A b \in Branch : ~Pushed(b)
  <2>1. ASSUME NEW b \in Branch, NEW i \in DOMAIN remote[b] PROVE remote[b][i].by = "user"
    <3>1. remote[b] = <<Start>> \/ remote[b] = <<>>
      BY <2>1 DEF Init
    <3>. QED
      BY <2>1, <3>1 DEF Start, Commit
  <2>. QED
    BY <2>1, AgentRunAssumption DEF Pushed
<1>. QED
  BY <1>1 DEF Init, HeadsOpened, Signed, PullInv

\* Where the default branch is called main or master, a branch that a run has
\* pushed has had a pull request when the run is over, unless a call to GitHub
\* failed or a worker died: a push leads to FindPull or OpenPull, and GitHub
\* only refuses one if there is one.
THEOREM WorkIsOffered ==
  ASSUME Base \in {"main", "master"}
  PROVE  Spec => []WorkGetsPull
<1> DEFINE Inv == /\ TypeOK /\ Begun /\ OnHead /\ BaseInv
                  /\ HeadsOpened /\ Signed /\ PullInv
<1>1. Init => Inv
  BY InitType, InitBase, InitPull
<1>2. Inv /\ [Next]_vars => Inv'
  BY NextType, NextHead, NextBase, NextOpened, NextSigned, NextPull
<1>3. Inv => WorkGetsPull
  <2> SUFFICES ASSUME Inv PROVE WorkGetsPull
    OBVIOUS
  <2>1. spent["api"] \in Nat /\ spent["crash"] \in Nat
    BY DEF TypeOK, WorldTypeOK, Events
  <2>. QED
    BY <2>1 DEF PullInv, WorkGetsPull, Failed
<1>. QED
  BY <1>1, <1>2, <1>3, PTL DEF Spec

=============================================================================
