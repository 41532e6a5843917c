------------------------------ MODULE AgentRun ------------------------------
(***************************************************************************)
(* The runs of the agent on one repository: clone, sandbox, edits, and     *)
(* finalize_patch with its commit, push and pull request; the token cache  *)
(* they draw on; and the worker that tries a failed job again.  Runs of a  *)
(* repository follow one another (JobQueue's RepoMutex), so one run is in  *)
(* progress at a time.  GitHub, git, the sandbox provider and the model    *)
(* are the environment: what they answer is a choice.                      *)
(***************************************************************************)
EXTENDS Naturals, Sequences, SequencesExt, FiniteSets

CONSTANTS
    Job,
    Kind,        \* Job -> {"fix", "evolve", "iterate", "review"}
    Sandboxed,   \* the jobs that run in a remote sandbox
    Branch, Base,\* branch names; the default branch
    Asked,       \* Job -> try -> the branch the prompt asks for
    PullOf,      \* Job -> the pull request an "iterate" or "review" is about
    File,
    MaxTries,    \* runs of a job that fails each time
    MaxTurns,    \* DEEPAGENT_MAX_TURNS, in calls that change something
    Life, Margin,\* of a token, in ticks of the clock
    MaxTime,     \* the clock stops here
    Backlog,     \* the sets of jobs that may be waiting at the start
    Budget,      \* how often each of Events happens
    MaxFaults    \* and how many happen at all

Events == {"api", "box", "skip", "crash", "push", "close"}

ASSUME AgentRunAssumption ==
    /\ Base \in Branch /\ "main" \in Branch
    /\ Job # {} /\ {"repo", "gone", "user"} \cap Job = {}
    /\ Sandboxed \subseteq Job
    /\ MaxTries \in Nat \ {0} /\ MaxTurns \in Nat /\ MaxTime \in Nat
    /\ Life \in Nat /\ Margin \in Nat /\ Margin < Life
    /\ Backlog \subseteq SUBSET Job
    /\ Budget \in [Events -> Nat] /\ MaxFaults \in Nat

ASSUME JobAssumption ==
    /\ Kind \in [Job -> {"fix", "evolve", "iterate", "review"}]
    /\ PullOf \in [Job -> [head : Branch, base : Branch, fork : BOOLEAN]]
    /\ \A j \in Job : \A n \in 1 .. MaxTries + Budget["crash"] : Asked[j][n] \in Branch

VARIABLES
    remote,  \* GitHub: Branch -> its commits, oldest first (<<>>: no such branch)
    pulls,   \* GitHub: the open pull requests
    opened,  \* the branches a pull request has ever been opened for
    status,  \* Job -> "queued", "done" or "dead"
    tries,   \* Job -> runs begun
    pc,      \* the next step of the run in progress, or "idle"
    cur,     \* its job
    outcome, \* how it ends: "ok" or "raised"
    dir,     \* the clone in the work directory: refs, head, tree, token
    box,     \* the files in the run's sandbox
    live,    \* the sandboxes that are alive, named <<job, try>>
    turns,   \* calls the agent has made
    cache,   \* the cached token, named by its expiry (0: none)
    held,    \* the token inside the run's PullRequest object
    cloned,  \* when the run made its clone
    now,
    spent    \* how often each event has happened

git    == <<remote, pulls, opened>>
jobs   == <<status, tries>>
files  == <<dir, box>>
tokens == <<cache, held, cloned>>
world  == <<now, spent>>
vars   == <<git, jobs, pc, cur, outcome, files, live, turns, tokens, world>>

Old   == <<"repo", 0, 0>>           \* what a file holds before any run
Gone  == <<"gone", 0, 0>>           \* the file does not exist
Trees == [File -> ({"repo", "gone", "user"} \cup Job) \X Nat \X Nat]

\* A commit by a job names the try that made it.
Commit(by, try, tree) == [by |-> by, try |-> try, tree |-> tree]
Start == Commit("user", 0, [f \in File |-> Old])

NoRun == CHOOSE j \in Job : TRUE   \* what cur is while no run is in progress

Me == <<cur, tries[cur]>>

\* What the run writes into a file, and the run that a content names.
Mine == <<cur, tries[cur], turns + 1>>
Author(v) == <<v[1], v[2]>>

Protected(b) == {"main", "master", b}

Commits == [by : Job \cup {"user"}, try : Nat, tree : Trees]

GitTypeOK ==
    /\ remote \in [Branch -> Seq(Commits)] /\ remote[Base] # <<>>
    /\ pulls \subseteq [head : Branch, base : Branch, fork : BOOLEAN]
    /\ opened \subseteq Branch

RunTypeOK ==
    /\ pc \in {"idle", "clone", "checkout", "build", "agent", "push", "find",
               "open", "post", "cleanup", "settle"}
    /\ cur \in Job /\ outcome \in {"ok", "raised"}
    /\ live \subseteq Job \X Nat /\ turns \in 0 .. MaxTurns

DirTypeOK ==
    /\ DOMAIN dir.refs \subseteq Branch /\ dir.head \in DOMAIN dir.refs
    /\ \A b \in DOMAIN dir.refs : dir.refs[b] \in Seq(Commits) \ {<<>>}
    /\ dir \in [refs : {dir.refs}, head : Branch, tree : Trees, token : 0 .. MaxTime + Life]
    /\ box \in Trees

\* A job that is queued has runs left, the ones that died not counted.
JobsTypeOK ==
    /\ status \in [Job -> {"queued", "done", "dead"}]
    /\ tries \in [Job -> 0 .. MaxTries + Budget["crash"]]
    /\ \A j \in Job :
          /\ tries[j] <= MaxTries + spent["crash"]
          /\ status[j] = "queued" /\ (pc = "idle" \/ j # cur)
                => tries[j] < MaxTries + spent["crash"]

WorldTypeOK ==
    /\ {cache, held, cloned} \subseteq 0 .. MaxTime + Life
    /\ now \in 0 .. MaxTime
    /\ spent \in [Events -> Nat] /\ \A e \in Events : spent[e] <= Budget[e]

TypeOK == GitTypeOK /\ RunTypeOK /\ DirTypeOK /\ JobsTypeOK /\ WorldTypeOK

Init ==
    /\ remote = [b \in Branch |->
                   IF b = Base \/ \E j \in Job : PullOf[j].head = b /\ ~PullOf[j].fork
                   THEN <<Start>> ELSE <<>>]
    /\ pulls = {PullOf[j] : j \in {k \in Job : Kind[k] \in {"iterate", "review"}}}
    /\ opened = {p.head : p \in pulls}
    /\ \E waiting \in Backlog :
          status = [j \in Job |-> IF j \in waiting THEN "queued" ELSE "done"]
    /\ tries = [j \in Job |-> 0]
    /\ pc = "idle" /\ cur = NoRun /\ outcome = "ok"
    /\ dir = [refs |-> [b \in {Base} |-> <<Start>>], head |-> Base,
              tree |-> Start.tree, token |-> 0]
    /\ box = Start.tree /\ live = {} /\ turns = 0
    /\ cache = 0 /\ held = 0 /\ cloned = 0 /\ now = 0
    /\ spent = [e \in Events |-> 0]

-----------------------------------------------------------------------------
Spend(e) ==
    /\ spent[e] < Budget[e] /\ MapThenSumSet(LAMBDA x : spent[x], Events) < MaxFaults
    /\ spent' = [spent EXCEPT ![e] = @ + 1] /\ now' = now

Raise(next) == pc' = next /\ outcome' = "raised"

\* An exception inside a tool: the framework shows it to the model, or lets it
\* out of agent.stream and through the finally clause.
ToolRaises ==
    \/ Raise("cleanup")
    \/ pc' = "agent" /\ outcome' = outcome

\* Mutant: the margin is forgotten.
TokenUnguarded == IF cache > now THEN cache ELSE now + Life

\* _installation_token: the cached token while it has more than the margin
\* left, otherwise a new one.
Token == IF cache > now + Margin THEN cache ELSE now + Life

\* The token after invalidate, which drops the one in the cache.
Renewed == now + Life

\* A GitHub call with a client for the repository: it takes a token first.
TakeToken == cache' = Token

-----------------------------------------------------------------------------
(* The run.  Until the sandbox is there an exception leaves at once        *)
(* ("settle"), from then on through handle.cleanup() ("cleanup").          *)

Begin(j) ==
    /\ pc = "idle" /\ status[j] = "queued"
    /\ tries' = [tries EXCEPT ![j] = @ + 1]
    /\ cur' = j /\ turns' = 0
    /\ TakeToken
    /\ held' = IF Kind[j] \in {"iterate", "review"} THEN Token ELSE 0
    /\ \/ pc' = "clone" /\ outcome' = "ok" /\ UNCHANGED world
       \/ Spend("api") /\ Raise("settle")
    /\ UNCHANGED <<git, status, files, live, cloned>>

\* Mutant: a directory that exists is fetched into and keeps its files.
CloneKept ==
    /\ pc = "clone"
    /\ TakeToken /\ cloned' = now
    /\ dir' = [refs |-> [b \in {Base} |-> remote[Base]], head |-> Base,
               tree |-> dir.tree, token |-> Token]
    /\ pc' = (IF Kind[cur] = "iterate" THEN "checkout" ELSE "build")
    /\ UNCHANGED <<git, jobs, cur, outcome, box, live, turns, held, world>>

\* rmtree of the directory and a clone of depth 1: only the default branch.
Clone ==
    /\ pc = "clone"
    /\ TakeToken /\ cloned' = now
    /\ dir' = [refs |-> [b \in {Base} |-> remote[Base]], head |-> Base,
               tree |-> Last(remote[Base]).tree, token |-> Token]
    /\ \/ pc' = (IF Kind[cur] = "iterate" THEN "checkout" ELSE "build")
          /\ UNCHANGED <<outcome, world>>
       \/ Spend("api") /\ Raise("settle")
    /\ UNCHANGED <<git, jobs, cur, box, live, turns, held>>

\* git fetch origin <head>; git checkout <head>.  The clone has one branch and
\* its refspec names only that one, so a fetch of another sets FETCH_HEAD alone.
Checkout ==
    /\ pc = "checkout"
    /\ \/ PullOf[cur].head \in DOMAIN dir.refs /\ pc' = "build" /\ outcome' = outcome
       \/ PullOf[cur].head \notin DOMAIN dir.refs /\ Raise("settle")
    /\ UNCHANGED <<git, jobs, cur, files, live, turns, tokens, world>>

\* A call to the provider that leaves files out and raises nothing.
Skips(S) ==
    \/ S = {} /\ UNCHANGED world
    \/ S # {} /\ cur \in Sandboxed /\ Spend("skip")

\* What a new sandbox holds: the clone, but for the files in S, whose upload
\* failed.  Nobody looks at what upload_files returns.
Uploaded(S) == [f \in File |-> IF f \in S THEN Gone ELSE dir.tree[f]]

\* build_agent: the constructor of the handle creates the sandbox and uploads
\* the clone; an exception after the creation leaves nobody with the handle.
Build ==
    /\ pc = "build"
    /\ live' = IF cur \in Sandboxed THEN live \cup {Me} ELSE live
    /\ \/ \E S \in SUBSET File : box' = Uploaded(S) /\ Skips(S)
          /\ pc' = "agent" /\ outcome' = outcome
       \/ Spend("box") /\ Raise("settle") /\ box' = box
    /\ UNCHANGED <<git, jobs, cur, dir, turns, tokens>>

-----------------------------------------------------------------------------
(* What the agent does, a call at a time.                                  *)

\* Mutant: calls are not counted.
AgentTurnUncounted == pc = "agent" /\ turns < MaxTurns /\ turns' = turns

AgentTurn == pc = "agent" /\ turns < MaxTurns /\ turns' = turns + 1

\* The backend's file tools and shell: in the sandbox, or in the clone.
Write(f, v) ==
    IF cur \in Sandboxed
    THEN box' = [box EXCEPT ![f] = v] /\ dir' = dir
    ELSE dir' = [dir EXCEPT !.tree[f] = v] /\ box' = box

Edit(f) ==
    /\ AgentTurn
    /\ Write(f, Mine) \/ Write(f, Gone)
    /\ UNCHANGED <<git, jobs, pc, cur, outcome, live, tokens, world>>

\* The tools that run a command or a script in the clone, whatever the backend:
\* lint_check, format_code, ast_grep_rewrite, codemod_python, the profilers,
\* i18n_extract.
HostTool(f) ==
    /\ AgentTurn
    /\ \E v \in {Mine, Gone} : dir' = [dir EXCEPT !.tree[f] = v]
    /\ UNCHANGED <<git, jobs, pc, cur, outcome, box, live, tokens, world>>

\* Mutant: nothing is downloaded before the commit.
SyncSkipped(S) == dir.tree

\* What the clone holds after sync_to_host: the files of the sandbox, but for
\* those in S, which came without content; a listing that is empty leaves all of
\* them out.  What is gone in the sandbox stays in the clone.
Synced(S) ==
    IF cur \in Sandboxed
    THEN [f \in File |-> IF box[f] = Gone \/ f \in S THEN dir.tree[f] ELSE box[f]]
    ELSE dir.tree

\* sync_to_host raises, some files written and those in S not.
SyncRaises(S) ==
    /\ cur \in Sandboxed /\ Spend("box") /\ ToolRaises
    /\ dir' = [dir EXCEPT !.tree = Synced(S)]

\* summarize_diff, the read-only tool that syncs.
Summarize(S) ==
    /\ AgentTurn
    /\ \/ /\ dir' = [dir EXCEPT !.tree = Synced(S)]
          /\ Skips(S) /\ UNCHANGED <<pc, outcome>>
       \/ SyncRaises(S)
    /\ UNCHANGED <<git, jobs, cur, box, live, tokens>>

Iterating == Kind[cur] = "iterate"
Target(name) == IF Iterating THEN PullOf[cur].head ELSE name

\* The names finalize_patch refuses; base_branch is only set for iterate_pr.
Refused(name) == name \in Protected(IF Iterating THEN PullOf[cur].base ELSE "")

\* finalize_patch up to the commit, on a branch b made at HEAD.  A prompt names
\* one branch for the whole run, so a b the clone has is the one checked out.
OnBranch(b, tree, commits) ==
    [dir EXCEPT !.tree = tree, !.head = b,
                !.refs = [x \in DOMAIN @ \cup {b} |-> IF x = b THEN commits ELSE @[x]]]

\* S is what the download leaves out.
Finalize(name, S) ==
    /\ AgentTurn
    /\ LET b    == Target(name)
           past == dir.refs[dir.head]
           tree == Synced(S)
       IN \/ /\ Refused(name)
             /\ dir' = [dir EXCEPT !.tree = tree]
             /\ Skips(S) /\ UNCHANGED <<pc, outcome>>
          \/ /\ ~Refused(name) /\ (b \in DOMAIN dir.refs => b = dir.head)
             /\ \/ /\ tree = Last(past).tree   \* "No changes to commit"
                   /\ dir' = OnBranch(b, tree, past) /\ pc' = pc
                \/ /\ tree # Last(past).tree
                   /\ dir' = OnBranch(b, tree, Append(past, Commit(cur, tries[cur], tree)))
                   /\ pc' = "push"
             /\ Skips(S) /\ outcome' = outcome
          \/ SyncRaises(S)
    /\ UNCHANGED <<git, jobs, cur, box, live, tokens>>

\* Mutant: an open pull request of any branch is taken for the branch's own.
AfterPushAny ==
    IF Iterating THEN "find" ELSE IF pulls # {} THEN "agent" ELSE "open"

\* What follows a push.
AfterPush == IF Iterating THEN "find" ELSE "open"

\* The push itself: refused by GitHub unless it only adds commits.
Deliver ==
    LET b == dir.head
    IN \/ /\ IsPrefix(remote[b], dir.refs[b])
          /\ remote' = [remote EXCEPT ![b] = dir.refs[b]]
          /\ pc' = AfterPush /\ outcome' = outcome
       \/ /\ ~IsPrefix(remote[b], dir.refs[b])
          /\ ToolRaises /\ remote' = remote

PushAccepted ==
    /\ pc = "push" /\ now < dir.token
    /\ Deliver
    /\ UNCHANGED <<pulls, opened, jobs, cur, files, live, turns, tokens, world>>

\* The token in the clone's URL has expired.  GitHubOps.push looks for "401" in
\* git's message; git itself says "Authentication failed".
PushDenied ==
    /\ pc = "push" /\ now >= dir.token
    /\ \/ \* invalidate, refresh_remote, push again
          /\ cache' = Renewed
          /\ dir' = [dir EXCEPT !.token = Renewed]
          /\ Deliver
       \/ ToolRaises /\ UNCHANGED <<remote, cache, dir>>
    /\ UNCHANGED <<pulls, opened, jobs, cur, box, live, turns, held, cloned, world>>

PushFails ==
    /\ pc = "push" /\ Spend("api") /\ ToolRaises
    /\ UNCHANGED <<git, jobs, cur, files, live, turns, tokens>>

\* _find_open_pr_for_branch looks among the branches of the repository itself,
\* and the comment is posted; or the branch gets a pull request of its own.
FindPull ==
    /\ pc = "find" /\ TakeToken
    /\ LET found == \E p \in pulls : p.head = dir.head /\ ~p.fork
       IN \/ found /\ pc' = "agent" /\ UNCHANGED <<outcome, world>>
          \/ ~found /\ pc' = "open" /\ UNCHANGED <<outcome, world>>
          \/ Spend("api") /\ ToolRaises
    /\ UNCHANGED <<git, jobs, cur, files, live, turns, held, cloned>>

\* GitHub opens one pull request per pair of branches that differ.
Openable(b) ==
    /\ remote[b] # <<>> /\ remote[b] # remote[dir.head]
    /\ ~\E p \in pulls : p.head = dir.head /\ p.base = b /\ ~p.fork

\* open_pr falls back to the default branch after any exception.
OpenPull ==
    /\ pc = "open" /\ TakeToken
    /\ LET first == IF Iterating THEN PullOf[cur].base ELSE "main"
           Open(b) == /\ Openable(b)
                      /\ pulls' = pulls \cup {[head |-> dir.head, base |-> b, fork |-> FALSE]}
                      /\ opened' = opened \cup {dir.head}
                      /\ pc' = "agent" /\ outcome' = outcome
       IN \/ Open(first) /\ UNCHANGED world
          \/ ~Openable(first) /\ Open(Base) /\ UNCHANGED world
          \/ Spend("api") /\ Open(Base)
          \/ /\ ~Openable(first) /\ ~Openable(Base) /\ ToolRaises
             /\ UNCHANGED <<pulls, opened, world>>
          \/ Spend("api") /\ ToolRaises /\ UNCHANGED <<pulls, opened>>
    /\ UNCHANGED <<remote, jobs, cur, files, live, turns, held, cloned>>

-----------------------------------------------------------------------------
(* The end of the run.                                                     *)

\* The model has answered, or the turns are used up: either way the runner goes
\* on with the last text.
Answer ==
    /\ pc = "agent"
    /\ pc' = IF Kind[cur] = "review" THEN "post" ELSE "cleanup"
    /\ UNCHANGED <<git, jobs, cur, outcome, files, live, turns, tokens, world>>

StreamRaises ==
    /\ pc = "agent" /\ Spend("api") /\ Raise("cleanup")
    /\ UNCHANGED <<git, jobs, cur, files, live, turns, tokens>>

\* review_pr comments with the PullRequest object it began with.
Post ==
    /\ pc = "post" /\ pc' = "cleanup"
    /\ \/ now < held /\ outcome' = outcome /\ UNCHANGED world
       \/ now >= held /\ outcome' = "raised" /\ UNCHANGED world
       \/ Spend("api") /\ outcome' = "raised"
    /\ UNCHANGED <<git, jobs, cur, files, live, turns, tokens>>

\* Mutant: cleanup is not in a finally clause.
CleanupOnSuccess ==
    /\ pc = "cleanup" /\ pc' = "settle"
    /\ live' = IF outcome = "ok" THEN live \ {Me} ELSE live
    /\ UNCHANGED <<git, jobs, cur, outcome, files, turns, tokens, world>>

\* handle.cleanup() in the finally clause; what the provider raises is dropped.
Cleanup ==
    /\ pc = "cleanup" /\ pc' = "settle"
    /\ \/ live' = live \ {Me} /\ UNCHANGED world
       \/ Me \in live /\ Spend("box") /\ live' = live
    /\ UNCHANGED <<git, jobs, cur, outcome, files, turns, tokens>>

\* The run is over and its variables with it; the clone stays on the disk.
Forget ==
    /\ pc' = "idle" /\ cur' = NoRun /\ outcome' = "ok"
    /\ turns' = 0 /\ held' = 0 /\ cloned' = 0 /\ box' = Start.tree

\* A run that returns is a success, whatever RunResult.ok says; one that raises
\* is tried again.
Settle ==
    /\ pc = "settle" /\ Forget
    /\ status' = [status EXCEPT ![cur] =
                    IF outcome = "ok" THEN "done"
                    ELSE IF tries[cur] < MaxTries THEN "queued" ELSE "dead"]
    /\ UNCHANGED <<git, tries, dir, live, cache, world>>

-----------------------------------------------------------------------------
(* The environment.                                                        *)

\* The worker's process dies; its job is queued again by recover_orphans.
WorkerDies ==
    /\ pc # "idle" /\ Forget /\ Spend("crash")
    /\ cache' = 0
    /\ UNCHANGED <<git, jobs, dir, live>>

UserPushes(b, f) ==
    /\ remote[b] # <<>> /\ Spend("push")
    /\ remote' = [remote EXCEPT ![b] = Append(@, Commit("user", 0,
                    [Last(@).tree EXCEPT ![f] = <<"user", 0, spent["push"] + 1>>]))]
    /\ UNCHANGED <<pulls, opened, jobs, pc, cur, outcome, files, live, turns, tokens>>

\* A pull request is closed and its branch is deleted or not.
UserCloses(p) ==
    /\ Spend("close")
    /\ pulls' = pulls \ {p}
    /\ \/ remote' = remote
       \/ p.head # Base /\ ~p.fork /\ remote' = [remote EXCEPT ![p.head] = <<>>]
    /\ UNCHANGED <<opened, jobs, pc, cur, outcome, files, live, turns, tokens>>

Tick ==
    /\ now < MaxTime /\ now' = now + 1
    /\ UNCHANGED <<git, jobs, pc, cur, outcome, files, live, turns, tokens, spent>>

AgentStep ==
    /\ pc = "agent"
    /\ \/ \E f \in File : Edit(f) \/ HostTool(f)
       \/ \E S \in SUBSET File :
             \/ Summarize(S)
             \/ \E name \in {Base, Asked[cur][tries[cur]]} : Finalize(name, S)
       \/ Answer
       \/ StreamRaises

RunStep ==
    \/ Clone \/ Checkout \/ Build
    \/ AgentStep
    \/ PushAccepted \/ PushDenied \/ PushFails \/ FindPull \/ OpenPull
    \/ Post \/ Cleanup \/ Settle

Next ==
    \/ \E j \in Job : Begin(j)
    \/ RunStep
    \/ WorkerDies
    \/ \E b \in Branch, f \in File : UserPushes(b, f)
    \/ \E p \in pulls : UserCloses(p)
    \/ Tick

Spec == Init /\ [][Next]_vars

\* The worker's thread goes on and takes the next job; a stream ends because
\* max_turns ends it.
FairSpec ==
    /\ Spec
    /\ WF_vars(RunStep)
    /\ WF_vars(\E j \in Job : Begin(j))

-----------------------------------------------------------------------------
(* Properties.                                                             *)

\* What a commit that a run pushed holds is from the history of its branch or was
\* written by that very run: nothing that an earlier run, or an earlier try of the
\* same job, left in the work directory gets in.
OnlyOwnWork ==
    \A b \in Branch : \A i \in 2 .. Len(remote[b]) :
        LET c == remote[b][i]
        IN c.by \in Job =>
             \A f \in File :
                \/ c.tree[f] = Gone
                \/ \E k \in 1 .. i - 1 : c.tree[f] = remote[b][k].tree[f]
                \/ Author(c.tree[f]) = <<c.by, c.try>>

\* The files of the agent: where its file tools and its shell work.
Workplace == IF cur \in Sandboxed THEN box ELSE dir.tree

\* A call of finalize_patch that gets as far as the commit.
Committing(name, S) == Finalize(name, S) /\ ~Refused(name) /\ spent'["box"] = spent["box"]

\* What the agent left in the clone or in its sandbox is, after finalize_patch,
\* in the last commit of the branch, whether that commit is new or there was
\* nothing to commit: the only files that can be missing are those that the
\* provider's answers left out.
EditsReachCommit ==
    [][\A name \in Branch, S \in SUBSET File :
         Committing(name, S)
            => \A f \in File :
                 Author(Workplace[f]) = Me
                    => \/ Last(dir'.refs[dir'.head]).tree[f] = Workplace[f]
                       \/ f \in S /\ spent'["skip"] > spent["skip"]]_vars


Pushed(b) == \E i \in DOMAIN remote[b] : remote[b][i].by \in Job

\* A branch that a run has pushed gets a pull request, unless a call to GitHub
\* failed or the worker died.
WorkGetsPull ==
    \A b \in Branch \ {Base} :
        Pushed(b) /\ pc = "idle" => b \in opened \/ spent["api"] + spent["crash"] > 0

\* A push is only denied for its token when the clone is older than the margin
\* the cache keeps: short runs never are.
DeniedOnlyLate == [][PushDenied => now > cloned + Margin]_vars

\* Every sandbox that outlives its run is accounted for by a call to the
\* provider that failed or a worker that died.
BoxesStopped ==
    Cardinality(live \ (IF pc = "idle" THEN {} ELSE {Me}))
        <= spent["box"] + spent["crash"]

\* Every job ends: its runs are bounded in turns and in number.
RunsEnd == \A j \in Job : <>[](status[j] \in {"done", "dead"})
=============================================================================
