-------------------------------- MODULE Access --------------------------------
(***************************************************************************)
(* Who may do what: TokenVerifier (webhook/auth_tokens.py), the roles of   *)
(* an installation (webhook/roles.py), the audit lists                     *)
(* (observability/audit.py) and the endpoints of webhook/server.py between *)
(* them.                                                                   *)
(*                                                                         *)
(* A request is verified in a thread of its process: require_user is a     *)
(* plain function, so verifications of one process interleave and share    *)
(* its cache.  The endpoint itself is a coroutine that awaits nothing:     *)
(* within a process endpoints run one after another, and only those of     *)
(* different processes interleave, between any two commands to Redis.      *)
(*                                                                         *)
(* The environment is GitHub, where tokens are revoked and access to       *)
(* installations comes and goes, and Redis.                                *)
(***************************************************************************)
EXTENDS Integers, FiniteSets, Sequences, FiniteSetsExt

CONSTANTS
    Insts,          \* installations: numbers, GitHub lists them in this order
    Users,          \* GitHub logins
    Tokens,         \* bearer tokens
    AdminTokens,    \* DEEPAGENT_ADMIN_TOKEN
    Owner,          \* the login of each token; an admin token is its own login
    AdminLogins,    \* DEEPAGENT_ADMIN_GITHUB_LOGINS
    FirstAccess,    \* what the installations of each user may be in the beginning
    FirstRoles,     \* the roles assigned in the beginning
    Procs,          \* server processes
    Reqs,           \* requests that may be under way at a time
    PageSize, MaxPages,        \* of _fetch_installations: 100 and 10
    TTL,            \* CACHE_TTL
    CacheCap, CacheDrop,       \* entries the cache may have, and how many go then: 1024 and 512
    RoleAuditCap,   \* AUDIT_CAP of RoleStore
    GlobalCap, PerInstallCap,  \* of AuditStore
    Asked,          \* bound: the operations that are asked for
    Slack,          \* bound: ticks that may pass while a request is under way
    Budget,         \* bound: how often each thing happens, and all of them but requests
    None            \* no role, no installation, no one

Logins == Users \cup AdminTokens
Happenings == {"request", "access", "revoked", "github", "redis", "webhook", "restart", "any"}

ASSUME AccessAssumptions ==
    /\ Insts \subseteq Nat /\ IsFiniteSet(Insts)
    /\ AdminTokens \subseteq Tokens
    /\ Owner \in [Tokens -> Logins]
    /\ \A t \in Tokens : IF t \in AdminTokens THEN Owner[t] = t ELSE Owner[t] \in Users
    /\ IsFiniteSet(Tokens) /\ IsFiniteSet(Reqs)
    /\ AdminLogins \subseteq Users
    /\ FirstAccess \subseteq [Users -> SUBSET Insts]
    /\ {PageSize, MaxPages, RoleAuditCap, GlobalCap, PerInstallCap} \subseteq Nat \ {0}
    /\ CacheCap \in Nat /\ CacheDrop \in 1..CacheCap
    /\ {TTL, Slack} \subseteq Nat
    /\ Budget \in [Happenings -> Nat]
    /\ None \notin Users \cup Tokens /\ None \notin Insts

VARIABLES
    access,     \* at GitHub: the installations of each user
    valid,      \* at GitHub: the tokens that are not revoked
    cache,      \* _cache of each process, by token
    roles,      \* HASH role:<iid>
    role_audit, \* LIST role_audit:<iid>, newest first
    audit,      \* LIST audit, newest first
    per_install,\* LIST audit:install:<iid>, newest first
    req,        \* the requests
    lost,       \* history: ticks since a user lost an installation
    dead,       \* history: ticks since a token was revoked
    upset,      \* history: ticks since a user's listing changed or was cut short
    unrecorded, \* history: changes made less changes in the audit list
    left        \* what is left of the budget

vars == <<access, valid, cache, roles, role_audit, audit, per_install, req,
          lost, dead, upset, unrecorded, left>>
github == <<access, valid, lost, dead>>
stores == <<roles, role_audit, audit, per_install>>

-----------------------------------------------------------------------------
(* Roles and requests *)

Role == {"viewer", "operator", "admin"}
rank == [viewer |-> 1, operator |-> 2, admin |-> 3]
can(role, required) == rank[role] >= rank[required]

(* The role an endpoint asks for.  "read" is every GET of an installation or of
   one of its jobs. *)
min_role == [read |-> "viewer", requeue |-> "operator", reset |-> "admin",
             grant |-> "admin", revoke |-> "admin"]

Op == [kind : {"read", "requeue", "reset"}, inst : Insts, login : {None}, role : {None}]
        \cup [kind : {"grant"}, inst : Insts, login : Users, role : Role \cup {None}]
        \cup [kind : {"revoke"}, inst : Insts, login : Users, role : {None}]

ASSUME AskedAssumption == Asked \subseteq Op
ASSUME RolesAssumption ==
    /\ None \notin Role
    /\ FirstRoles \in [Insts -> [Users -> Role \cup {None}]]

Context == [login : Logins, insts : SUBSET Insts, admin : BOOLEAN]
NoContext == [login |-> None, insts |-> {}, admin |-> FALSE]
NoOp == [kind |-> None, inst |-> None, login |-> None, role |-> None]
Idle == [pc |-> "idle", proc |-> None, token |-> None, age |-> 0, page |-> 0,
         ctx |-> NoContext, op |-> NoOp, raced |-> FALSE]

Entry == [action : {"role.grant", "role.revoke", "dlq.requeue", "cost.reset", "job.create"},
          inst : Insts \cup {None}]

\* What an entry held is not read any more when it has expired.
Expired == [ctx |-> NoContext, ttl |-> -1]
NoEntry == [ctx |-> NoContext, ttl |-> -2]
Verifying == {"user", "page", "put"}
InBody    == {"apply", "audit"}

(* A snapshot may be as old as a verification when it is cached, stays for TTL,
   and is used by a request that lasts.  What happened longer ago than that is
   no longer told apart, and neither is what has never happened. *)
Bound == TTL + 2 * Slack
Older(ticks) == IF ticks <= Bound THEN ticks + 1 ELSE ticks

Request == [pc : {"idle", "authed"} \cup Verifying \cup InBody,
            proc : Procs \cup {None}, token : Tokens \cup {None},
            age : 0..Slack, page : 0..MaxPages,
            ctx : Context \cup {NoContext}, op : Op \cup {NoOp}, raced : BOOLEAN]

\* What a request has in hand where it is.
Holds(q) ==
    /\ q.pc # "idle" => q.proc \in Procs /\ q.token \in Tokens
    /\ q.pc \in Verifying => q.token \notin AdminTokens
    /\ q.pc \in {"page", "put", "authed"} \cup InBody =>
         q.ctx \in Context /\ q.ctx.login = Owner[q.token]
    /\ q.pc \in InBody => q.op \in Op /\ q.op.kind # "read"

StoresTypeOK ==
    /\ roles \in [Insts -> [Users -> Role \cup {None}]]
    /\ role_audit \in [Insts -> Seq([login : Users, role : Role \cup {None}])]
    /\ audit \in Seq(Entry) /\ Len(audit) <= GlobalCap
    /\ per_install \in [Insts -> Seq(Entry)]
    /\ \A i \in Insts : /\ Len(role_audit[i]) <= RoleAuditCap
                        /\ Len(per_install[i]) <= PerInstallCap

CacheTypeOK ==
    /\ cache \in [Procs -> [Tokens -> [ctx : Context \cup {NoContext}, ttl : -2..TTL]]]
    /\ \A p \in Procs, t \in Tokens : cache[p][t].ttl >= 0 =>
         cache[p][t].ctx \in Context /\ cache[p][t].ctx.login = Owner[t]

RequestsTypeOK == req \in [Reqs -> Request] /\ \A r \in Reqs : Holds(req[r])

WorldTypeOK ==
    /\ access \in [Users -> SUBSET Insts] /\ valid \subseteq Tokens
    /\ lost \in [Users -> [Insts -> 0..(Bound + 1)]]
    /\ dead \in [Tokens -> 0..(Bound + 1)]
    /\ upset \in [Users -> 0..(Bound + 1)]
    /\ unrecorded \in Int
    /\ left \in [Happenings -> Nat]

AccessTypeOK == StoresTypeOK /\ CacheTypeOK /\ RequestsTypeOK /\ WorldTypeOK

(* What _cache_put is for: the cache of a process stays within its size. *)
CacheWithinCap ==
    \A p \in Procs : Cardinality({t \in Tokens : cache[p][t] # NoEntry}) <= CacheCap

Init ==
    /\ access \in FirstAccess
    /\ valid = Tokens
    /\ cache = [p \in Procs |-> [t \in Tokens |-> NoEntry]]
    /\ roles = FirstRoles
    /\ role_audit = [i \in Insts |-> <<>>]
    /\ audit = <<>>
    /\ per_install = [i \in Insts |-> <<>>]
    /\ req = [r \in Reqs |-> Idle]
    /\ lost = [u \in Users |-> [i \in Insts |-> Bound + 1]]
    /\ dead = [t \in Tokens |-> Bound + 1]
    /\ upset = [u \in Users |-> Bound + 1]
    /\ unrecorded = 0
    /\ left = Budget

Spent(h) == Budget[h] - left[h]
Spend(h) ==
    /\ left[h] > 0 /\ left["any"] > 0
    /\ left' = [left EXCEPT ![h] = @ - 1, !["any"] = @ - 1]
SpendRequest == left["request"] > 0 /\ left' = [left EXCEPT !["request"] = @ - 1]

Answered(r) == req' = [req EXCEPT ![r] = Idle]

-----------------------------------------------------------------------------
(* TokenVerifier.verify *)

(* _get_cached: an entry is good up to and including expires_at, which is TTL
   after it was put; an older one is dropped. *)
Hit(p, t) == cache[p][t].ttl >= 0

(* _cache_put.  When there are too many entries some go.  The code takes the
   oldest insertions; here it may be any. *)
CachePutUncapped(p, t, ctx) ==
    cache' = [cache EXCEPT ![p] = [@ EXCEPT ![t] = [ctx |-> ctx, ttl |-> TTL]]]
CachePut(p, t, ctx) ==
    LET put == [cache[p] EXCEPT ![t] = [ctx |-> ctx, ttl |-> TTL]]
        full == {k \in Tokens : put[k] # NoEntry}
    IN  \E drop \in IF Cardinality(full) > CacheCap
                    THEN kSubset(CacheDrop, full) ELSE {{}} :
          cache' = [cache EXCEPT ![p] = [k \in Tokens |-> IF k \in drop THEN NoEntry ELSE put[k]]]

Begun(p, t) == [Idle EXCEPT !.proc = p, !.token = t]

(* A request whose token is in the cache. *)
ArriveCachedSliding(r, p, t) ==
    /\ req[r].pc = "idle"
    /\ Hit(p, t)
    /\ SpendRequest
    /\ cache' = [cache EXCEPT ![p][t].ttl = TTL]
    /\ req' = [req EXCEPT ![r] = [Begun(p, t) EXCEPT !.pc = "authed", !.ctx = cache[p][t].ctx]]
    /\ UNCHANGED <<github, stores, upset, unrecorded>>
ArriveCached(r, p, t) ==
    /\ req[r].pc = "idle"
    /\ Hit(p, t)
    /\ SpendRequest
    /\ req' = [req EXCEPT ![r] = [Begun(p, t) EXCEPT !.pc = "authed", !.ctx = cache[p][t].ctx]]
    /\ UNCHANGED <<github, cache, stores, upset, unrecorded>>

(* One with a static admin token. *)
ArriveAdmin(r, p, t) ==
    /\ req[r].pc = "idle"
    /\ ~Hit(p, t)
    /\ t \in AdminTokens
    /\ SpendRequest
    /\ LET ctx == [login |-> t, insts |-> {}, admin |-> TRUE]
       IN  /\ CachePut(p, t, ctx)
           /\ req' = [req EXCEPT ![r] = [Begun(p, t) EXCEPT !.pc = "authed", !.ctx = ctx]]
    /\ UNCHANGED <<github, stores, upset, unrecorded>>

(* Any other is asked of GitHub. *)
Arrive(r, p, t) ==
    /\ req[r].pc = "idle"
    /\ ~Hit(p, t)
    /\ t \notin AdminTokens
    /\ SpendRequest
    /\ cache' = [cache EXCEPT ![p][t] = NoEntry]
    /\ req' = [req EXCEPT ![r] = [Begun(p, t) EXCEPT !.pc = "user"]]
    /\ UNCHANGED <<github, stores, upset, unrecorded>>

(* GET /user: anything but 200 is a 401 and is not cached. *)
GetUser(r) ==
    /\ req[r].pc = "user"
    /\ LET login == Owner[req[r].token]
       IN  IF req[r].token \in valid
           THEN req' = [req EXCEPT ![r].pc = "page", ![r].page = 1,
                                   ![r].ctx = [login |-> login, insts |-> {}, admin |-> login \in AdminLogins]]
           ELSE Answered(r)
    /\ UNCHANGED <<github, cache, stores, upset, unrecorded, left>>

(* GitHub's answer to GET /user/installations?page=n *)
Listed(login, page) ==
    {i \in access[login] :
        Cardinality({j \in access[login] : j <= i}) \in ((page - 1) * PageSize + 1)..(page * PageSize)}

(* One turn of the loop of _fetch_installations.  A page that is not full or
   does not come ends the loop, and so does the last page allowed. *)
GetPageShort(r) ==
    /\ req[r].pc = "page"
    /\ req[r].token \in valid
    /\ LET got == Listed(req[r].ctx.login, req[r].page)
           last == Cardinality(got) < PageSize \/ req[r].page + 1 >= MaxPages
       IN  req' = [req EXCEPT ![r].ctx.insts = @ \cup got,
                              ![r].page = IF last THEN @ ELSE @ + 1,
                              ![r].pc = IF last THEN "put" ELSE "page"]
    /\ UNCHANGED <<github, cache, stores, upset, unrecorded, left>>
GetPage(r) ==
    /\ req[r].pc = "page"
    /\ req[r].token \in valid
    /\ LET got == Listed(req[r].ctx.login, req[r].page)
           last == Cardinality(got) < PageSize \/ req[r].page + 1 > MaxPages
       IN  req' = [req EXCEPT ![r].ctx.insts = @ \cup got,
                              ![r].page = IF last THEN @ ELSE @ + 1,
                              ![r].pc = IF last THEN "put" ELSE "page"]
    /\ UNCHANGED <<github, cache, stores, upset, unrecorded, left>>

PageRefused(r) ==
    /\ req[r].pc = "page"
    /\ IF req[r].token \in valid THEN Spend("github") ELSE UNCHANGED left
    /\ req' = [req EXCEPT ![r].pc = "put"]
    /\ upset' = [upset EXCEPT ![req[r].ctx.login] = 0]
    /\ UNCHANGED <<github, cache, stores, unrecorded>>

(* httpx.HTTPError: a 401, nothing is cached. *)
GithubUnreachable(r) ==
    /\ req[r].pc \in {"user", "page"}
    /\ Spend("github")
    /\ Answered(r)
    /\ UNCHANGED <<github, cache, stores, upset, unrecorded>>

Verified(r) ==
    /\ req[r].pc = "put"
    /\ CachePut(req[r].proc, req[r].token, req[r].ctx)
    /\ req' = [req EXCEPT ![r].pc = "authed", ![r].page = 0]
    /\ UNCHANGED <<github, stores, upset, unrecorded, left>>

-----------------------------------------------------------------------------
(* The endpoints.  The coroutine of a request runs from its role check to its
   answer with no other of its process in between. *)

MayRun(r) == \A s \in Reqs \ {r} : req[s].pc \in InBody => req[s].proc # req[r].proc

(* effective_role, given what hget answers *)
effective_roleAnywhere(ctx, iid, found) ==
    IF ctx.admin THEN "admin" ELSE IF found = None THEN "viewer" ELSE found
effective_role(ctx, iid, found) ==
    IF ctx.admin THEN "admin"
    ELSE IF iid \notin ctx.insts THEN None
    ELSE IF found = None THEN "viewer" ELSE found

Explicit(ctx, iid) == IF ctx.login \in Users THEN roles[iid][ctx.login] ELSE None

(* require_role_on_installation, and the same for a job in _scope_or_404: 404
   without any role, 403 with too low a one.  RoleStore.get takes a RedisError
   for "no role".  set_role answers 400 to a role it does not know. *)
Decide(r, op, found) ==
    LET eff == effective_role(req[r].ctx, op.inst, found)
        allowed == eff # None /\ can(eff, min_role[op.kind])
        badRole == op.kind = "grant" /\ op.role = None
    IN  IF allowed /\ op.kind # "read" /\ ~badRole
        THEN req' = [req EXCEPT ![r].pc = "apply", ![r].op = op]
        ELSE Answered(r)

CheckRole(r, op) ==
    /\ req[r].pc = "authed"
    /\ MayRun(r)
    /\ Decide(r, op, Explicit(req[r].ctx, op.inst))
    /\ UNCHANGED <<github, cache, stores, upset, unrecorded, left>>

CheckRoleFails(r, op) ==
    /\ req[r].pc = "authed"
    /\ MayRun(r)
    /\ ~req[r].ctx.admin /\ op.inst \in req[r].ctx.insts
    /\ Spend("redis")
    /\ Decide(r, op, None)
    /\ UNCHANGED <<github, cache, stores, upset, unrecorded>>

(* LPUSH and LTRIM *)
Push(list, entry, cap) ==
    SubSeq(<<entry>> \o list, 1, IF Len(list) < cap THEN Len(list) + 1 ELSE cap)

(* Another request that was checked against the role this one changes. *)
Race(r, op) ==
    [s \in Reqs |->
        IF s # r /\ req[s].pc = "apply" /\ req[s].op.inst = op.inst /\ req[s].ctx.login = op.login
        THEN [req[s] EXCEPT !.raced = TRUE] ELSE req[s]]

(* The pipelines of RoleStore.set and remove: a transaction each. *)
WriteRoleUnlogged(op) ==
    /\ roles' = [roles EXCEPT ![op.inst][op.login] = op.role]
    /\ role_audit' = IF roles[op.inst][op.login] = None THEN role_audit
                     ELSE [role_audit EXCEPT ![op.inst] =
                             Push(@, [login |-> op.login, role |-> op.role], RoleAuditCap)]
WriteRole(op) ==
    /\ roles' = [roles EXCEPT ![op.inst][op.login] = op.role]
    /\ role_audit' = [role_audit EXCEPT ![op.inst] =
                        Push(@, [login |-> op.login, role |-> op.role], RoleAuditCap)]

(* What the endpoint does to Redis before it writes to the audit list.  The costs
   and the queue that reset and requeue change are the subject of TenantCost and
   JobQueue; requeue_dead may find that the job is not in the DLQ. *)
Changes(op) == IF op.kind = "revoke" /\ roles[op.inst][op.login] = None THEN 0 ELSE 1

GrantRole(r) ==
    LET op == req[r].op
    IN  /\ req[r].pc = "apply" /\ op.kind = "grant"
        /\ WriteRole(op)
        /\ unrecorded' = unrecorded + 1
        /\ req' = [Race(r, op) EXCEPT ![r].pc = "audit"]
        /\ UNCHANGED <<github, cache, audit, per_install, upset, left>>

RevokeRoleMute(r) ==
    LET op == req[r].op
    IN  /\ req[r].pc = "apply" /\ op.kind = "revoke"
        /\ WriteRole(op)
        /\ unrecorded' = unrecorded + Changes(op)
        /\ req' = [Race(r, op) EXCEPT ![r] = Idle]
        /\ UNCHANGED <<github, cache, audit, per_install, upset, left>>
RevokeRole(r) ==
    LET op == req[r].op
        deleted == roles[op.inst][op.login] # None
    IN  /\ req[r].pc = "apply" /\ op.kind = "revoke"
        /\ WriteRole(op)
        /\ unrecorded' = unrecorded + Changes(op)
        /\ req' = IF deleted THEN [Race(r, op) EXCEPT ![r].pc = "audit"]
                             ELSE [req EXCEPT ![r] = Idle]
        /\ UNCHANGED <<github, cache, audit, per_install, upset, left>>

ResetOrRequeue(r) ==
    /\ req[r].pc = "apply" /\ req[r].op.kind \in {"reset", "requeue"}
    /\ unrecorded' = unrecorded + 1
    /\ req' = [req EXCEPT ![r].pc = "audit"]
    /\ UNCHANGED <<github, cache, stores, upset, left>>

NotInDlq(r) ==
    /\ req[r].pc = "apply" /\ req[r].op.kind = "requeue"
    /\ Answered(r)
    /\ UNCHANGED <<github, cache, stores, upset, unrecorded, left>>

(* A command fails, before or after Redis has carried it out: 500. *)
ApplyFails(r) ==
    LET op == req[r].op
    IN  /\ req[r].pc = "apply"
        /\ Spend("redis")
        /\ \/ Answered(r) /\ UNCHANGED <<stores, unrecorded>>
           \/ /\ unrecorded' = unrecorded + Changes(op)
              /\ IF op.kind \in {"grant", "revoke"}
                 THEN /\ WriteRole(op)
                      /\ req' = [Race(r, op) EXCEPT ![r] = Idle]
                      /\ UNCHANGED <<audit, per_install>>
                 ELSE Answered(r) /\ UNCHANGED stores
        /\ UNCHANGED <<github, cache, upset>>

(* AuditStore.append: one transaction.  Only what is about an installation gets
   into its list. *)
AuditAppendSplit(entry) ==
    /\ audit' = Push(audit, entry, GlobalCap)
    /\ UNCHANGED per_install
AuditAppend(entry) ==
    /\ audit' = Push(audit, entry, GlobalCap)
    /\ per_install' = IF entry.inst = None THEN per_install
                      ELSE [per_install EXCEPT ![entry.inst] = Push(@, entry, PerInstallCap)]

action == [grant |-> "role.grant", revoke |-> "role.revoke",
           requeue |-> "dlq.requeue", reset |-> "cost.reset"]

audit_log(r) ==
    /\ req[r].pc = "audit"
    /\ AuditAppend([action |-> action[req[r].op.kind], inst |-> req[r].op.inst])
    /\ unrecorded' = unrecorded - 1
    /\ Answered(r)
    /\ UNCHANGED <<github, cache, roles, role_audit, upset, left>>

(* append catches RedisError: the request succeeds, the event is only logged. *)
AuditFails(r) ==
    /\ req[r].pc = "audit"
    /\ Spend("redis")
    /\ Answered(r)
    /\ UNCHANGED <<github, cache, stores, upset, unrecorded>>

(* POST /webhook records the jobs it makes, some of them outside any
   installation. *)
JobCreated(iid) ==
    /\ Spend("webhook")
    /\ AuditAppend([action |-> "job.create", inst |-> iid])
    /\ UNCHANGED <<github, cache, roles, role_audit, req, upset, unrecorded>>

-----------------------------------------------------------------------------
(* The environment *)

AccessLost(u, i) ==
    /\ Spend("access")
    /\ i \in access[u]
    /\ access' = [access EXCEPT ![u] = @ \ {i}]
    /\ lost' = [lost EXCEPT ![u][i] = 0]
    /\ upset' = [upset EXCEPT ![u] = 0]
    /\ UNCHANGED <<valid, cache, stores, req, dead, unrecorded>>

AccessGained(u, i) ==
    /\ Spend("access")
    /\ i \notin access[u]
    /\ access' = [access EXCEPT ![u] = @ \cup {i}]
    /\ upset' = [upset EXCEPT ![u] = 0]
    /\ UNCHANGED <<valid, cache, stores, req, lost, dead, unrecorded>>

TokenRevoked(t) ==
    /\ Spend("revoked")
    /\ t \in valid \ AdminTokens
    /\ valid' = valid \ {t}
    /\ dead' = [dead EXCEPT ![t] = 0]
    /\ UNCHANGED <<access, cache, stores, req, lost, upset, unrecorded>>

(* The server is killed and starts again with an empty cache. *)
Restart(p) ==
    /\ Spend("restart")
    /\ cache' = [cache EXCEPT ![p] = [t \in Tokens |-> NoEntry]]
    /\ req' = [r \in Reqs |-> IF req[r].proc = p THEN Idle ELSE req[r]]
    /\ UNCHANGED <<github, stores, upset, unrecorded>>

(* A verification is at most MaxPages + 1 calls of at most five seconds each. *)
Tick ==
    /\ \A r \in Reqs : req[r].pc # "idle" => req[r].age < Slack
    /\ cache' = [p \in Procs |-> [t \in Tokens |->
                    IF cache[p][t].ttl = 0 THEN Expired
                    ELSE [cache[p][t] EXCEPT !.ttl = IF @ > 0 THEN @ - 1 ELSE @]]]
    /\ req' = [r \in Reqs |-> IF req[r].pc = "idle" THEN Idle ELSE [req[r] EXCEPT !.age = @ + 1]]
    /\ lost' = [u \in Users |-> [i \in Insts |-> Older(lost[u][i])]]
    /\ dead' = [t \in Tokens |-> Older(dead[t])]
    /\ upset' = [u \in Users |-> Older(upset[u])]
    /\ UNCHANGED <<access, valid, stores, unrecorded, left>>

ReqStep(r) ==
    \/ GetUser(r) \/ GetPage(r) \/ PageRefused(r) \/ GithubUnreachable(r) \/ Verified(r)
    \/ \E op \in Asked : CheckRole(r, op) \/ CheckRoleFails(r, op)
    \/ GrantRole(r) \/ RevokeRole(r) \/ ResetOrRequeue(r) \/ NotInDlq(r) \/ ApplyFails(r)
    \/ audit_log(r) \/ AuditFails(r)

NewRequest(r) ==
    \E p \in Procs, t \in Tokens : ArriveCached(r, p, t) \/ ArriveAdmin(r, p, t) \/ Arrive(r, p, t)

Environment ==
    \/ \E iid \in Insts \cup {None} : JobCreated(iid)
    \/ \E u \in Users, i \in Insts : AccessLost(u, i) \/ AccessGained(u, i)
    \/ \E t \in Tokens : TokenRevoked(t)
    \/ \E p \in Procs : Restart(p)
    \/ Tick

Next == Environment \/ \E r \in Reqs : NewRequest(r) \/ ReqStep(r)

Spec == Init /\ [][Next]_vars

-----------------------------------------------------------------------------
(* Properties *)

(* Access ends in time: what a request may see was still granted, and its token
   was not revoked, at most Bound ticks ago. *)
AccessEnds ==
    \A r \in Reqs : req[r].pc \in {"authed"} \cup InBody /\ req[r].token \notin AdminTokens =>
        /\ req[r].token \notin valid => dead[req[r].token] <= Bound
        /\ \A i \in req[r].ctx.insts \ access[req[r].ctx.login] : lost[req[r].ctx.login][i] <= Bound

(* And begins in time: who is not served for an installation that GitHub says is
   theirs had a listing that changed or was cut short at most Bound ticks ago.
   A change anywhere in the listing counts: it moves what is on later pages. *)
MembersServed ==
    \A r \in Reqs :
        (/\ req[r].pc \in {"authed"} \cup InBody
         /\ req[r].token \notin AdminTokens
         /\ Cardinality(access[req[r].ctx.login]) <= PageSize * MaxPages
         /\ ~(access[req[r].ctx.login] \subseteq req[r].ctx.insts))
        => upset[req[r].ctx.login] <= Bound

(* Roles are not cached: a request that is about to change something has the
   role for it, unless a request of another process took it away after the
   check; and who is no member has none, whatever role is stored. *)
RoleHeld ==
    \A r \in Reqs : req[r].pc = "apply" /\ ~req[r].raced /\ ~req[r].ctx.admin =>
        /\ req[r].op.inst \in req[r].ctx.insts
        /\ LET explicit == roles[req[r].op.inst][req[r].ctx.login]
           IN  explicit # None /\ can(explicit, min_role[req[r].op.kind])

(* The trail of an installation explains its roles: the newest entry about a
   login is the role it has, however requests interleave and whichever entries
   have been trimmed. *)
TrailExplains ==
    \A i \in Insts : \A k \in 1..Len(role_audit[i]) :
        (\A j \in 1..(k - 1) : role_audit[i][j].login # role_audit[i][k].login)
        => roles[i][role_audit[i][k].login] = role_audit[i][k].role

(* The two audit lists tell one story: the k-th newest entry about an
   installation is the k-th of its own list, which is shorter only by its cap. *)
Place(i, n) == Cardinality({m \in 1..n : audit[m].inst = i})
ListsAgree ==
    \A i \in Insts : \A n \in 1..Len(audit) :
        audit[n].inst = i /\ Place(i, n) <= PerInstallCap =>
            /\ Place(i, n) <= Len(per_install[i])
            /\ per_install[i][Place(i, n)] = audit[n]

(* "Every state-changing operation": changes that are not in the audit list are
   about to be, or a failure of Redis or the end of the process came between. *)
ChangesRecorded ==
    unrecorded <= Cardinality({r \in Reqs : req[r].pc = "audit"})
                   + Spent("redis") + Spent("restart")

=============================================================================
