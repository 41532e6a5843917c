----------------------------- MODULE AccessProofs -----------------------------
(***************************************************************************)
(* Machine-checked proofs about Access, for every set of users, tokens,    *)
(* installations, server processes and requests, every page size and every *)
(* cap.                                                                    *)
(***************************************************************************)
EXTENDS Access, FiniteSetTheorems, SequenceTheorems, TLAPS

-----------------------------------------------------------------------------
(* Lists that are pushed and trimmed *)

\* LPUSH and LTRIM: the entry is the newest, the others move down by one, and
\* the list is not longer than its cap.
LEMMA PushFacts ==
  ASSUME NEW S, NEW list \in Seq(S), NEW entry \in S, NEW cap \in Nat \ {0}
  PROVE  /\ Push(list, entry, cap) \in Seq(S)
         /\ Len(Push(list, entry, cap)) = IF Len(list) < cap THEN Len(list) + 1 ELSE cap
         /\ Push(list, entry, cap)[1] = entry
         /\ \A k \in 2..Len(Push(list, entry, cap)) :
              k - 1 \in 1..Len(list) /\ Push(list, entry, cap)[k] = list[k - 1]
<1> DEFINE longer == <<entry>> \o list
           n == IF Len(list) < cap THEN Len(list) + 1 ELSE cap
<1>1. /\ longer \in Seq(S) /\ Len(longer) = Len(list) + 1
      /\ longer[1] = entry
      /\ \A k \in 2..Len(longer) : longer[k] = list[k - 1]
  OBVIOUS
<1>2. n \in 1..Len(longer)
  BY <1>1
<1>3. /\ SubSeq(longer, 1, n) \in Seq(S)
      /\ Len(SubSeq(longer, 1, n)) = n
      /\ \A k \in 1..n : SubSeq(longer, 1, n)[k] = longer[k]
  <2> HIDE DEF longer, n
  <2>. QED  BY <1>1, <1>2
<1>4. Push(list, entry, cap) = SubSeq(longer, 1, n)
  BY DEF Push
<1> HIDE DEF longer, n
<1>. QED
  BY <1>1, <1>2, <1>3, <1>4 DEF n

-----------------------------------------------------------------------------
(* What a step can do to the lists *)

\* Roles and their trail change together, in the transaction of a request that
\* is past its check.
RolesMove ==
    \/ UNCHANGED <<roles, role_audit>>
    \/ \E r \in Reqs : /\ req[r].pc = "apply" /\ req[r].op.kind \in {"grant", "revoke"}
                       /\ WriteRole(req[r].op)

\* The two audit lists change together.
AuditMove ==
    \/ UNCHANGED <<audit, per_install>>
    \/ \E e \in Entry : AuditAppend(e)

\* Every step does that to them.
LEMMA RoleStep ==
  ASSUME [Next]_vars
  PROVE  RolesMove
<1> USE DEF stores, RolesMove
<1>1. ASSUME NEW r \in Reqs, NEW p \in Procs, NEW t \in Tokens, ArriveCached(r, p, t)
      PROVE  RolesMove
  BY <1>1 DEF ArriveCached
<1>2. ASSUME NEW r \in Reqs, NEW p \in Procs, NEW t \in Tokens, ArriveAdmin(r, p, t)
      PROVE  RolesMove
  BY <1>2 DEF ArriveAdmin
<1>3. ASSUME NEW r \in Reqs, NEW p \in Procs, NEW t \in Tokens, Arrive(r, p, t)
      PROVE  RolesMove
  BY <1>3 DEF Arrive
<1>4. ASSUME NEW r \in Reqs, GetUser(r) PROVE RolesMove
  BY <1>4 DEF GetUser
<1>5. ASSUME NEW r \in Reqs, GetPage(r) PROVE RolesMove
  BY <1>5 DEF GetPage
<1>6. ASSUME NEW r \in Reqs, PageRefused(r) PROVE RolesMove
  BY <1>6 DEF PageRefused
<1>7. ASSUME NEW r \in Reqs, GithubUnreachable(r) PROVE RolesMove
  BY <1>7 DEF GithubUnreachable
<1>8. ASSUME NEW r \in Reqs, Verified(r) PROVE RolesMove
  BY <1>8 DEF Verified
<1>9. ASSUME NEW r \in Reqs, NEW op \in Asked, CheckRole(r, op) PROVE RolesMove
  BY <1>9 DEF CheckRole
<1>10. ASSUME NEW r \in Reqs, NEW op \in Asked, CheckRoleFails(r, op)
      PROVE  RolesMove
  BY <1>10 DEF CheckRoleFails
<1>11. ASSUME NEW r \in Reqs, GrantRole(r) PROVE RolesMove
  BY <1>11 DEF GrantRole
<1>12. ASSUME NEW r \in Reqs, RevokeRole(r) PROVE RolesMove
  BY <1>12 DEF RevokeRole
<1>13. ASSUME NEW r \in Reqs, ResetOrRequeue(r) PROVE RolesMove
  BY <1>13 DEF ResetOrRequeue
<1>14. ASSUME NEW r \in Reqs, NotInDlq(r) PROVE RolesMove
  BY <1>14 DEF NotInDlq
<1>15. ASSUME NEW r \in Reqs, ApplyFails(r) PROVE RolesMove
  BY <1>15 DEF ApplyFails
<1>16. ASSUME NEW r \in Reqs, audit_log(r) PROVE RolesMove
  BY <1>16 DEF audit_log
<1>17. ASSUME NEW r \in Reqs, AuditFails(r) PROVE RolesMove
  BY <1>17 DEF AuditFails
<1>18. ASSUME NEW i \in Insts \cup {None}, JobCreated(i) PROVE RolesMove
  BY <1>18 DEF JobCreated
<1>19. ASSUME NEW u \in Users, NEW i \in Insts, AccessLost(u, i) PROVE RolesMove
  BY <1>19 DEF AccessLost
<1>20. ASSUME NEW u \in Users, NEW i \in Insts, AccessGained(u, i)
      PROVE  RolesMove
  BY <1>20 DEF AccessGained
<1>21. ASSUME NEW t \in Tokens, TokenRevoked(t) PROVE RolesMove
  BY <1>21 DEF TokenRevoked
<1>22. ASSUME NEW p \in Procs, Restart(p) PROVE RolesMove
  BY <1>22 DEF Restart
<1>23. CASE Tick
  BY <1>23 DEF Tick
<1>24. CASE UNCHANGED vars
  BY <1>24 DEF vars
<1>. QED
  BY <1>1, <1>2, <1>3, <1>4, <1>5, <1>6, <1>7, <1>8, <1>9, <1>10, <1>11, <1>12,
     <1>13, <1>14, <1>15, <1>16, <1>17, <1>18, <1>19, <1>20, <1>21, <1>22,
     <1>23, <1>24
     DEF Next, Environment, NewRequest, ReqStep

\* And this to the audit lists.
LEMMA AuditStep ==
  ASSUME AccessTypeOK, [Next]_vars
  PROVE  AuditMove
<1> USE DEF stores, AuditMove
<1>1. ASSUME NEW r \in Reqs, NEW p \in Procs, NEW t \in Tokens, ArriveCached(r, p, t)
      PROVE  AuditMove
  BY <1>1 DEF ArriveCached
<1>2. ASSUME NEW r \in Reqs, NEW p \in Procs, NEW t \in Tokens, ArriveAdmin(r, p, t)
      PROVE  AuditMove
  BY <1>2 DEF ArriveAdmin
<1>3. ASSUME NEW r \in Reqs, NEW p \in Procs, NEW t \in Tokens, Arrive(r, p, t)
      PROVE  AuditMove
  BY <1>3 DEF Arrive
<1>4. ASSUME NEW r \in Reqs, GetUser(r) PROVE AuditMove
  BY <1>4 DEF GetUser
<1>5. ASSUME NEW r \in Reqs, GetPage(r) PROVE AuditMove
  BY <1>5 DEF GetPage
<1>6. ASSUME NEW r \in Reqs, PageRefused(r) PROVE AuditMove
  BY <1>6 DEF PageRefused
<1>7. ASSUME NEW r \in Reqs, GithubUnreachable(r) PROVE AuditMove
  BY <1>7 DEF GithubUnreachable
<1>8. ASSUME NEW r \in Reqs, Verified(r) PROVE AuditMove
  BY <1>8 DEF Verified
<1>9. ASSUME NEW r \in Reqs, NEW op \in Asked, CheckRole(r, op) PROVE AuditMove
  BY <1>9 DEF CheckRole
<1>10. ASSUME NEW r \in Reqs, NEW op \in Asked, CheckRoleFails(r, op)
      PROVE  AuditMove
  BY <1>10 DEF CheckRoleFails
<1>11. ASSUME NEW r \in Reqs, GrantRole(r) PROVE AuditMove
  BY <1>11 DEF GrantRole
<1>12. ASSUME NEW r \in Reqs, RevokeRole(r) PROVE AuditMove
  BY <1>12 DEF RevokeRole
<1>13. ASSUME NEW r \in Reqs, ResetOrRequeue(r) PROVE AuditMove
  BY <1>13 DEF ResetOrRequeue
<1>14. ASSUME NEW r \in Reqs, NotInDlq(r) PROVE AuditMove
  BY <1>14 DEF NotInDlq
<1>15. ASSUME NEW r \in Reqs, ApplyFails(r) PROVE AuditMove
  BY <1>15 DEF ApplyFails
<1>16. ASSUME NEW r \in Reqs, audit_log(r) PROVE AuditMove
  <2> DEFINE e == [action |-> action[req[r].op.kind], inst |-> req[r].op.inst]
  <2>1. req[r].op \in Op /\ req[r].op.kind # "read"
    BY <1>16 DEF AccessTypeOK, RequestsTypeOK, Holds, audit_log, InBody
  <2>2. e \in Entry
    BY <2>1 DEF Entry, Op, action
  <2>3. AuditAppend(e)
    BY <1>16 DEF audit_log
  <2>. QED
    BY <2>2, <2>3
<1>17. ASSUME NEW r \in Reqs, AuditFails(r) PROVE AuditMove
  BY <1>17 DEF AuditFails
<1>18. ASSUME NEW i \in Insts \cup {None}, JobCreated(i) PROVE AuditMove
  <2> DEFINE e == [action |-> "job.create", inst |-> i]
  <2>1. e \in Entry
    BY DEF Entry
  <2>2. AuditAppend(e)
    BY <1>18 DEF JobCreated
  <2>. QED
    BY <2>1, <2>2
<1>19. ASSUME NEW u \in Users, NEW i \in Insts, AccessLost(u, i) PROVE AuditMove
  BY <1>19 DEF AccessLost
<1>20. ASSUME NEW u \in Users, NEW i \in Insts, AccessGained(u, i)
      PROVE  AuditMove
  BY <1>20 DEF AccessGained
<1>21. ASSUME NEW t \in Tokens, TokenRevoked(t) PROVE AuditMove
  BY <1>21 DEF TokenRevoked
<1>22. ASSUME NEW p \in Procs, Restart(p) PROVE AuditMove
  BY <1>22 DEF Restart
<1>23. CASE Tick
  BY <1>23 DEF Tick
<1>24. CASE UNCHANGED vars
  BY <1>24 DEF vars
<1>. QED
  BY <1>1, <1>2, <1>3, <1>4, <1>5, <1>6, <1>7, <1>8, <1>9, <1>10, <1>11, <1>12,
     <1>13, <1>14, <1>15, <1>16, <1>17, <1>18, <1>19, <1>20, <1>21, <1>22,
     <1>23, <1>24
     DEF Next, Environment, NewRequest, ReqStep

-----------------------------------------------------------------------------
(* Type correctness *)

\* The sizes are natural numbers.
LEMMA Sizes ==
  /\ PageSize \in Nat \ {0} /\ MaxPages \in Nat \ {0} /\ RoleAuditCap \in Nat \ {0}
  /\ GlobalCap \in Nat \ {0} /\ PerInstallCap \in Nat \ {0}
  /\ TTL \in Nat /\ Slack \in Nat /\ Bound \in Nat
<1>1. /\ PageSize \in Nat \ {0} /\ MaxPages \in Nat \ {0} /\ RoleAuditCap \in Nat \ {0}
      /\ GlobalCap \in Nat \ {0} /\ PerInstallCap \in Nat \ {0}
  BY AccessAssumptions
<1>2. TTL \in Nat /\ Slack \in Nat
  BY AccessAssumptions
<1>. QED
  BY <1>1, <1>2 DEF Bound

\* The initial states are type correct.
LEMMA InitType == Init => AccessTypeOK
<1> SUFFICES ASSUME Init PROVE AccessTypeOK
  OBVIOUS
<1> USE AccessAssumptions, RolesAssumption, Sizes
<1>1. StoresTypeOK
  BY DEF Init, StoresTypeOK
<1>2. CacheTypeOK
  BY DEF Init, CacheTypeOK, NoEntry
<1>3. RequestsTypeOK
  BY DEF Init, RequestsTypeOK, Request, Idle, Holds, Verifying, InBody
<1>5. WorldTypeOK
  BY DEF Init, WorldTypeOK
<1>. QED
  BY <1>1, <1>2, <1>3, <1>5 DEF AccessTypeOK

\* The role of an installation is one that set_role knows, and the lists stay
\* within their caps.
LEMMA StoresType == ASSUME AccessTypeOK, [Next]_vars PROVE StoresTypeOK'
<1> USE Sizes
<1>. DEFINE Trail == [login : Users, role : Role \cup {None}]
<1>1. ASSUME NEW r \in Reqs, req[r].pc = "apply", req[r].op.kind \in {"grant", "revoke"},
             WriteRole(req[r].op)
      PROVE  /\ roles' \in [Insts -> [Users -> Role \cup {None}]]
             /\ role_audit' \in [Insts -> Seq(Trail)]
             /\ \A i \in Insts : Len(role_audit'[i]) <= RoleAuditCap
  <2> DEFINE op == req[r].op
             e == [login |-> op.login, role |-> op.role]
  <2>1. op \in Op
    BY <1>1 DEF AccessTypeOK, RequestsTypeOK, Holds, InBody
  <2>2. op.inst \in Insts /\ op.login \in Users /\ op.role \in Role \cup {None}
    BY <2>1, <1>1 DEF Op
  <2>3. e \in Trail
    BY <2>2
  <2>4. role_audit[op.inst] \in Seq(Trail)
    BY <2>2 DEF AccessTypeOK, StoresTypeOK
  <2>5. /\ Push(role_audit[op.inst], e, RoleAuditCap) \in Seq(Trail)
        /\ Len(Push(role_audit[op.inst], e, RoleAuditCap)) <= RoleAuditCap
    <3> HIDE DEF e, op, Trail
    <3>. QED  BY <2>3, <2>4, PushFacts
  <2>6. /\ roles' = [roles EXCEPT ![op.inst][op.login] = op.role]
        /\ role_audit' = [role_audit EXCEPT ![op.inst] = Push(role_audit[op.inst], e, RoleAuditCap)]
    BY <1>1 DEF WriteRole
  <2> HIDE DEF e, op, Trail
  <2>. QED
    BY <2>2, <2>5, <2>6 DEF AccessTypeOK, StoresTypeOK, Trail
<1>2. ASSUME NEW e \in Entry, AuditAppend(e)
      PROVE  /\ audit' \in Seq(Entry) /\ Len(audit') <= GlobalCap
             /\ per_install' \in [Insts -> Seq(Entry)]
             /\ \A i \in Insts : Len(per_install'[i]) <= PerInstallCap
  <2>1. audit' \in Seq(Entry) /\ Len(audit') <= GlobalCap
    BY <1>2, PushFacts DEF AuditAppend, AccessTypeOK, StoresTypeOK
  <2>2. CASE e.inst = None
    BY <1>2, <2>1, <2>2 DEF AuditAppend, AccessTypeOK, StoresTypeOK
  <2>3. CASE e.inst # None
    <3>1. e.inst \in Insts
      BY <2>3 DEF Entry
    <3>2. per_install[e.inst] \in Seq(Entry)
      BY <3>1 DEF AccessTypeOK, StoresTypeOK
    <3>3. /\ Push(per_install[e.inst], e, PerInstallCap) \in Seq(Entry)
          /\ Len(Push(per_install[e.inst], e, PerInstallCap)) <= PerInstallCap
      BY <3>2, PushFacts
    <3>4. per_install' = [per_install EXCEPT ![e.inst] = Push(per_install[e.inst], e, PerInstallCap)]
      BY <1>2, <2>3 DEF AuditAppend
    <3>. QED
      BY <2>1, <3>1, <3>3, <3>4 DEF AccessTypeOK, StoresTypeOK
  <2>. QED
    BY <2>2, <2>3
<1>3. /\ roles' \in [Insts -> [Users -> Role \cup {None}]]
      /\ role_audit' \in [Insts -> Seq(Trail)]
      /\ \A i \in Insts : Len(role_audit'[i]) <= RoleAuditCap
  BY <1>1, RoleStep DEF RolesMove, AccessTypeOK, StoresTypeOK
<1>4. /\ audit' \in Seq(Entry) /\ Len(audit') <= GlobalCap
      /\ per_install' \in [Insts -> Seq(Entry)]
      /\ \A i \in Insts : Len(per_install'[i]) <= PerInstallCap
  BY <1>2, AuditStep DEF AuditMove, AccessTypeOK, StoresTypeOK
<1>. QED
  BY <1>3, <1>4 DEF StoresTypeOK

\* _cache_put: one entry is new, some may be gone, the others are as they were.
LEMMA CachePutFacts ==
  ASSUME CacheTypeOK, NEW p \in Procs, NEW t \in Tokens, NEW ctx \in Context,
         CachePut(p, t, ctx)
  PROVE  /\ cache' \in [Procs -> [Tokens -> [ctx : Context \cup {NoContext}, ttl : -2..TTL]]]
         /\ \A q \in Procs, k \in Tokens :
              \/ cache'[q][k] = cache[q][k]
              \/ cache'[q][k] = NoEntry
              \/ q = p /\ k = t /\ cache'[q][k] = [ctx |-> ctx, ttl |-> TTL]
<1> DEFINE Entries == [ctx : Context \cup {NoContext}, ttl : -2..TTL]
           put == [cache[p] EXCEPT ![t] = [ctx |-> ctx, ttl |-> TTL]]
<1>1. PICK drop : cache' = [cache EXCEPT ![p] = [k \in Tokens |-> IF k \in drop THEN NoEntry ELSE put[k]]]
  BY DEF CachePut
<1>2. NoEntry \in Entries /\ [ctx |-> ctx, ttl |-> TTL] \in Entries
  BY Sizes DEF NoEntry
<1>3. cache \in [Procs -> [Tokens -> Entries]]
  BY DEF CacheTypeOK
<1>4. put \in [Tokens -> Entries] /\ \A k \in Tokens : k # t => put[k] = cache[p][k]
  BY <1>2, <1>3
<1>5. put[t] = [ctx |-> ctx, ttl |-> TTL]
  BY <1>3
<1> HIDE DEF Entries, put
<1>6. cache' \in [Procs -> [Tokens -> Entries]]
  BY <1>1, <1>2, <1>3, <1>4
<1>7. ASSUME NEW q \in Procs, NEW k \in Tokens
      PROVE  \/ cache'[q][k] = cache[q][k]
             \/ cache'[q][k] = NoEntry
             \/ q = p /\ k = t /\ cache'[q][k] = [ctx |-> ctx, ttl |-> TTL]
  BY <1>1, <1>3, <1>4, <1>5
<1>. QED
  BY <1>6, <1>7 DEF Entries

\* And when it is the context of the token's owner the cache is well formed.
LEMMA CachePutType ==
  ASSUME CacheTypeOK, NEW p \in Procs, NEW t \in Tokens, NEW ctx \in Context,
         ctx.login = Owner[t], CachePut(p, t, ctx)
  PROVE  CacheTypeOK'
<1>1. ASSUME NEW q \in Procs, NEW k \in Tokens, cache'[q][k].ttl >= 0
      PROVE  cache'[q][k].ctx \in Context /\ cache'[q][k].ctx.login = Owner[k]
  <2>1. CASE cache'[q][k] = cache[q][k]
    BY <1>1, <2>1 DEF CacheTypeOK
  <2>2. CASE cache'[q][k] = NoEntry
    BY <1>1, <2>2 DEF NoEntry
  <2>3. CASE k = t /\ cache'[q][k] = [ctx |-> ctx, ttl |-> TTL]
    BY <2>3
  <2>. QED
    BY <2>1, <2>2, <2>3, CachePutFacts
<1>. QED
  BY <1>1, CachePutFacts DEF CacheTypeOK

\* A cached context is that of the owner of the token.
LEMMA CacheType ==
  ASSUME AccessTypeOK, [Next]_vars
  PROVE  CacheTypeOK'
<1> USE AccessAssumptions, Sizes DEF AccessTypeOK, CacheTypeOK, NoEntry,
        Expired, github, stores
<1>1. ASSUME NEW r \in Reqs, NEW p \in Procs, NEW t \in Tokens, ArriveCached(r, p, t)
      PROVE  CacheTypeOK'
  BY <1>1 DEF ArriveCached, SpendRequest, Begun
<1>2. ASSUME NEW r \in Reqs, NEW p \in Procs, NEW t \in Tokens, ArriveAdmin(r, p, t)
      PROVE  CacheTypeOK'
  <2> DEFINE c == [login |-> t, insts |-> {}, admin |-> TRUE]
  <2>1. c \in Context /\ c.login = Owner[t]
    BY <1>2 DEF ArriveAdmin, Context, Logins
  <2>2. CachePut(p, t, c)
    BY <1>2 DEF ArriveAdmin
  <2> HIDE DEF c
  <2>. QED
    BY <2>1, <2>2, CachePutType
<1>3. ASSUME NEW r \in Reqs, NEW p \in Procs, NEW t \in Tokens, Arrive(r, p, t)
      PROVE  CacheTypeOK'
  BY <1>3 DEF Arrive, SpendRequest, Begun
<1>4. ASSUME NEW r \in Reqs, GetUser(r) PROVE CacheTypeOK'
  BY <1>4 DEF GetUser, Answered
<1>5. ASSUME NEW r \in Reqs, GetPage(r) PROVE CacheTypeOK'
  BY <1>5 DEF GetPage
<1>6. ASSUME NEW r \in Reqs, PageRefused(r) PROVE CacheTypeOK'
  BY <1>6 DEF PageRefused, Spend
<1>7. ASSUME NEW r \in Reqs, GithubUnreachable(r) PROVE CacheTypeOK'
  BY <1>7 DEF GithubUnreachable, Spend, Answered
<1>8. ASSUME NEW r \in Reqs, Verified(r) PROVE CacheTypeOK'
  <2> DEFINE q == req[r]
  <2>1. q.proc \in Procs /\ q.token \in Tokens /\ q.ctx \in Context /\ q.ctx.login = Owner[q.token]
    BY <1>8 DEF Verified, RequestsTypeOK, Holds
  <2>2. CachePut(q.proc, q.token, q.ctx)
    BY <1>8 DEF Verified
  <2> HIDE DEF q
  <2>. QED
    BY <2>1, <2>2, CachePutType
<1>9. ASSUME NEW r \in Reqs, NEW op \in Asked, CheckRole(r, op)
      PROVE  CacheTypeOK'
  BY <1>9 DEF CheckRole, Decide, Answered
<1>10. ASSUME NEW r \in Reqs, NEW op \in Asked, CheckRoleFails(r, op)
      PROVE  CacheTypeOK'
  BY <1>10 DEF CheckRoleFails, Decide, Answered, Spend
<1>11. ASSUME NEW r \in Reqs, GrantRole(r) PROVE CacheTypeOK'
  BY <1>11 DEF GrantRole, WriteRole, Race
<1>12. ASSUME NEW r \in Reqs, RevokeRole(r) PROVE CacheTypeOK'
  BY <1>12 DEF RevokeRole, WriteRole, Race, Changes
<1>13. ASSUME NEW r \in Reqs, ResetOrRequeue(r) PROVE CacheTypeOK'
  BY <1>13 DEF ResetOrRequeue
<1>14. ASSUME NEW r \in Reqs, NotInDlq(r) PROVE CacheTypeOK'
  BY <1>14 DEF NotInDlq, Answered
<1>15. ASSUME NEW r \in Reqs, ApplyFails(r) PROVE CacheTypeOK'
  BY <1>15 DEF ApplyFails, Spend, Answered, WriteRole, Race, Changes
<1>16. ASSUME NEW r \in Reqs, audit_log(r) PROVE CacheTypeOK'
  BY <1>16 DEF audit_log, AuditAppend, Answered
<1>17. ASSUME NEW r \in Reqs, AuditFails(r) PROVE CacheTypeOK'
  BY <1>17 DEF AuditFails, Spend, Answered
<1>18. ASSUME NEW i \in Insts \cup {None}, JobCreated(i) PROVE CacheTypeOK'
  BY <1>18 DEF JobCreated, Spend, AuditAppend
<1>19. ASSUME NEW u \in Users, NEW i \in Insts, AccessLost(u, i)
      PROVE  CacheTypeOK'
  BY <1>19 DEF AccessLost, Spend
<1>20. ASSUME NEW u \in Users, NEW i \in Insts, AccessGained(u, i)
      PROVE  CacheTypeOK'
  BY <1>20 DEF AccessGained, Spend
<1>21. ASSUME NEW t \in Tokens, TokenRevoked(t) PROVE CacheTypeOK'
  BY <1>21 DEF TokenRevoked, Spend
<1>22. ASSUME NEW p \in Procs, Restart(p) PROVE CacheTypeOK'
  BY <1>22 DEF Restart, Spend
<1>23. CASE Tick
  <2> DEFINE E(p, t) == IF cache[p][t].ttl = 0 THEN Expired
                        ELSE [cache[p][t] EXCEPT !.ttl = IF @ > 0 THEN @ - 1 ELSE @]
  <2>1. ASSUME NEW p \in Procs, NEW t \in Tokens
        PROVE  /\ E(p, t) \in [ctx : Context \cup {NoContext}, ttl : -2..TTL]
               /\ E(p, t).ttl >= 0 => cache[p][t].ttl >= 0 /\ E(p, t).ctx = cache[p][t].ctx
    <3> DEFINE e == cache[p][t]
    <3>1. e \in [ctx : Context \cup {NoContext}, ttl : -2..TTL]
      OBVIOUS
    <3>2. CASE e.ttl = 0
      BY <3>1, <3>2
    <3>3. CASE e.ttl # 0
      <4> DEFINE m == IF e.ttl > 0 THEN e.ttl - 1 ELSE e.ttl
      <4>1. E(p, t) = [e EXCEPT !.ttl = m]
        BY <3>3
      <4>2. m \in -2..TTL /\ (m >= 0 => e.ttl >= 0)
        BY <3>1, <3>3
      <4> HIDE DEF E, m, e
      <4>3. /\ [e EXCEPT !.ttl = m] \in [ctx : Context \cup {NoContext}, ttl : -2..TTL]
            /\ [e EXCEPT !.ttl = m].ttl = m /\ [e EXCEPT !.ttl = m].ctx = e.ctx
        BY <3>1, <4>2
      <4>. QED
        BY <4>1, <4>2, <4>3 DEF e
    <3>. QED
      BY <3>2, <3>3
  <2>2. cache' = [p \in Procs |-> [t \in Tokens |-> E(p, t)]]
    BY <1>23 DEF Tick
  <2> HIDE DEF E
  <2>. QED
    BY <2>1, <2>2
<1>24. CASE UNCHANGED vars
  BY <1>24 DEF vars
<1>. QED
  BY <1>1, <1>2, <1>3, <1>4, <1>5, <1>6, <1>7, <1>8, <1>9, <1>10, <1>11, <1>12,
     <1>13, <1>14, <1>15, <1>16, <1>17, <1>18, <1>19, <1>20, <1>21, <1>22,
     <1>23, <1>24
     DEF Next, Environment, NewRequest, ReqStep

\* Every request is well formed when each that changes is.
LEMMA OneRequest ==
  ASSUME RequestsTypeOK, NEW r \in Reqs, NEW n \in Request, Holds(n),
         req' = [req EXCEPT ![r] = n]
  PROVE  RequestsTypeOK'
  BY DEF RequestsTypeOK

LEMMA IdleRequest == Idle \in Request /\ Holds(Idle)
  BY AccessAssumptions, Sizes DEF Idle, Request, Holds, Verifying, InBody

\* Its fields may take any value of their types.
LEMMA RequestFields ==
  ASSUME NEW q \in Request
  PROVE  /\ \A x \in {"idle", "authed"} \cup Verifying \cup InBody : [q EXCEPT !.pc = x] \in Request
         /\ \A m \in 0..MaxPages : [q EXCEPT !.page = m] \in Request
         /\ \A c \in Context \cup {NoContext} : [q EXCEPT !.ctx = c] \in Request
         /\ \A op \in Op \cup {NoOp} : [q EXCEPT !.op = op] \in Request
  BY DEF Request

\* A request that has just come has its process and its token.
LEMMA BegunRequest ==
  ASSUME NEW p \in Procs, NEW t \in Tokens
  PROVE  /\ Begun(p, t) \in Request
         /\ Begun(p, t).proc = p /\ Begun(p, t).token = t
  BY IdleRequest DEF Begun, Request

\* Requests that are raced are well formed, too.
LEMMA RaceRequest ==
  ASSUME RequestsTypeOK, NEW r \in Reqs, NEW op, NEW n \in Request, Holds(n),
         req' = [Race(r, op) EXCEPT ![r] = n]
  PROVE  RequestsTypeOK'
<1>1. \A s \in Reqs : [req[s] EXCEPT !.raced = TRUE] \in Request
  BY DEF RequestsTypeOK, Request
<1>2. \A s \in Reqs : Holds([req[s] EXCEPT !.raced = TRUE])
  BY DEF RequestsTypeOK, Request, Holds
<1>3. Race(r, op) \in [Reqs -> Request] /\ \A s \in Reqs : Holds(Race(r, op)[s])
  BY <1>1, <1>2 DEF Race, RequestsTypeOK
<1>. QED
  BY <1>3 DEF RequestsTypeOK

\* What a request holds it got from its token.
LEMMA RequestsType ==
  ASSUME AccessTypeOK, [Next]_vars
  PROVE  RequestsTypeOK'
<1> USE AccessAssumptions, AskedAssumption, Sizes DEF Verifying, InBody, github, stores
<1>0. /\ RequestsTypeOK /\ CacheTypeOK /\ WorldTypeOK
      /\ \A s \in Reqs : req[s] \in Request /\ Holds(req[s])
  BY DEF AccessTypeOK, RequestsTypeOK

<1>1. ASSUME NEW r \in Reqs, NEW p \in Procs, NEW t \in Tokens, ArriveCached(r, p, t)
      PROVE  RequestsTypeOK'
  <2> DEFINE n == [Begun(p, t) EXCEPT !.pc = "authed", !.ctx = cache[p][t].ctx]
  <2>1. req' = [req EXCEPT ![r] = n]
    BY <1>0, <1>1 DEF ArriveCached
  <2>4. cache[p][t].ctx \in Context /\ cache[p][t].ctx.login = Owner[t]
    BY <1>0, <1>1 DEF ArriveCached, Hit, CacheTypeOK
  <2>2. n \in Request
    BY <1>0, <1>1, <2>4, BegunRequest, RequestFields
  <2>3. Holds(n)
    BY <1>0, <1>1, <2>4, BegunRequest DEF Request, Holds
  <2> HIDE DEF n
  <2>. QED
    BY <1>0, <2>1, <2>2, <2>3, OneRequest
<1>2. ASSUME NEW r \in Reqs, NEW p \in Procs, NEW t \in Tokens, ArriveAdmin(r, p, t)
      PROVE  RequestsTypeOK'
  <2> DEFINE n == [Begun(p, t) EXCEPT !.pc = "authed",
                           !.ctx = [login |-> t, insts |-> {}, admin |-> TRUE]]
  <2>1. req' = [req EXCEPT ![r] = n]
    BY <1>0, <1>2 DEF ArriveAdmin
  <2>2. n \in Request
    BY <1>0, <1>2, BegunRequest, RequestFields DEF ArriveAdmin, Context, Logins
  <2>3. Holds(n)
    BY <1>0, <1>2, BegunRequest DEF ArriveAdmin, Request, Holds, Context, Logins
  <2> HIDE DEF n
  <2>. QED
    BY <1>0, <2>1, <2>2, <2>3, OneRequest
<1>3. ASSUME NEW r \in Reqs, NEW p \in Procs, NEW t \in Tokens, Arrive(r, p, t)
      PROVE  RequestsTypeOK'
  <2> DEFINE n == [Begun(p, t) EXCEPT !.pc = "user"]
  <2>1. req' = [req EXCEPT ![r] = n]
    BY <1>0, <1>3 DEF Arrive
  <2>2. n \in Request
    BY <1>0, <1>3, BegunRequest DEF Request
  <2>3. Holds(n)
    BY <1>0, <1>3, BegunRequest DEF Arrive, Request, Holds
  <2> HIDE DEF n
  <2>. QED
    BY <1>0, <2>1, <2>2, <2>3, OneRequest
<1>4. ASSUME NEW r \in Reqs, GetUser(r) PROVE RequestsTypeOK'
  <2> DEFINE c == [login |-> Owner[req[r].token], insts |-> {},
                   admin |-> Owner[req[r].token] \in AdminLogins]
             n == [req[r] EXCEPT !.pc = "page", !.page = 1, !.ctx = c]
  <2>1. CASE req' = [req EXCEPT ![r] = Idle]
    BY <1>0, <2>1, IdleRequest, OneRequest
  <2>2. CASE req' = [req EXCEPT ![r] = n]
    <3>1. c \in Context /\ c.login = Owner[req[r].token]
      BY <1>0, <1>4 DEF GetUser, Context, Holds
    <3>2. 1 \in 0..MaxPages
      OBVIOUS
    <3>3. n \in Request
      BY <1>0, <1>0, <3>1, <3>2, RequestFields
    <3>4. Holds(n)
      BY <1>0, <1>4, <3>1 DEF GetUser, Request, Holds
    <3> HIDE DEF n
    <3>. QED
      BY <1>0, <2>2, <3>3, <3>4, OneRequest
  <2>3. req[r].token \notin valid => req' = [req EXCEPT ![r] = Idle]
    BY <1>4 DEF GetUser, Answered
  <2>4. req[r].token \in valid => req' = [req EXCEPT ![r] = n]
    BY <1>0, <1>4, ZenonT(60) DEF GetUser
  <2> HIDE DEF n
  <2>. QED
    BY <2>1, <2>2, <2>3, <2>4
<1>5. ASSUME NEW r \in Reqs, GetPage(r) PROVE RequestsTypeOK'
  <2> DEFINE q == req[r]
             got == Listed(q.ctx.login, q.page)
             last == Cardinality(got) < PageSize \/ q.page + 1 > MaxPages
             c == [q.ctx EXCEPT !.insts = @ \cup got]
             m == IF last THEN q.page ELSE q.page + 1
             l == IF last THEN "put" ELSE "page"
             n == [q EXCEPT !.ctx = c, !.page = m, !.pc = l]
  <2>1. q \in Request /\ q.pc = "page" /\ q.ctx \in Context /\ q.ctx.login = Owner[q.token]
        /\ q.ctx.login \in Users
    BY <1>0, <1>5 DEF GetPage, Holds
  <2>2. got \subseteq Insts
    BY <1>0, <1>0, <2>1 DEF Listed, WorldTypeOK
  <2>3. c \in Context /\ c.login = Owner[q.token]
    BY <1>0, <2>1, <2>2 DEF Context
  <2>4. m \in 0..MaxPages
    <3> HIDE DEF got
    <3>. QED  BY <2>1 DEF Request
  <2>5. req' = [req EXCEPT ![r] = n]
    BY <1>0, <1>5 DEF GetPage
  <2>6. l \in {"put", "page"}
    OBVIOUS
  <2> HIDE DEF last, c, m, got
  <2>8. n \in Request
    <3> HIDE DEF q, l
    <3>. QED  BY <2>1, <2>3, <2>4, <2>6 DEF Request
  <2>7. Holds(n)
    BY <1>0, <1>5, <2>1, <2>3 DEF Request, Holds
  <2> HIDE DEF n
  <2>. QED
    BY <1>0, <2>5, <2>8, <2>7, OneRequest
<1>6. ASSUME NEW r \in Reqs, PageRefused(r) PROVE RequestsTypeOK'
  <2> DEFINE n == [req[r] EXCEPT !.pc = "put"]
  <2>1. req' = [req EXCEPT ![r] = n]
    BY <1>0, <1>6 DEF PageRefused
  <2>2. n \in Request
    BY <1>0, <1>6 DEF PageRefused, Request
  <2>3. Holds(n)
    BY <1>0, <1>6 DEF PageRefused, Holds
  <2> HIDE DEF n
  <2>. QED
    BY <1>0, <2>1, <2>2, <2>3, OneRequest
<1>7. ASSUME NEW r \in Reqs, GithubUnreachable(r) PROVE RequestsTypeOK'
  <2>1. req' = [req EXCEPT ![r] = Idle]
    BY <1>0, <1>7 DEF GithubUnreachable, Answered
  <2>. QED
    BY <1>0, <2>1, IdleRequest, OneRequest
<1>8. ASSUME NEW r \in Reqs, Verified(r) PROVE RequestsTypeOK'
  <2> DEFINE n == [req[r] EXCEPT !.pc = "authed", !.page = 0]
  <2>1. req' = [req EXCEPT ![r] = n]
    BY <1>0, <1>8 DEF Verified
  <2>2. n \in Request
    BY <1>0, <1>0, 0 \in 0..MaxPages, RequestFields
  <2>3. Holds(n)
    BY <1>0, <1>8 DEF Verified, Holds
  <2> HIDE DEF n
  <2>. QED
    BY <1>0, <2>1, <2>2, <2>3, OneRequest
<1>9. ASSUME NEW r \in Reqs, NEW op \in Asked, CheckRole(r, op)
      PROVE  RequestsTypeOK'
  <2> DEFINE n == [req[r] EXCEPT !.pc = "apply", !.op = op]
  <2>1. CASE req' = [req EXCEPT ![r] = Idle]
    BY <1>0, <2>1, IdleRequest, OneRequest
  <2>2. CASE req' = [req EXCEPT ![r].pc = "apply", ![r].op = op] /\ op.kind # "read"
    <3>1. req' = [req EXCEPT ![r] = n]
      BY <2>2
    <3>2. n \in Request
      BY <1>0, <1>0, RequestFields
    <3>3. Holds(n)
      BY <1>0, <1>9, <2>2 DEF CheckRole, Request, Holds
    <3> HIDE DEF n
    <3>. QED
      BY <1>0, <1>0, <3>1, <3>2, <3>3, OneRequest
  <2>. QED
    BY <1>0, <1>9, <2>1, <2>2 DEF CheckRole, Decide, Answered
<1>10. ASSUME NEW r \in Reqs, NEW op \in Asked, CheckRoleFails(r, op)
      PROVE  RequestsTypeOK'
  <2> DEFINE n == [req[r] EXCEPT !.pc = "apply", !.op = op]
  <2>1. CASE req' = [req EXCEPT ![r] = Idle]
    BY <1>0, <2>1, IdleRequest, OneRequest
  <2>2. CASE req' = [req EXCEPT ![r].pc = "apply", ![r].op = op] /\ op.kind # "read"
    <3>1. req' = [req EXCEPT ![r] = n]
      BY <2>2
    <3>2. n \in Request
      BY <1>0, <1>0, RequestFields
    <3>3. Holds(n)
      BY <1>0, <1>10, <2>2 DEF CheckRoleFails, Request, Holds
    <3> HIDE DEF n
    <3>. QED
      BY <1>0, <1>0, <3>1, <3>2, <3>3, OneRequest
  <2>. QED
    BY <1>0, <1>10, <2>1, <2>2 DEF CheckRoleFails, Decide, Answered
<1>11. ASSUME NEW r \in Reqs, GrantRole(r) PROVE RequestsTypeOK'
  <2> DEFINE n == [req[r] EXCEPT !.pc = "audit"]
  <2>1. req' = [Race(r, req[r].op) EXCEPT ![r] = n]
    BY <1>0, <1>11 DEF GrantRole, Race
  <2>2. n \in Request /\ Holds(n)
    BY <1>0, <1>11 DEF GrantRole, Request, Holds
  <2> HIDE DEF n
  <2>. QED
    BY <1>0, <2>1, <2>2, IdleRequest, OneRequest, RaceRequest
<1>12. ASSUME NEW r \in Reqs, RevokeRole(r) PROVE RequestsTypeOK'
  <2> DEFINE n == [req[r] EXCEPT !.pc = "audit"]
  <2>1. \/ req' = [Race(r, req[r].op) EXCEPT ![r] = n]
        \/ req' = [req EXCEPT ![r] = Idle]
    BY <1>0, <1>12 DEF RevokeRole, Race
  <2>2. n \in Request /\ Holds(n)
    BY <1>0, <1>12 DEF RevokeRole, Request, Holds
  <2> HIDE DEF n
  <2>. QED
    BY <1>0, <2>1, <2>2, IdleRequest, OneRequest, RaceRequest
<1>13. ASSUME NEW r \in Reqs, ResetOrRequeue(r) PROVE RequestsTypeOK'
  <2> DEFINE n == [req[r] EXCEPT !.pc = "audit"]
  <2>1. req' = [req EXCEPT ![r] = n]
    BY <1>0, <1>13 DEF ResetOrRequeue
  <2>2. n \in Request
    BY <1>0, <1>13 DEF ResetOrRequeue, Request
  <2>3. Holds(n)
    BY <1>0, <1>13 DEF ResetOrRequeue, Holds
  <2> HIDE DEF n
  <2>. QED
    BY <1>0, <2>1, <2>2, <2>3, OneRequest
<1>14. ASSUME NEW r \in Reqs, NotInDlq(r) PROVE RequestsTypeOK'
  <2>1. req' = [req EXCEPT ![r] = Idle]
    BY <1>0, <1>14 DEF NotInDlq, Answered
  <2>. QED
    BY <1>0, <2>1, IdleRequest, OneRequest
<1>15. ASSUME NEW r \in Reqs, ApplyFails(r) PROVE RequestsTypeOK'
  <2>1. \/ req' = [Race(r, req[r].op) EXCEPT ![r] = Idle]
        \/ req' = [req EXCEPT ![r] = Idle]
    BY <1>0, <1>15 DEF ApplyFails, Answered
  <2>. QED
    BY <1>0, <2>1, IdleRequest, OneRequest, RaceRequest
<1>16. ASSUME NEW r \in Reqs, audit_log(r) PROVE RequestsTypeOK'
  <2>1. req' = [req EXCEPT ![r] = Idle]
    BY <1>0, <1>16 DEF audit_log, Answered
  <2>. QED
    BY <1>0, <2>1, IdleRequest, OneRequest
<1>17. ASSUME NEW r \in Reqs, AuditFails(r) PROVE RequestsTypeOK'
  <2>1. req' = [req EXCEPT ![r] = Idle]
    BY <1>0, <1>17 DEF AuditFails, Answered
  <2>. QED
    BY <1>0, <2>1, IdleRequest, OneRequest
<1>18. ASSUME NEW i \in Insts \cup {None}, JobCreated(i) PROVE RequestsTypeOK'
  BY <1>0, <1>18 DEF JobCreated, RequestsTypeOK
<1>19. ASSUME NEW u \in Users, NEW i \in Insts, AccessLost(u, i)
      PROVE  RequestsTypeOK'
  BY <1>0, <1>19 DEF AccessLost, RequestsTypeOK
<1>20. ASSUME NEW u \in Users, NEW i \in Insts, AccessGained(u, i)
      PROVE  RequestsTypeOK'
  BY <1>0, <1>20 DEF AccessGained, RequestsTypeOK
<1>21. ASSUME NEW t \in Tokens, TokenRevoked(t) PROVE RequestsTypeOK'
  BY <1>0, <1>21 DEF TokenRevoked, RequestsTypeOK
<1>22. ASSUME NEW p \in Procs, Restart(p) PROVE RequestsTypeOK'
  <2>1. req' = [s \in Reqs |-> IF req[s].proc = p THEN Idle ELSE req[s]]
    BY <1>0, <1>22 DEF Restart
  <2>. QED
    BY <1>0, <2>1, IdleRequest DEF RequestsTypeOK
<1>23. CASE Tick
  <2>1. req' = [s \in Reqs |-> IF req[s].pc = "idle" THEN Idle ELSE [req[s] EXCEPT !.age = @ + 1]]
    BY <1>0, <1>23 DEF Tick
  <2>2. ASSUME NEW s \in Reqs, req[s].pc # "idle"
        PROVE  /\ [req[s] EXCEPT !.age = @ + 1] \in Request
               /\ Holds([req[s] EXCEPT !.age = @ + 1])
    <3>1. req[s].age + 1 \in 0..Slack
      BY <1>0, <1>23, <2>2 DEF Tick, Request
    <3>. QED
      BY <1>0, <1>0, <3>1, <2>2 DEF Request, Holds
  <2>. QED
    BY <1>0, <2>1, <2>2, IdleRequest DEF RequestsTypeOK
<1>24. CASE UNCHANGED vars
  BY <1>0, <1>24 DEF vars, RequestsTypeOK
<1>. QED
  BY <1>1, <1>2, <1>3, <1>4, <1>5, <1>6, <1>7, <1>8, <1>9, <1>10, <1>11, <1>12,
     <1>13, <1>14, <1>15, <1>16, <1>17, <1>18, <1>19, <1>20, <1>21, <1>22,
     <1>23, <1>24
     DEF Next, Environment, NewRequest, ReqStep

\* The clocks of the history are bounded.
LEMMA WorldType ==
  ASSUME AccessTypeOK, [Next]_vars
  PROVE  WorldTypeOK'
<1> USE AccessAssumptions, Sizes DEF WorldTypeOK, github, stores, Happenings
<1>0. WorldTypeOK
  BY DEF AccessTypeOK
<1>1. ASSUME NEW r \in Reqs, NEW p \in Procs, NEW t \in Tokens, ArriveCached(r, p, t)
      PROVE  WorldTypeOK'
  BY <1>0, <1>1 DEF ArriveCached, SpendRequest
<1>2. ASSUME NEW r \in Reqs, NEW p \in Procs, NEW t \in Tokens, ArriveAdmin(r, p, t)
      PROVE  WorldTypeOK'
  BY <1>0, <1>2 DEF ArriveAdmin, SpendRequest
<1>3. ASSUME NEW r \in Reqs, NEW p \in Procs, NEW t \in Tokens, Arrive(r, p, t)
      PROVE  WorldTypeOK'
  BY <1>0, <1>3 DEF Arrive, SpendRequest
<1>4. ASSUME NEW r \in Reqs, GetUser(r) PROVE WorldTypeOK'
  BY <1>0, <1>4 DEF GetUser
<1>5. ASSUME NEW r \in Reqs, GetPage(r) PROVE WorldTypeOK'
  BY <1>0, <1>5 DEF GetPage
<1>6. ASSUME NEW r \in Reqs, PageRefused(r) PROVE WorldTypeOK'
  <2>1. req[r].ctx.login \in Users
    BY <1>0, <1>6 DEF PageRefused, AccessTypeOK, RequestsTypeOK, Holds, Verifying
  <2>2. upset' \in [Users -> 0..(Bound + 1)]
    BY <1>0, <1>6, <2>1 DEF PageRefused
  <2>3. left' \in [Happenings -> Nat]
    <3>1. CASE Spend("github")
      BY <1>0, <3>1 DEF Spend, Happenings
    <3>2. CASE left' = left
      BY <1>0, <3>2
    <3>. QED
      BY <1>6, <3>1, <3>2 DEF PageRefused
  <2>. QED
    BY <1>0, <1>6, <2>2, <2>3 DEF PageRefused
<1>7. ASSUME NEW r \in Reqs, GithubUnreachable(r) PROVE WorldTypeOK'
  BY <1>0, <1>7 DEF GithubUnreachable, Spend
<1>8. ASSUME NEW r \in Reqs, Verified(r) PROVE WorldTypeOK'
  BY <1>0, <1>8 DEF Verified
<1>9. ASSUME NEW r \in Reqs, NEW op \in Asked, CheckRole(r, op)
      PROVE  WorldTypeOK'
  BY <1>0, <1>9 DEF CheckRole
<1>10. ASSUME NEW r \in Reqs, NEW op \in Asked, CheckRoleFails(r, op)
      PROVE  WorldTypeOK'
  BY <1>0, <1>10 DEF CheckRoleFails, Spend
<1>11. ASSUME NEW r \in Reqs, GrantRole(r) PROVE WorldTypeOK'
  BY <1>0, <1>11 DEF GrantRole
<1>12. ASSUME NEW r \in Reqs, RevokeRole(r) PROVE WorldTypeOK'
  BY <1>0, <1>12 DEF RevokeRole, Changes
<1>13. ASSUME NEW r \in Reqs, ResetOrRequeue(r) PROVE WorldTypeOK'
  BY <1>0, <1>13 DEF ResetOrRequeue
<1>14. ASSUME NEW r \in Reqs, NotInDlq(r) PROVE WorldTypeOK'
  BY <1>0, <1>14 DEF NotInDlq
<1>15. ASSUME NEW r \in Reqs, ApplyFails(r) PROVE WorldTypeOK'
  BY <1>0, <1>15 DEF ApplyFails, Spend, Changes
<1>16. ASSUME NEW r \in Reqs, audit_log(r) PROVE WorldTypeOK'
  BY <1>0, <1>16 DEF audit_log
<1>17. ASSUME NEW r \in Reqs, AuditFails(r) PROVE WorldTypeOK'
  BY <1>0, <1>17 DEF AuditFails, Spend
<1>18. ASSUME NEW i \in Insts \cup {None}, JobCreated(i) PROVE WorldTypeOK'
  BY <1>0, <1>18 DEF JobCreated, Spend
<1>19. ASSUME NEW u \in Users, NEW i \in Insts, AccessLost(u, i)
      PROVE  WorldTypeOK'
  <2>1. lost' = [lost EXCEPT ![u][i] = 0] /\ 0 \in 0..(Bound + 1)
    BY <1>0, <1>19 DEF AccessLost
  <2>2. lost' \in [Users -> [Insts -> 0..(Bound + 1)]]
    BY <1>0, <2>1
  <2>. QED
    BY <1>0, <1>19, <2>2 DEF AccessLost, Spend
<1>20. ASSUME NEW u \in Users, NEW i \in Insts, AccessGained(u, i)
      PROVE  WorldTypeOK'
  BY <1>0, <1>20 DEF AccessGained, Spend
<1>21. ASSUME NEW t \in Tokens, TokenRevoked(t) PROVE WorldTypeOK'
  BY <1>0, <1>21 DEF TokenRevoked, Spend
<1>22. ASSUME NEW p \in Procs, Restart(p) PROVE WorldTypeOK'
  BY <1>0, <1>22 DEF Restart, Spend
<1>23. CASE Tick
  BY <1>0, <1>23 DEF Tick, Older
<1>24. CASE UNCHANGED vars
  BY <1>0, <1>24 DEF vars
<1>. QED
  BY <1>1, <1>2, <1>3, <1>4, <1>5, <1>6, <1>7, <1>8, <1>9, <1>10, <1>11, <1>12,
     <1>13, <1>14, <1>15, <1>16, <1>17, <1>18, <1>19, <1>20, <1>21, <1>22,
     <1>23, <1>24
     DEF Next, Environment, NewRequest, ReqStep

\* Every step keeps the types.
LEMMA NextType == AccessTypeOK /\ [Next]_vars => AccessTypeOK'
  BY StoresType, CacheType, RequestsType, WorldType DEF AccessTypeOK

\* Type correctness: the lists stay within their caps, only roles the program
\* knows are stored, and a context belongs to the owner of its token.
THEOREM AccessTypeCorrect == Spec => []AccessTypeOK
  BY InitType, NextType, PTL DEF Spec

-----------------------------------------------------------------------------
(* The trail of an installation *)

\* The newest entry about a login is its role.
LEMMA NextTrail == ASSUME AccessTypeOK, TrailExplains, [Next]_vars PROVE TrailExplains'
<1>1. CASE UNCHANGED <<roles, role_audit>>
  BY <1>1 DEF TrailExplains
<1>2. ASSUME NEW r \in Reqs, req[r].pc = "apply", req[r].op.kind \in {"grant", "revoke"},
             WriteRole(req[r].op),
             NEW i \in Insts, NEW k \in 1..Len(role_audit'[i]),
             \A j \in 1..(k - 1) : role_audit'[i][j].login # role_audit'[i][k].login
      PROVE  roles'[i][role_audit'[i][k].login] = role_audit'[i][k].role
  <2> DEFINE Trail == [login : Users, role : Role \cup {None}]
             op == req[r].op
             e == [login |-> op.login, role |-> op.role]
             pushed == Push(role_audit[op.inst], e, RoleAuditCap)
  <2>1. op.inst \in Insts /\ op.login \in Users /\ op.role \in Role \cup {None}
    BY <1>2 DEF AccessTypeOK, RequestsTypeOK, Holds, InBody, Op
  <2>2. role_audit \in [Insts -> Seq(Trail)] /\ roles \in [Insts -> [Users -> Role \cup {None}]]
    BY DEF AccessTypeOK, StoresTypeOK
  <2>3. /\ roles' = [roles EXCEPT ![op.inst][op.login] = op.role]
        /\ role_audit' = [role_audit EXCEPT ![op.inst] = pushed]
    BY <1>2 DEF WriteRole
  <2>4. e \in Trail /\ e.login = op.login /\ e.role = op.role
    BY <2>1
  <2> HIDE DEF op, e, pushed, Trail
  <2>5. /\ pushed \in Seq(Trail) /\ pushed[1] = e
        /\ \A m \in 2..Len(pushed) : m - 1 \in 1..Len(role_audit[op.inst])
                                     /\ pushed[m] = role_audit[op.inst][m - 1]
    <3>1. role_audit[op.inst] \in Seq(Trail)
      BY <2>1, <2>2
    <3>2. RoleAuditCap \in Nat \ {0}
      BY Sizes
    <3> DEFINE list == role_audit[op.inst]
    <3> HIDE DEF list
    <3>3. /\ Push(list, e, RoleAuditCap) \in Seq(Trail)
          /\ Push(list, e, RoleAuditCap)[1] = e
          /\ \A m \in 2..Len(Push(list, e, RoleAuditCap)) :
               m - 1 \in 1..Len(list) /\ Push(list, e, RoleAuditCap)[m] = list[m - 1]
      <4>1. list \in Seq(Trail) /\ e \in Trail
        BY <2>4, <3>1 DEF list
      <4>. QED  BY <3>2, <4>1, PushFacts
    <3>. QED
      BY <3>3 DEF pushed, list
  <2>6. CASE i # op.inst
    BY <1>2, <2>1, <2>2, <2>3, <2>6 DEF TrailExplains
  <2>7. CASE i = op.inst
    <3>1. role_audit'[i] = pushed
      BY <2>1, <2>2, <2>3, <2>7
    <3>2. CASE k = 1
      BY <2>1, <2>2, <2>3, <2>4, <2>5, <2>7, <3>1, <3>2
    <3>3. CASE k # 1
      <4> DEFINE list == role_audit[i]
      <4>1. k \in 2..Len(pushed) /\ list \in Seq(Trail)
        BY <1>2, <2>2, <2>5, <3>1, <3>3
      <4>2. k - 1 \in 1..Len(list) /\ pushed[k] = list[k - 1]
        BY <2>5, <2>7, <4>1
      <4>3. list[k - 1].login # op.login
        BY <1>2, <2>4, <2>5, <3>1, <4>1, <4>2
      <4>4. ASSUME NEW j \in 1..(k - 2) PROVE list[j].login # list[k - 1].login
        <5>1. j + 1 \in 2..Len(pushed) /\ j + 1 \in 1..(k - 1)
          BY <4>1, <2>5
        <5>2. pushed[j + 1] = list[j]
          BY <2>5, <2>7, <5>1
        <5>. QED
          BY <1>2, <3>1, <4>2, <5>1, <5>2
      <4>5. roles[i][list[k - 1].login] = list[k - 1].role
        BY <4>2, <4>4 DEF TrailExplains
      <4>6. list[k - 1] \in Trail
        BY <4>1, <4>2
      <4>7. list[k - 1].login \in Users
        BY <4>6 DEF Trail
      <4> HIDE DEF list
      <4>. QED
        BY <2>1, <2>2, <2>3, <2>7, <3>1, <4>2, <4>3, <4>5, <4>7
    <3>. QED
      BY <3>2, <3>3
  <2>. QED
    BY <2>6, <2>7
<1>3. ASSUME NEW r \in Reqs, req[r].pc = "apply", req[r].op.kind \in {"grant", "revoke"},
             WriteRole(req[r].op)
      PROVE  TrailExplains'
  BY <1>2, <1>3 DEF TrailExplains
<1>. QED
  BY <1>1, <1>3, RoleStep DEF RolesMove

\* However requests interleave and whichever entries are trimmed, the trail of
\* an installation explains the roles that are stored for it.
THEOREM TrailIsTruthful == Spec => []TrailExplains
<1>1. Init => TrailExplains
  BY DEF Init, TrailExplains
<1>. QED
  BY <1>1, AccessTypeCorrect, NextTrail, PTL DEF Spec

-----------------------------------------------------------------------------
(* Who is about to change something has the role for it *)

HeldBy(s) ==
    req[s].pc = "apply" /\ ~req[s].raced /\ ~req[s].ctx.admin =>
        /\ req[s].op.inst \in req[s].ctx.insts
        /\ roles[req[s].op.inst][req[s].ctx.login] # None
        /\ can(roles[req[s].op.inst][req[s].ctx.login], min_role[req[s].op.kind])

\* A request that does not get to the point of changing something in this step,
\* and when it is there keeps what it holds.
Unmoved(s) ==
    req'[s].pc = "apply" =>
        /\ req[s].pc = "apply" /\ req'[s].ctx = req[s].ctx /\ req'[s].op = req[s].op
        /\ req[s].raced => req'[s].raced

\* As long as roles do not change, those that are there go on having theirs.
LEMMA RoleFrame ==
  ASSUME NEW s \in Reqs, HeldBy(s), Unmoved(s), roles' = roles
  PROVE  HeldBy(s)'
  BY DEF HeldBy, Unmoved

\* A check that succeeds found the role.
LEMMA CheckedRole ==
  ASSUME AccessTypeOK, NEW r \in Reqs, NEW op \in Op, NEW found, req[r].pc = "authed",
         found \in {None, Explicit(req[r].ctx, op.inst)}, Decide(r, op, found), roles' = roles
  PROVE  HeldBy(r)'
<1> DEFINE q == req[r]
           n == [q EXCEPT !.pc = "apply", !.op = op]
<1>1. req \in [Reqs -> Request] /\ q \in Request /\ q.ctx \in Context
  BY DEF AccessTypeOK, RequestsTypeOK, Holds
<1>2. CASE req' = [req EXCEPT ![r] = Idle]
  BY <1>1, <1>2 DEF HeldBy, Idle
<1>3. CASE req' # [req EXCEPT ![r] = Idle]
  <2> DEFINE eff == effective_role(q.ctx, op.inst, found)
  <2>1. /\ eff # None /\ can(eff, min_role[op.kind])
        /\ op.kind # "read" /\ req' = [req EXCEPT ![r] = n]
    BY <1>1, <1>3 DEF Decide, Answered
  <2>2. CASE q.ctx.admin
    <3>1. req'[r].ctx = q.ctx
      BY <1>1, <2>1
    <3>. QED
      BY <2>2, <3>1 DEF HeldBy
  <2>3. CASE ~q.ctx.admin
    <3>1. op.inst \in q.ctx.insts /\ eff = (IF found = None THEN "viewer" ELSE found)
      BY <2>1, <2>3 DEF effective_role
    <3>2. ~can("viewer", min_role[op.kind])
      <4>1. op.kind \in {"requeue", "reset", "grant", "revoke"}
        BY <2>1 DEF Op
      <4>. QED
        BY <4>1 DEF can, rank, min_role
    <3>3. found # None
      BY <2>1, <3>1, <3>2
    <3>4. found = roles[op.inst][q.ctx.login]
      BY <3>3 DEF Explicit
    <3>5. req'[r].op = op /\ req'[r].ctx = q.ctx
      BY <1>1, <2>1
    <3> HIDE DEF q, n, eff
    <3>. QED
      BY <2>1, <3>1, <3>3, <3>4, <3>5 DEF HeldBy
  <2>. QED
    BY <2>2, <2>3
<1>. QED
  BY <1>2, <1>3

\* A role that is taken away is noticed by everybody who relies on it.
LEMMA RaceNoticed ==
  ASSUME AccessTypeOK, RoleHeld, NEW r \in Reqs, req[r].pc = "apply",
         req[r].op.kind \in {"grant", "revoke"}, WriteRole(req[r].op),
         NEW n, n.pc # "apply", req' = [Race(r, req[r].op) EXCEPT ![r] = n],
         NEW s \in Reqs
  PROVE  HeldBy(s)'
<1> DEFINE op == req[r].op
<1>1. /\ req \in [Reqs -> Request] /\ roles \in [Insts -> [Users -> Role \cup {None}]]
      /\ op.inst \in Insts /\ op.login \in Users
  BY DEF AccessTypeOK, RequestsTypeOK, StoresTypeOK, Holds, InBody, Op
<1>2. roles' = [roles EXCEPT ![op.inst][op.login] = op.role]
  BY DEF WriteRole
<1>3. CASE s = r
  BY <1>1, <1>3 DEF HeldBy, Race
<1>4. CASE s # r
  <2>1. req'[s] = Race(r, op)[s]
    BY <1>1, <1>4 DEF Race
  <2>2. CASE req[s].pc = "apply" /\ req[s].op.inst = op.inst /\ req[s].ctx.login = op.login
    <3>1. req'[s] = [req[s] EXCEPT !.raced = TRUE]
      BY <1>4, <2>1, <2>2 DEF Race
    <3>2. req'[s].raced
      BY <1>1, <3>1 DEF Request
    <3>. QED
      BY <3>2 DEF HeldBy
  <2>3. CASE ~(req[s].pc = "apply" /\ req[s].op.inst = op.inst /\ req[s].ctx.login = op.login)
    <3>1. req'[s] = req[s]
      BY <1>4, <2>1, <2>3 DEF Race
    <3>2. CASE req[s].pc = "apply"
      <4>1. req[s].op.inst \in Insts
        BY <3>2 DEF AccessTypeOK, RequestsTypeOK, Holds, InBody, Op
      <4>2. roles'[req[s].op.inst][req[s].ctx.login] = roles[req[s].op.inst][req[s].ctx.login]
        BY <1>1, <1>2, <2>3, <3>2, <4>1
      <4>. QED
        BY <3>1, <3>2, <4>2 DEF HeldBy, RoleHeld
    <3>3. CASE req[s].pc # "apply"
      BY <3>1, <3>3 DEF HeldBy
    <3>. QED
      BY <3>2, <3>3
  <2>. QED
    BY <2>2, <2>3
<1>. QED
  BY <1>3, <1>4

\* So every request that is about to change something goes on having the role.
LEMMA NextRoleHeld ==
  ASSUME AccessTypeOK, RoleHeld, [Next]_vars
  PROVE  \A s \in Reqs : HeldBy(s)'
<1> USE AskedAssumption DEF stores
<1>0. req \in [Reqs -> Request] /\ \A s \in Reqs : req[s] \in Request /\ HeldBy(s)
  BY DEF AccessTypeOK, RequestsTypeOK, RoleHeld, HeldBy
<1>1. ASSUME NEW r \in Reqs, NEW p \in Procs, NEW t \in Tokens, ArriveCached(r, p, t)
      PROVE  \A s \in Reqs : HeldBy(s)'
  <2>1. \A s \in Reqs : Unmoved(s)
    BY <1>0, <1>1 DEF ArriveCached, Unmoved, Idle, Begun
  <2>2. roles' = roles
    BY <1>1 DEF ArriveCached
  <2>. QED
    BY <1>0, <2>1, <2>2, RoleFrame
<1>2. ASSUME NEW r \in Reqs, NEW p \in Procs, NEW t \in Tokens, ArriveAdmin(r, p, t)
      PROVE  \A s \in Reqs : HeldBy(s)'
  <2>1. \A s \in Reqs : Unmoved(s)
    BY <1>0, <1>2 DEF ArriveAdmin, Unmoved, Idle, Begun
  <2>2. roles' = roles
    BY <1>2 DEF ArriveAdmin
  <2>. QED
    BY <1>0, <2>1, <2>2, RoleFrame
<1>3. ASSUME NEW r \in Reqs, NEW p \in Procs, NEW t \in Tokens, Arrive(r, p, t)
      PROVE  \A s \in Reqs : HeldBy(s)'
  <2>1. \A s \in Reqs : Unmoved(s)
    BY <1>0, <1>3 DEF Arrive, Unmoved, Idle, Begun
  <2>2. roles' = roles
    BY <1>3 DEF Arrive
  <2>. QED
    BY <1>0, <2>1, <2>2, RoleFrame
<1>4. ASSUME NEW r \in Reqs, GetUser(r) PROVE \A s \in Reqs : HeldBy(s)'
  <2>1. \A s \in Reqs : s = r \/ req'[s] = req[s]
    BY <1>0, <1>4 DEF GetUser, Answered
  <2>2. req'[r].pc # "apply"
    BY <1>0, <1>4 DEF GetUser, Answered, Idle, Request
  <2>3. roles' = roles
    BY <1>4 DEF GetUser
  <2>4. \A s \in Reqs : Unmoved(s)
    BY <1>0, <2>1, <2>2 DEF Unmoved
  <2>. QED
    BY <1>0, <2>3, <2>4, RoleFrame
<1>5. ASSUME NEW r \in Reqs, GetPage(r) PROVE \A s \in Reqs : HeldBy(s)'
  <2>1. \A s \in Reqs : Unmoved(s)
    <3>1. \A s \in Reqs \ {r} : req'[s] = req[s]
      BY <1>0, <1>5 DEF GetPage
    <3>2. req'[r].pc # "apply"
      BY <1>0, <1>5 DEF GetPage, Request
    <3>. QED
      BY <3>1, <3>2 DEF Unmoved
  <2>2. roles' = roles
    BY <1>5 DEF GetPage
  <2>. QED
    BY <1>0, <2>1, <2>2, RoleFrame
<1>6. ASSUME NEW r \in Reqs, PageRefused(r) PROVE \A s \in Reqs : HeldBy(s)'
  <2>1. \A s \in Reqs : Unmoved(s)
    BY <1>0, <1>6 DEF PageRefused, Unmoved, Idle
  <2>2. roles' = roles
    BY <1>6 DEF PageRefused
  <2>. QED
    BY <1>0, <2>1, <2>2, RoleFrame
<1>7. ASSUME NEW r \in Reqs, GithubUnreachable(r)
      PROVE  \A s \in Reqs : HeldBy(s)'
  <2>1. \A s \in Reqs : Unmoved(s)
    BY <1>0, <1>7 DEF GithubUnreachable, Unmoved, Idle, Answered
  <2>2. roles' = roles
    BY <1>7 DEF GithubUnreachable
  <2>. QED
    BY <1>0, <2>1, <2>2, RoleFrame
<1>8. ASSUME NEW r \in Reqs, Verified(r) PROVE \A s \in Reqs : HeldBy(s)'
  <2>1. \A s \in Reqs : Unmoved(s)
    BY <1>0, <1>8 DEF Verified, Unmoved, Idle
  <2>2. roles' = roles
    BY <1>8 DEF Verified
  <2>. QED
    BY <1>0, <2>1, <2>2, RoleFrame
<1>9. ASSUME NEW r \in Reqs, NEW op \in Asked, CheckRole(r, op)
      PROVE  \A s \in Reqs : HeldBy(s)'
  <2>1. roles' = roles
    BY <1>9 DEF CheckRole
  <2>2. HeldBy(r)'
    BY <1>9, <2>1, CheckedRole DEF CheckRole
  <2>3. \A s \in Reqs \ {r} : Unmoved(s)
    BY <1>0, <1>9 DEF CheckRole, Decide, Unmoved, Answered
  <2>. QED
    BY <1>0, <2>1, <2>2, <2>3, RoleFrame
<1>10. ASSUME NEW r \in Reqs, NEW op \in Asked, CheckRoleFails(r, op)
      PROVE  \A s \in Reqs : HeldBy(s)'
  <2>1. roles' = roles
    BY <1>10 DEF CheckRoleFails
  <2>2. HeldBy(r)'
    BY <1>10, <2>1, CheckedRole DEF CheckRoleFails
  <2>3. \A s \in Reqs \ {r} : Unmoved(s)
    BY <1>0, <1>10 DEF CheckRoleFails, Decide, Unmoved, Answered
  <2>. QED
    BY <1>0, <2>1, <2>2, <2>3, RoleFrame
<1>11. ASSUME NEW r \in Reqs, GrantRole(r) PROVE \A s \in Reqs : HeldBy(s)'
  <2> DEFINE n == [req[r] EXCEPT !.pc = "audit"]
  <2>1. WriteRole(req[r].op) /\ req[r].pc = "apply" /\ req[r].op.kind = "grant"
    BY <1>11 DEF GrantRole
  <2>2. req' = [Race(r, req[r].op) EXCEPT ![r] = n] /\ n.pc = "audit"
    BY <1>0, <1>11 DEF GrantRole, Race, Request
  <2> HIDE DEF n
  <2>. QED
    BY <2>1, <2>2, RaceNoticed
<1>12. ASSUME NEW r \in Reqs, RevokeRole(r) PROVE \A s \in Reqs : HeldBy(s)'
  <2> DEFINE n == [req[r] EXCEPT !.pc = "audit"]
             op == req[r].op
  <2>1. WriteRole(op) /\ req[r].pc = "apply" /\ op.kind = "revoke"
    BY <1>12 DEF RevokeRole
  <2>2. CASE roles[op.inst][op.login] # None
    <3>1. req' = [Race(r, op) EXCEPT ![r] = n] /\ n.pc = "audit"
      BY <1>0, <1>12, <2>2 DEF RevokeRole, Race, Request
    <3> HIDE DEF n
    <3>. QED
      BY <2>1, <3>1, RaceNoticed
  <2>3. CASE roles[op.inst][op.login] = None
    <3>1. req' = [req EXCEPT ![r] = Idle]
      BY <1>12, <2>3 DEF RevokeRole
    <3>2. op.role = None /\ op.inst \in Insts /\ op.login \in Users
      BY <2>1 DEF AccessTypeOK, RequestsTypeOK, Holds, InBody, Op
    <3>3. roles' = roles
      BY <2>1, <2>3, <3>2 DEF WriteRole, AccessTypeOK, StoresTypeOK
    <3>4. \A s \in Reqs : Unmoved(s)
      BY <1>0, <3>1 DEF Unmoved, Idle
    <3>. QED
      BY <1>0, <3>3, <3>4, RoleFrame
  <2>. QED
    BY <2>2, <2>3
<1>13. ASSUME NEW r \in Reqs, ResetOrRequeue(r) PROVE \A s \in Reqs : HeldBy(s)'
  <2>1. \A s \in Reqs : Unmoved(s)
    BY <1>0, <1>13 DEF ResetOrRequeue, Unmoved, Idle
  <2>2. roles' = roles
    BY <1>13 DEF ResetOrRequeue
  <2>. QED
    BY <1>0, <2>1, <2>2, RoleFrame
<1>14. ASSUME NEW r \in Reqs, NotInDlq(r) PROVE \A s \in Reqs : HeldBy(s)'
  <2>1. \A s \in Reqs : Unmoved(s)
    BY <1>0, <1>14 DEF NotInDlq, Unmoved, Idle, Answered
  <2>2. roles' = roles
    BY <1>14 DEF NotInDlq
  <2>. QED
    BY <1>0, <2>1, <2>2, RoleFrame
<1>15. ASSUME NEW r \in Reqs, ApplyFails(r) PROVE \A s \in Reqs : HeldBy(s)'
  <2>1. CASE roles' = roles /\ req' = [req EXCEPT ![r] = Idle]
    <3>1. \A s \in Reqs : Unmoved(s)
      BY <1>0, <2>1 DEF Unmoved, Idle
    <3>. QED
      BY <1>0, <2>1, <3>1, RoleFrame
  <2>2. CASE /\ WriteRole(req[r].op) /\ req[r].op.kind \in {"grant", "revoke"}
             /\ req' = [Race(r, req[r].op) EXCEPT ![r] = Idle]
    <3>1. Idle.pc # "apply" /\ req[r].pc = "apply"
      BY <1>15 DEF Idle, ApplyFails
    <3>. QED
      BY <2>2, <3>1, RaceNoticed
  <2>. QED
    BY <1>15, <2>1, <2>2 DEF ApplyFails, Answered
<1>16. ASSUME NEW r \in Reqs, audit_log(r) PROVE \A s \in Reqs : HeldBy(s)'
  <2>1. \A s \in Reqs : Unmoved(s)
    BY <1>0, <1>16 DEF audit_log, Unmoved, Idle, Answered
  <2>2. roles' = roles
    BY <1>16 DEF audit_log
  <2>. QED
    BY <1>0, <2>1, <2>2, RoleFrame
<1>17. ASSUME NEW r \in Reqs, AuditFails(r) PROVE \A s \in Reqs : HeldBy(s)'
  <2>1. \A s \in Reqs : Unmoved(s)
    BY <1>0, <1>17 DEF AuditFails, Unmoved, Idle, Answered
  <2>2. roles' = roles
    BY <1>17 DEF AuditFails
  <2>. QED
    BY <1>0, <2>1, <2>2, RoleFrame
<1>18. ASSUME NEW i \in Insts \cup {None}, JobCreated(i)
      PROVE  \A s \in Reqs : HeldBy(s)'
  <2>1. \A s \in Reqs : Unmoved(s)
    BY <1>0, <1>18 DEF JobCreated, Unmoved, Idle
  <2>2. roles' = roles
    BY <1>18 DEF JobCreated
  <2>. QED
    BY <1>0, <2>1, <2>2, RoleFrame
<1>19. ASSUME NEW u \in Users, NEW i \in Insts, AccessLost(u, i)
      PROVE  \A s \in Reqs : HeldBy(s)'
  <2>1. \A s \in Reqs : Unmoved(s)
    BY <1>0, <1>19 DEF AccessLost, Unmoved, Idle
  <2>2. roles' = roles
    BY <1>19 DEF AccessLost
  <2>. QED
    BY <1>0, <2>1, <2>2, RoleFrame
<1>20. ASSUME NEW u \in Users, NEW i \in Insts, AccessGained(u, i)
      PROVE  \A s \in Reqs : HeldBy(s)'
  <2>1. \A s \in Reqs : Unmoved(s)
    BY <1>0, <1>20 DEF AccessGained, Unmoved, Idle
  <2>2. roles' = roles
    BY <1>20 DEF AccessGained
  <2>. QED
    BY <1>0, <2>1, <2>2, RoleFrame
<1>21. ASSUME NEW t \in Tokens, TokenRevoked(t) PROVE \A s \in Reqs : HeldBy(s)'
  <2>1. \A s \in Reqs : Unmoved(s)
    BY <1>0, <1>21 DEF TokenRevoked, Unmoved, Idle
  <2>2. roles' = roles
    BY <1>21 DEF TokenRevoked
  <2>. QED
    BY <1>0, <2>1, <2>2, RoleFrame
<1>22. ASSUME NEW p \in Procs, Restart(p) PROVE \A s \in Reqs : HeldBy(s)'
  <2>1. \A s \in Reqs : Unmoved(s)
    BY <1>0, <1>22 DEF Restart, Unmoved, Idle
  <2>2. roles' = roles
    BY <1>22 DEF Restart
  <2>. QED
    BY <1>0, <2>1, <2>2, RoleFrame
<1>23. CASE Tick
  <2>1. \A s \in Reqs : Unmoved(s)
    BY <1>0, <1>23 DEF Tick, Unmoved, Idle, Request
  <2>2. roles' = roles
    BY <1>23 DEF Tick
  <2>. QED
    BY <1>0, <2>1, <2>2, RoleFrame
<1>24. CASE UNCHANGED vars
  <2>1. roles' = roles /\ \A s \in Reqs : Unmoved(s)
    BY <1>24 DEF vars, Unmoved
  <2>. QED
    BY <1>0, <2>1, RoleFrame
<1>. QED
  BY <1>1, <1>2, <1>3, <1>4, <1>5, <1>6, <1>7, <1>8, <1>9, <1>10, <1>11, <1>12,
     <1>13, <1>14, <1>15, <1>16, <1>17, <1>18, <1>19, <1>20, <1>21, <1>22,
     <1>23, <1>24
     DEF Next, Environment, NewRequest, ReqStep

\* Roles are not cached: who is about to change something in an installation is
\* a member and has the role for it, or it was taken away after the check.
THEOREM RoleIsHeld == Spec => []RoleHeld
<1>1. Init => RoleHeld
  BY DEF Init, RoleHeld, Idle
<1>2. AccessTypeOK /\ RoleHeld /\ [Next]_vars => RoleHeld'
  BY NextRoleHeld DEF RoleHeld, HeldBy
<1>. QED
  BY <1>1, <1>2, AccessTypeCorrect, PTL DEF Spec

-----------------------------------------------------------------------------
(* Access ends in time *)

\* The token was valid, and the installations were its owner's, at most n ticks
\* ago.
FreshFor(t, insts, n) ==
    /\ t \notin valid => dead[t] <= n
    /\ \A i \in insts \ access[Owner[t]] : lost[Owner[t]][i] <= n

CacheEnds(p, t) ==
    cache[p][t].ttl >= 0 /\ t \notin AdminTokens =>
        FreshFor(t, cache[p][t].ctx.insts, TTL - cache[p][t].ttl + Slack)

ReqEnds(r) ==
    req[r].token \notin AdminTokens =>
        /\ req[r].pc \in {"page", "put"} => FreshFor(req[r].token, req[r].ctx.insts, req[r].age)
        /\ req[r].pc \in {"authed"} \cup InBody =>
             FreshFor(req[r].token, req[r].ctx.insts, TTL + Slack + req[r].age)

EndsInv ==
    /\ \A p \in Procs, t \in Tokens : CacheEnds(p, t)
    /\ \A r \in Reqs : ReqEnds(r)

\* What is fresh stays so, as long as the clock does not tick.
Kept ==
    \A t \in Tokens \ AdminTokens, insts \in SUBSET Insts, n \in Nat :
        FreshFor(t, insts, n) => FreshFor(t, insts, n)'

\* A request that learns nothing, and one that has nothing to lose.
SameSnapshot(s) ==
    /\ req'[s].pc \in {"page", "put"} \cup {"authed"} \cup InBody =>
         /\ req'[s].token = req[s].token /\ req'[s].age = req[s].age
         /\ req'[s].ctx = req[s].ctx
    /\ req'[s].pc \in {"page", "put"} => req[s].pc \in {"page", "put"}
    /\ req'[s].pc \in {"authed"} \cup InBody => req[s].pc \in {"authed"} \cup InBody

SameCache == \A p \in Procs, t \in Tokens :
    cache'[p][t] = cache[p][t] \/ cache'[p][t] = NoEntry

\* A bound that holds goes on holding when it is raised.
LEMMA Later ==
  ASSUME AccessTypeOK, NEW t \in Tokens \ AdminTokens, NEW insts \in SUBSET Insts,
         NEW n \in Nat, NEW m \in Nat, n <= m, FreshFor(t, insts, n)
  PROVE  FreshFor(t, insts, m)
<1>1. dead[t] \in Nat /\ Owner[t] \in Users
  BY AccessAssumptions, Sizes DEF AccessTypeOK, WorldTypeOK
<1>2. \A i \in Insts : lost[Owner[t]][i] \in Nat
  BY <1>1, Sizes DEF AccessTypeOK, WorldTypeOK
<1>. QED
  BY <1>1, <1>2 DEF FreshFor

\* What an entry and a request hold is of the right kind.
LEMMA Snapshots ==
  ASSUME AccessTypeOK
  PROVE  /\ \A p \in Procs, t \in Tokens : cache[p][t].ttl >= 0 =>
              /\ cache[p][t].ctx.insts \in SUBSET Insts
              /\ TTL - cache[p][t].ttl + Slack \in Nat
              /\ TTL - cache[p][t].ttl + Slack <= TTL + Slack
         /\ \A r \in Reqs : req[r].pc \in {"page", "put"} \cup {"authed"} \cup InBody =>
              /\ req[r].token \in Tokens /\ req[r].ctx.insts \in SUBSET Insts
              /\ req[r].ctx.login = Owner[req[r].token]
         /\ \A r \in Reqs : req[r].age \in Nat /\ req[r].age <= Slack
<1>1. ASSUME NEW p \in Procs, NEW t \in Tokens, cache[p][t].ttl >= 0
      PROVE  /\ cache[p][t].ctx.insts \in SUBSET Insts
             /\ TTL - cache[p][t].ttl + Slack \in Nat
             /\ TTL - cache[p][t].ttl + Slack <= TTL + Slack
  <2>1. cache[p][t].ctx \in Context /\ cache[p][t].ttl \in -2..TTL
    BY <1>1 DEF AccessTypeOK, CacheTypeOK
  <2>. QED
    BY <1>1, <2>1, Sizes DEF Context
<1>2. ASSUME NEW r \in Reqs, req[r].pc \in {"page", "put"} \cup {"authed"} \cup InBody
      PROVE  /\ req[r].token \in Tokens /\ req[r].ctx.insts \in SUBSET Insts
             /\ req[r].ctx.login = Owner[req[r].token]
  BY <1>2 DEF AccessTypeOK, RequestsTypeOK, Holds, Context, InBody
<1>3. ASSUME NEW r \in Reqs PROVE req[r].age \in Nat /\ req[r].age <= Slack
  BY Sizes DEF AccessTypeOK, RequestsTypeOK, Request
<1>. QED
  BY <1>1, <1>2, <1>3

\* Who changes a role marks those it overtakes and goes on itself, or is answered.
LEMMA Overtakes ==
  ASSUME AccessTypeOK, NEW r \in Reqs, GrantRole(r) \/ RevokeRole(r), NEW s \in Reqs
  PROVE  \/ req'[s] = Idle
         \/ /\ req'[s].pc = req[s].pc \/ (req[s].pc = "apply" /\ req'[s].pc = "audit")
            /\ req'[s].token = req[s].token /\ req'[s].age = req[s].age
            /\ req'[s].ctx = req[s].ctx /\ req'[s].page = req[s].page
<1> DEFINE q == req[s]
           raced == [q EXCEPT !.raced = TRUE]
<1>1. req \in [Reqs -> Request] /\ q \in Request /\ req[r].pc = "apply"
  BY DEF AccessTypeOK, RequestsTypeOK, GrantRole, RevokeRole
<1>2. raced \in Request /\ raced.pc = q.pc /\ raced.token = q.token /\ raced.age = q.age
      /\ raced.ctx = q.ctx /\ raced.page = q.page
  BY <1>1 DEF Request
<1>3. Race(r, req[r].op)[s] = q \/ Race(r, req[r].op)[s] = raced
  BY DEF Race
<1>4. CASE s # r
  <2>1. req'[s] = q \/ req'[s] = raced
    <3>1. req'[s] = q \/ req'[s] = Race(r, req[r].op)[s]
      BY <1>1, <1>4 DEF GrantRole, RevokeRole, Race
    <3>. QED
      BY <1>3, <3>1
  <2>2. CASE req'[s] = q
    BY <2>2
  <2>3. CASE req'[s] = raced
    BY <1>2, <2>3
  <2>. QED
    BY <2>1, <2>2, <2>3
<1>5. CASE s = r
  <2>1. req'[s] = Idle \/ req'[s] = [q EXCEPT !.pc = "audit"]
    BY <1>1, <1>5 DEF GrantRole, RevokeRole, Race
  <2>. QED
    BY <1>1, <1>5, <2>1 DEF Request
<1>. QED
  BY <1>4, <1>5

\* Nothing happens at GitHub.
LEMMA GithubFrame == ASSUME UNCHANGED github PROVE Kept
  BY DEF Kept, FreshFor, github

\* Who learns nothing is as fresh as before.
LEMMA EndsFrame ==
  ASSUME AccessTypeOK, EndsInv, Kept
  PROVE  /\ \A s \in Reqs : SameSnapshot(s) => ReqEnds(s)'
         /\ SameCache => \A p \in Procs, t \in Tokens : CacheEnds(p, t)'
<1>1. ASSUME NEW s \in Reqs, SameSnapshot(s) PROVE ReqEnds(s)'
  <2> DEFINE q == req[s]
  <2>1. CASE req'[s].pc \in {"page", "put"} /\ req'[s].token \notin AdminTokens
    <3>1. q.pc \in {"page", "put"} /\ req'[s].token = q.token
          /\ req'[s].age = q.age /\ req'[s].ctx = q.ctx
      BY <1>1, <2>1 DEF SameSnapshot
    <3>2. /\ q.token \in Tokens \ AdminTokens /\ q.ctx.insts \in SUBSET Insts /\ q.age \in Nat
          /\ FreshFor(q.token, q.ctx.insts, q.age)
      BY <2>1, <3>1, Snapshots DEF EndsInv, ReqEnds
    <3>3. PICK t \in Tokens \ AdminTokens, insts \in SUBSET Insts, n \in Nat :
            t = q.token /\ insts = q.ctx.insts /\ n = q.age /\ FreshFor(t, insts, n)
      BY <3>2
    <3>4. FreshFor(t, insts, n)'
      BY <3>3 DEF Kept
    <3>. QED
      BY <2>1, <3>1, <3>3, <3>4 DEF ReqEnds, FreshFor, InBody
  <2>2. CASE req'[s].pc \in {"authed"} \cup InBody /\ req'[s].token \notin AdminTokens
    <3>1. q.pc \in {"authed"} \cup InBody /\ req'[s].token = q.token
          /\ req'[s].age = q.age /\ req'[s].ctx = q.ctx
      BY <1>1, <2>2 DEF SameSnapshot
    <3>2. /\ q.token \in Tokens \ AdminTokens /\ q.ctx.insts \in SUBSET Insts
          /\ TTL + Slack + q.age \in Nat
          /\ FreshFor(q.token, q.ctx.insts, TTL + Slack + q.age)
      BY <2>2, <3>1, Snapshots, Sizes DEF EndsInv, ReqEnds
    <3>3. PICK t \in Tokens \ AdminTokens, insts \in SUBSET Insts, n \in Nat :
            /\ t = q.token /\ insts = q.ctx.insts /\ n = TTL + Slack + q.age
            /\ FreshFor(t, insts, n)
      BY <3>2
    <3>4. FreshFor(t, insts, n)'
      BY <3>3 DEF Kept
    <3>. QED
      BY <2>2, <3>1, <3>3, <3>4 DEF ReqEnds, FreshFor, InBody
  <2>. QED
    BY <2>1, <2>2 DEF ReqEnds
<1>2. ASSUME SameCache, NEW p \in Procs, NEW t \in Tokens PROVE CacheEnds(p, t)'
  <2>1. CASE cache'[p][t] = NoEntry
    BY <2>1 DEF CacheEnds, NoEntry
  <2>2. CASE cache'[p][t] = cache[p][t] /\ cache[p][t].ttl >= 0 /\ t \notin AdminTokens
    <3>1. PICK insts \in SUBSET Insts, n \in Nat :
            /\ insts = cache[p][t].ctx.insts /\ n = TTL - cache[p][t].ttl + Slack
            /\ FreshFor(t, insts, n)
      BY <2>2, Snapshots DEF EndsInv, CacheEnds
    <3>2. FreshFor(t, insts, n)'
      BY <2>2, <3>1 DEF Kept
    <3>. QED
      BY <2>2, <3>1, <3>2 DEF CacheEnds, FreshFor
  <2>. QED
    BY <1>2, <2>1, <2>2 DEF SameCache, CacheEnds
<1>. QED
  BY <1>1, <1>2

\* Who learns something learns it from GitHub or from an entry that is fresh.
LEMMA NextEnds ==
  ASSUME AccessTypeOK, EndsInv, [Next]_vars
  PROVE  EndsInv'
<1>0. /\ req \in [Reqs -> Request] /\ \A s \in Reqs : req[s] \in Request /\ Holds(req[s])
      /\ cache \in [Procs -> [Tokens -> [ctx : Context \cup {NoContext}, ttl : -2..TTL]]]
      /\ access \in [Users -> SUBSET Insts] /\ valid \subseteq Tokens
      /\ lost \in [Users -> [Insts -> 0..(Bound + 1)]] /\ dead \in [Tokens -> 0..(Bound + 1)]
      /\ \A t \in Tokens \ AdminTokens : Owner[t] \in Users
      /\ TTL \in Nat /\ Slack \in Nat
  BY AccessAssumptions, Sizes DEF AccessTypeOK, RequestsTypeOK, CacheTypeOK, WorldTypeOK
<1>1. ASSUME NEW r \in Reqs, NEW p \in Procs, NEW t \in Tokens, ArriveCached(r, p, t)
      PROVE  EndsInv'
  <2>1. Kept
    BY <1>1, GithubFrame DEF ArriveCached
  <2>2. \A s \in Reqs \ {r} : SameSnapshot(s)
    BY <1>0, <1>1 DEF ArriveCached, SameSnapshot, Begun, Answered
  <2>3. ReqEnds(r)'
    <3> DEFINE e == cache[p][t]
    <3>1. /\ req'[r].pc = "authed" /\ req'[r].token = t /\ req'[r].ctx = e.ctx /\ req'[r].age = 0
          /\ e.ttl >= 0
      BY <1>0, <1>1 DEF ArriveCached, Begun, Idle, Hit
    <3>2. CASE t \notin AdminTokens
      <4>1. /\ e.ctx.insts \in SUBSET Insts /\ TTL - e.ttl + Slack \in Nat
            /\ TTL - e.ttl + Slack <= TTL + Slack
        BY <3>1, Snapshots
      <4>2. FreshFor(t, e.ctx.insts, TTL - e.ttl + Slack)
        BY <3>1, <3>2 DEF EndsInv, CacheEnds
      <4>3. FreshFor(t, e.ctx.insts, TTL + Slack)
        BY <3>2, <4>1, <4>2, Later, Sizes
      <4>4. TTL + Slack + 0 = TTL + Slack
        BY Sizes
      <4>5. UNCHANGED github
        BY <1>1 DEF ArriveCached
      <4>. QED
        BY <3>1, <4>3, <4>4, <4>5 DEF ReqEnds, FreshFor, InBody, github
    <3>. QED
      BY <3>1, <3>2 DEF ReqEnds
  <2>4. SameCache
    BY <1>0, <1>1 DEF ArriveCached, SameCache
  <2>. QED
    BY <2>1, <2>2, <2>3, <2>4, EndsFrame DEF EndsInv
<1>2. ASSUME NEW r \in Reqs, NEW p \in Procs, NEW t \in Tokens, ArriveAdmin(r, p, t)
      PROVE  EndsInv'
  <2> DEFINE c == [login |-> t, insts |-> {}, admin |-> TRUE]
  <2>1. Kept /\ CacheTypeOK
    BY <1>2, GithubFrame DEF ArriveAdmin, AccessTypeOK
  <2>2. \A s \in Reqs \ {r} : SameSnapshot(s)
    BY <1>0, <1>2 DEF ArriveAdmin, SameSnapshot
  <2>3. ReqEnds(r)'
    BY <1>0, <1>2 DEF ArriveAdmin, Begun, Idle, ReqEnds
  <2>4. c \in Context /\ CachePut(p, t, c) /\ t \in AdminTokens
    BY <1>2, AccessAssumptions DEF ArriveAdmin, Context, Logins
  <2> HIDE DEF c
  <2>5. \A k \in Procs, j \in Tokens :
          \/ cache'[k][j] = cache[k][j]
          \/ cache'[k][j] = NoEntry
          \/ k = p /\ j = t /\ cache'[k][j] = [ctx |-> c, ttl |-> TTL]
    BY <2>1, <2>4, CachePutFacts
  <2>6. ASSUME NEW k \in Procs, NEW j \in Tokens PROVE CacheEnds(k, j)'
    <3>1. CASE cache'[k][j] = cache[k][j] \/ cache'[k][j] = NoEntry
      <4>1. UNCHANGED github
        BY <1>2 DEF ArriveAdmin
      <4>. QED
        BY <3>1, <4>1 DEF EndsInv, CacheEnds, FreshFor, github, NoEntry
    <3>2. CASE j = t
      BY <2>4, <3>2 DEF CacheEnds
    <3>. QED
      BY <2>5, <3>1, <3>2
  <2>. QED
    BY <2>1, <2>2, <2>3, <2>6, EndsFrame DEF EndsInv
<1>3. ASSUME NEW r \in Reqs, NEW p \in Procs, NEW t \in Tokens, Arrive(r, p, t)
      PROVE  EndsInv'
  <2>1. Kept
    BY <1>3, GithubFrame DEF Arrive
  <2>2. \A s \in Reqs \ {r} : SameSnapshot(s)
    BY <1>0, <1>3 DEF Arrive, SameSnapshot, Begun, Answered
  <2>3. ReqEnds(r)'
    BY <1>0, <1>3 DEF Arrive, Begun, Idle, ReqEnds, InBody
  <2>4. SameCache
    BY <1>0, <1>3 DEF Arrive, SameCache
  <2>. QED
    BY <2>1, <2>2, <2>3, <2>4, EndsFrame DEF EndsInv
<1>4. ASSUME NEW r \in Reqs, GetUser(r) PROVE EndsInv'
  <2>1. Kept
    BY <1>4, GithubFrame DEF GetUser
  <2>2. \A s \in Reqs \ {r} : SameSnapshot(s)
    BY <1>0, <1>4 DEF GetUser, SameSnapshot, Begun, Answered
  <2>3. ReqEnds(r)'
    <3>1. CASE req'[r] = Idle
      BY <3>1 DEF ReqEnds, Idle, InBody
    <3>2. CASE req[r].token \in valid
      <4>1. /\ req'[r].pc = "page" /\ req'[r].token = req[r].token /\ req'[r].ctx.insts = {}
            /\ valid' = valid
        BY <1>0, <1>4, <3>2 DEF GetUser, Request, github
      <4>. QED
        BY <3>2, <4>1 DEF ReqEnds, FreshFor, InBody
    <3>. QED
      BY <1>0, <1>4, <3>1, <3>2 DEF GetUser, Answered
  <2>4. SameCache
    BY <1>0, <1>4 DEF GetUser, SameCache
  <2>. QED
    BY <2>1, <2>2, <2>3, <2>4, EndsFrame DEF EndsInv
<1>5. ASSUME NEW r \in Reqs, GetPage(r) PROVE EndsInv'
  <2>1. Kept
    BY <1>5, GithubFrame DEF GetPage
  <2>2. \A s \in Reqs \ {r} : SameSnapshot(s)
    BY <1>0, <1>5 DEF GetPage, SameSnapshot, Begun, Answered
  <2>3. ReqEnds(r)'
    <3> DEFINE q == req[r]
               got == Listed(q.ctx.login, q.page)
    <3>1. /\ q.token \in valid /\ valid' = valid /\ access' = access /\ lost' = lost
          /\ q.pc = "page"
      BY <1>5 DEF GetPage, github
    <3>2. /\ req'[r].pc \in {"page", "put"} /\ req'[r].token = q.token /\ req'[r].age = q.age
          /\ req'[r].ctx.insts = q.ctx.insts \cup got
      <4> HIDE DEF got
      <4>1. q \in Request /\ q.ctx \in Context
        BY <1>0, <3>1 DEF AccessTypeOK, RequestsTypeOK, Holds
      <4>. QED
        BY <1>0, <1>5, <4>1 DEF GetPage, Request, Context, got
    <3>3. got \subseteq access[Owner[q.token]]
      BY <3>1, Snapshots DEF Listed
    <3>4. q.token \notin AdminTokens => FreshFor(q.token, q.ctx.insts, q.age)
      BY <3>1 DEF EndsInv, ReqEnds
    <3> HIDE DEF q, got
    <3>. QED
      BY <3>1, <3>2, <3>3, <3>4 DEF ReqEnds, FreshFor, InBody
  <2>4. SameCache
    BY <1>0, <1>5 DEF GetPage, SameCache
  <2>. QED
    BY <2>1, <2>2, <2>3, <2>4, EndsFrame DEF EndsInv
<1>6. ASSUME NEW r \in Reqs, PageRefused(r) PROVE EndsInv'
  <2>1. Kept
    BY <1>6, GithubFrame DEF PageRefused
  <2>2. \A s \in Reqs : SameSnapshot(s)
    BY <1>0, <1>6 DEF PageRefused, SameSnapshot, Idle, InBody, Verifying
  <2>3. SameCache
    BY <1>6 DEF PageRefused, SameCache
  <2>. QED
    BY <2>1, <2>2, <2>3, EndsFrame DEF EndsInv
<1>7. ASSUME NEW r \in Reqs, GithubUnreachable(r) PROVE EndsInv'
  <2>1. Kept
    BY <1>7, GithubFrame DEF GithubUnreachable
  <2>2. \A s \in Reqs : SameSnapshot(s)
    BY <1>0, <1>7 DEF GithubUnreachable, SameSnapshot, Idle, InBody, Verifying, Answered
  <2>3. SameCache
    BY <1>7 DEF GithubUnreachable, SameCache
  <2>. QED
    BY <2>1, <2>2, <2>3, EndsFrame DEF EndsInv
<1>8. ASSUME NEW r \in Reqs, Verified(r) PROVE EndsInv'
  <2> DEFINE q == req[r]
  <2>1. Kept /\ CacheTypeOK /\ UNCHANGED github
    BY <1>8, GithubFrame DEF Verified, AccessTypeOK
  <2>2. \A s \in Reqs \ {r} : SameSnapshot(s)
    BY <1>0, <1>8 DEF Verified, SameSnapshot
  <2>3. /\ q.pc = "put" /\ q.proc \in Procs /\ q.token \in Tokens /\ q.ctx \in Context
        /\ q.ctx.insts \in SUBSET Insts /\ q.age \in Nat /\ q.age <= Slack
        /\ CachePut(q.proc, q.token, q.ctx)
    BY <1>0, <1>8, Snapshots DEF Verified, Holds
  <2>4. q.token \notin AdminTokens => FreshFor(q.token, q.ctx.insts, q.age)
    BY <2>3 DEF EndsInv, ReqEnds
  <2>5. ReqEnds(r)'
    <3>1. /\ req'[r].pc = "authed" /\ req'[r].token = q.token /\ req'[r].ctx = q.ctx
          /\ req'[r].age = q.age
      BY <1>0, <1>8 DEF Verified, Request
    <3>2. q.age <= TTL + Slack + q.age /\ TTL + Slack + q.age \in Nat
      BY <2>3, Sizes
    <3>3. q.token \notin AdminTokens => FreshFor(q.token, q.ctx.insts, TTL + Slack + q.age)
      <4> HIDE DEF q
      <4>. QED  BY <2>3, <2>4, <3>2, Later
    <3> HIDE DEF q
    <3>. QED
      BY <2>1, <3>1, <3>3 DEF ReqEnds, FreshFor, InBody, github
  <2>6. ASSUME NEW k \in Procs, NEW j \in Tokens PROVE CacheEnds(k, j)'
    <3>1. CASE cache'[k][j] = cache[k][j] \/ cache'[k][j] = NoEntry
      BY <2>1, <3>1 DEF EndsInv, CacheEnds, FreshFor, github, NoEntry
    <3>2. CASE j = q.token /\ cache'[k][j] = [ctx |-> q.ctx, ttl |-> TTL] /\ j \notin AdminTokens
      <4>1. TTL - TTL + Slack = Slack /\ Slack \in Nat
        BY Sizes
      <4>2. FreshFor(q.token, q.ctx.insts, Slack)
        <5> HIDE DEF q
        <5>. QED  BY <2>3, <2>4, <3>2, <4>1, Later
      <4> HIDE DEF q
      <4>. QED
        BY <2>1, <3>2, <4>1, <4>2 DEF CacheEnds, FreshFor, github
    <3>3. CASE j \in AdminTokens
      BY <3>3 DEF CacheEnds
    <3> HIDE DEF q
    <3>. QED
      BY <2>1, <2>3, <3>1, <3>2, <3>3, CachePutFacts
  <2>. QED
    BY <2>1, <2>2, <2>5, <2>6, EndsFrame DEF EndsInv
<1>9. ASSUME NEW r \in Reqs, NEW op \in Asked, CheckRole(r, op) PROVE EndsInv'
  <2>1. Kept
    BY <1>9, GithubFrame DEF CheckRole
  <2>2. \A s \in Reqs \ {r} : SameSnapshot(s)
    BY <1>0, <1>9 DEF CheckRole, SameSnapshot, Decide, Answered
  <2>3. SameSnapshot(r)
    BY <1>0, <1>9 DEF CheckRole, SameSnapshot, Decide, Answered, Idle, InBody, Request
  <2>4. SameCache
    BY <1>9 DEF CheckRole, SameCache
  <2>. QED
    BY <2>1, <2>2, <2>3, <2>4, EndsFrame DEF EndsInv
<1>10. ASSUME NEW r \in Reqs, NEW op \in Asked, CheckRoleFails(r, op)
      PROVE  EndsInv'
  <2>1. Kept
    BY <1>10, GithubFrame DEF CheckRoleFails
  <2>2. \A s \in Reqs \ {r} : SameSnapshot(s)
    BY <1>0, <1>10 DEF CheckRoleFails, SameSnapshot, Decide, Answered
  <2>3. SameSnapshot(r)
    BY <1>0, <1>10 DEF CheckRoleFails, SameSnapshot, Decide, Answered, Idle, InBody, Request
  <2>4. SameCache
    BY <1>10 DEF CheckRoleFails, SameCache
  <2>. QED
    BY <2>1, <2>2, <2>3, <2>4, EndsFrame DEF EndsInv
<1>11. ASSUME NEW r \in Reqs, GrantRole(r) PROVE EndsInv'
  <2>1. Kept
    BY <1>11, GithubFrame DEF GrantRole
  <2>2. \A s \in Reqs : SameSnapshot(s)
    BY <1>11, Overtakes DEF SameSnapshot, Idle, InBody
  <2>3. SameCache
    BY <1>11 DEF GrantRole, SameCache
  <2>. QED
    BY <2>1, <2>2, <2>3, EndsFrame DEF EndsInv
<1>12. ASSUME NEW r \in Reqs, RevokeRole(r) PROVE EndsInv'
  <2>1. Kept
    BY <1>12, GithubFrame DEF RevokeRole
  <2>2. \A s \in Reqs : SameSnapshot(s)
    BY <1>12, Overtakes DEF SameSnapshot, Idle, InBody
  <2>3. SameCache
    BY <1>12 DEF RevokeRole, SameCache
  <2>. QED
    BY <2>1, <2>2, <2>3, EndsFrame DEF EndsInv
<1>13. ASSUME NEW r \in Reqs, ResetOrRequeue(r) PROVE EndsInv'
  <2>1. Kept
    BY <1>13, GithubFrame DEF ResetOrRequeue
  <2>2. \A s \in Reqs : SameSnapshot(s)
    BY <1>0, <1>13 DEF ResetOrRequeue, SameSnapshot, Idle, InBody, Verifying
  <2>3. SameCache
    BY <1>13 DEF ResetOrRequeue, SameCache
  <2>. QED
    BY <2>1, <2>2, <2>3, EndsFrame DEF EndsInv
<1>14. ASSUME NEW r \in Reqs, NotInDlq(r) PROVE EndsInv'
  <2>1. Kept
    BY <1>14, GithubFrame DEF NotInDlq
  <2>2. \A s \in Reqs : SameSnapshot(s)
    BY <1>0, <1>14 DEF NotInDlq, SameSnapshot, Idle, InBody, Verifying, Answered
  <2>3. SameCache
    BY <1>14 DEF NotInDlq, SameCache
  <2>. QED
    BY <2>1, <2>2, <2>3, EndsFrame DEF EndsInv
<1>15. ASSUME NEW r \in Reqs, ApplyFails(r) PROVE EndsInv'
  <2>1. Kept
    BY <1>15, GithubFrame DEF ApplyFails
  <2>2. \A s \in Reqs \ {r} : SameSnapshot(s)
    <3>1. \A s \in Reqs \ {r} : req'[s] = req[s] \/ req'[s] = Race(r, req[r].op)[s]
      BY <1>0, <1>15 DEF ApplyFails, Answered, Race
    <3>2. ASSUME NEW s \in Reqs \ {r}
          PROVE  /\ req'[s].pc = req[s].pc /\ req'[s].token = req[s].token
                 /\ req'[s].age = req[s].age /\ req'[s].ctx = req[s].ctx
      <4>1. req[s] \in Request
        BY <1>0
      <4>2. CASE req'[s] = req[s]
        BY <4>2
      <4>3. CASE req'[s] = [req[s] EXCEPT !.raced = TRUE]
        BY <4>1, <4>3 DEF Request
      <4>. QED
        BY <3>1, <4>2, <4>3 DEF Race
    <3>. QED
      BY <3>2 DEF SameSnapshot
  <2>3. SameSnapshot(r)
    BY <1>0, <1>15 DEF ApplyFails, SameSnapshot, Answered, Race, Idle, InBody, Verifying
  <2>4. SameCache
    BY <1>15 DEF ApplyFails, SameCache
  <2>. QED
    BY <2>1, <2>2, <2>3, <2>4, EndsFrame DEF EndsInv
<1>16. ASSUME NEW r \in Reqs, audit_log(r) PROVE EndsInv'
  <2>1. Kept
    BY <1>16, GithubFrame DEF audit_log
  <2>2. \A s \in Reqs : SameSnapshot(s)
    BY <1>0, <1>16 DEF audit_log, SameSnapshot, Idle, InBody, Verifying, Answered
  <2>3. SameCache
    BY <1>16 DEF audit_log, SameCache
  <2>. QED
    BY <2>1, <2>2, <2>3, EndsFrame DEF EndsInv
<1>17. ASSUME NEW r \in Reqs, AuditFails(r) PROVE EndsInv'
  <2>1. Kept
    BY <1>17, GithubFrame DEF AuditFails
  <2>2. \A s \in Reqs : SameSnapshot(s)
    BY <1>0, <1>17 DEF AuditFails, SameSnapshot, Idle, InBody, Verifying, Answered
  <2>3. SameCache
    BY <1>17 DEF AuditFails, SameCache
  <2>. QED
    BY <2>1, <2>2, <2>3, EndsFrame DEF EndsInv
<1>18. ASSUME NEW i \in Insts \cup {None}, JobCreated(i) PROVE EndsInv'
  <2>1. Kept
    BY <1>18, GithubFrame DEF JobCreated
  <2>2. \A s \in Reqs : SameSnapshot(s)
    BY <1>0, <1>18 DEF JobCreated, SameSnapshot, Idle, InBody, Verifying
  <2>3. SameCache
    BY <1>18 DEF JobCreated, SameCache
  <2>. QED
    BY <2>1, <2>2, <2>3, EndsFrame DEF EndsInv
<1>19. ASSUME NEW u \in Users, NEW i \in Insts, AccessLost(u, i) PROVE EndsInv'
  <2>1. Kept
    BY <1>0, <1>19 DEF AccessLost, Kept, FreshFor
  <2>2. \A s \in Reqs : SameSnapshot(s)
    BY <1>19 DEF AccessLost, SameSnapshot
  <2>3. SameCache
    BY <1>19 DEF AccessLost, SameCache
  <2>. QED
    BY <2>1, <2>2, <2>3, EndsFrame DEF EndsInv
<1>20. ASSUME NEW u \in Users, NEW i \in Insts, AccessGained(u, i)
      PROVE  EndsInv'
  <2>1. Kept
    BY <1>0, <1>20 DEF AccessGained, Kept, FreshFor
  <2>2. \A s \in Reqs : SameSnapshot(s)
    BY <1>20 DEF AccessGained, SameSnapshot
  <2>3. SameCache
    BY <1>20 DEF AccessGained, SameCache
  <2>. QED
    BY <2>1, <2>2, <2>3, EndsFrame DEF EndsInv
<1>21. ASSUME NEW t \in Tokens, TokenRevoked(t) PROVE EndsInv'
  <2>1. Kept
    BY <1>0, <1>21 DEF TokenRevoked, Kept, FreshFor
  <2>2. \A s \in Reqs : SameSnapshot(s)
    BY <1>21 DEF TokenRevoked, SameSnapshot
  <2>3. SameCache
    BY <1>21 DEF TokenRevoked, SameCache
  <2>. QED
    BY <2>1, <2>2, <2>3, EndsFrame DEF EndsInv
<1>22. ASSUME NEW p \in Procs, Restart(p) PROVE EndsInv'
  <2>1. Kept
    BY <1>22, GithubFrame DEF Restart
  <2>2. \A s \in Reqs : SameSnapshot(s)
    BY <1>22 DEF Restart, SameSnapshot, Idle, InBody
  <2>3. SameCache
    BY <1>0, <1>22 DEF Restart, SameCache
  <2>. QED
    BY <2>1, <2>2, <2>3, EndsFrame DEF EndsInv
<1>23. CASE Tick
  <2>1. ASSUME NEW t \in Tokens \ AdminTokens, NEW insts \in SUBSET Insts, NEW n \in Nat,
               FreshFor(t, insts, n)
        PROVE  FreshFor(t, insts, n + 1)'
    <3>1. /\ valid' = valid /\ access' = access
          /\ dead' = [k \in Tokens |-> Older(dead[k])]
          /\ lost' = [u \in Users |-> [i \in Insts |-> Older(lost[u][i])]]
      BY <1>23 DEF Tick
    <3>2. Owner[t] \in Users /\ dead[t] \in Nat /\ \A i \in Insts : lost[Owner[t]][i] \in Nat
      BY AccessAssumptions, Sizes DEF AccessTypeOK, WorldTypeOK
    <3>3. \A x, m \in Nat : x <= m => Older(x) <= m + 1
      BY DEF Older
    <3>4. \A i \in Insts : lost'[Owner[t]][i] = Older(lost[Owner[t]][i])
      BY <3>1, <3>2
    <3>5. dead'[t] = Older(dead[t])
      BY <3>1
    <3>. QED
      BY <2>1, <3>1, <3>2, <3>3, <3>4, <3>5 DEF FreshFor
  <2>2. ASSUME NEW p \in Procs, NEW t \in Tokens PROVE CacheEnds(p, t)'
    <3> DEFINE e == cache[p][t]
    <3>1. cache'[p][t] = IF e.ttl = 0 THEN Expired
                         ELSE [e EXCEPT !.ttl = IF @ > 0 THEN @ - 1 ELSE @]
      BY <1>23 DEF Tick
    <3>2. CASE e.ttl > 0 /\ t \notin AdminTokens
      <4>1. cache'[p][t].ttl = e.ttl - 1 /\ cache'[p][t].ctx = e.ctx
        BY <1>0, <3>1, <3>2
      <4>2. /\ e.ctx.insts \in SUBSET Insts /\ TTL - e.ttl + Slack \in Nat /\ e.ttl >= 0
            /\ e.ttl \in Int
        BY <1>0, <3>2, Snapshots
      <4>3. PICK insts \in SUBSET Insts, n \in Nat :
              insts = e.ctx.insts /\ n = TTL - e.ttl + Slack /\ FreshFor(t, insts, n)
        BY <3>2, <4>2 DEF EndsInv, CacheEnds
      <4>4. FreshFor(t, insts, n + 1)'
        BY <2>1, <3>2, <4>3
      <4>5. n + 1 = TTL - (e.ttl - 1) + Slack
        BY <4>2, <4>3, Sizes
      <4>. QED
        BY <4>1, <4>3, <4>4, <4>5 DEF CacheEnds, FreshFor
    <3>3. CASE e.ttl = 0
      BY <3>1, <3>3 DEF CacheEnds, Expired
    <3>4. CASE e.ttl < 0
      <4>1. cache'[p][t].ttl = e.ttl /\ e.ttl \in Int
        BY <1>0, <3>1, <3>4
      <4>. QED
        BY <3>4, <4>1 DEF CacheEnds
    <3>. QED
      BY <1>0, <3>2, <3>3, <3>4 DEF CacheEnds
  <2>3. ASSUME NEW r \in Reqs PROVE ReqEnds(r)'
    <3> DEFINE q == req[r]
    <3>1. CASE q.pc = "idle"
      BY <1>23, <3>1 DEF Tick, ReqEnds, Idle, InBody
    <3>2. CASE q.pc # "idle" /\ q.token \notin AdminTokens
      <4>1. /\ req'[r].pc = q.pc /\ req'[r].token = q.token /\ req'[r].ctx = q.ctx
            /\ req'[r].age = q.age + 1
        BY <1>0, <1>23, <3>2 DEF Tick, Request
      <4>2. q.age \in Nat
        BY Snapshots
      <4>3. CASE q.pc \in {"page", "put"}
        <5>1. PICK t \in Tokens \ AdminTokens, insts \in SUBSET Insts, n \in Nat :
                t = q.token /\ insts = q.ctx.insts /\ n = q.age /\ FreshFor(t, insts, n)
          BY <3>2, <4>2, <4>3, Snapshots DEF EndsInv, ReqEnds
        <5>2. FreshFor(t, insts, n + 1)'
          BY <2>1, <5>1
        <5>. QED
          BY <4>1, <4>3, <5>1, <5>2 DEF ReqEnds, FreshFor, InBody
      <4>4. CASE q.pc \in {"authed"} \cup InBody
        <5>1. /\ q.token \in Tokens \ AdminTokens /\ q.ctx.insts \in SUBSET Insts
              /\ TTL + Slack + q.age \in Nat
          BY <3>2, <4>2, <4>4, Snapshots, Sizes
        <5>2. PICK t \in Tokens \ AdminTokens, insts \in SUBSET Insts, n \in Nat :
                /\ t = q.token /\ insts = q.ctx.insts /\ n = TTL + Slack + q.age
                /\ FreshFor(t, insts, n)
          BY <3>2, <4>4, <5>1 DEF EndsInv, ReqEnds
        <5>3. FreshFor(t, insts, n + 1)'
          BY <2>1, <5>2
        <5>4. n + 1 = TTL + Slack + (q.age + 1)
          BY <4>2, <5>2, Sizes
        <5>. QED
          BY <4>1, <4>4, <5>2, <5>3, <5>4 DEF ReqEnds, FreshFor, InBody
      <4>5. CASE q.pc = "user"
        BY <4>1, <4>5 DEF ReqEnds, InBody
      <4>. QED
        BY <1>0, <3>2, <4>3, <4>4, <4>5 DEF Request, Verifying, InBody
    <3>3. CASE q.pc # "idle" /\ q.token \in AdminTokens
      <4>1. req'[r].token = q.token
        BY <1>0, <1>23, <3>3 DEF Tick, Request
      <4>. QED
        BY <3>3, <4>1 DEF ReqEnds
    <3>. QED
      BY <3>1, <3>2, <3>3
  <2>. QED
    BY <2>2, <2>3 DEF EndsInv
<1>24. CASE UNCHANGED vars
  <2>1. Kept
    BY <1>24, GithubFrame DEF vars, github
  <2>2. \A s \in Reqs : SameSnapshot(s)
    BY <1>24 DEF vars, SameSnapshot
  <2>3. SameCache
    BY <1>24 DEF vars, SameCache
  <2>. QED
    BY <2>1, <2>2, <2>3, EndsFrame DEF EndsInv
<1>. QED
  BY <1>1, <1>2, <1>3, <1>4, <1>5, <1>6, <1>7, <1>8, <1>9, <1>10, <1>11, <1>12,
     <1>13, <1>14, <1>15, <1>16, <1>17, <1>18, <1>19, <1>20, <1>21, <1>22,
     <1>23, <1>24
     DEF Next, Environment, NewRequest, ReqStep

\* Access ends in time, whatever is cached where and however long requests take:
\* what a request may see was still granted to it at most Bound ticks ago.
THEOREM AccessEndsInTime == Spec => []AccessEnds
<1>1. Init => EndsInv
  BY Sizes DEF Init, EndsInv, CacheEnds, ReqEnds, NoEntry, Idle, InBody
<1>2. AccessTypeOK /\ EndsInv => AccessEnds
  <2> SUFFICES ASSUME AccessTypeOK, EndsInv, NEW r \in Reqs,
                      req[r].pc \in {"authed"} \cup InBody, req[r].token \notin AdminTokens
               PROVE  /\ req[r].token \notin valid => dead[req[r].token] <= Bound
                      /\ \A i \in req[r].ctx.insts \ access[req[r].ctx.login] :
                           lost[req[r].ctx.login][i] <= Bound
    BY DEF AccessEnds
  <2>1. /\ req[r].token \in Tokens \ AdminTokens /\ req[r].ctx.insts \in SUBSET Insts
        /\ req[r].ctx.login = Owner[req[r].token] /\ TTL + Slack + req[r].age \in Nat
        /\ TTL + Slack + req[r].age <= Bound
    BY Snapshots, Sizes DEF Bound
  <2>2. FreshFor(req[r].token, req[r].ctx.insts, TTL + Slack + req[r].age)
    BY DEF EndsInv, ReqEnds
  <2>3. FreshFor(req[r].token, req[r].ctx.insts, Bound)
    BY <2>1, <2>2, Later, Sizes
  <2>. QED
    BY <2>1, <2>3 DEF FreshFor
<1>. QED
  BY <1>1, <1>2, AccessTypeCorrect, NextEnds, PTL DEF Spec

-----------------------------------------------------------------------------
(* Members are served *)

\* The place of an installation in a user's listing.
Position(u, i) == Cardinality({j \in access[u] : j <= i})

\* The first n pages of the listing, and all of it that the loop may read.
HasPages(u, insts, n) == \A i \in access[u] : Position(u, i) <= n * PageSize => i \in insts
HasAll(u, insts) ==
    Cardinality(access[u]) <= PageSize * MaxPages => access[u] \subseteq insts

\* The listing was read to its end, unless it changed or was cut short at most
\* n ticks ago.
CompleteFor(t, insts, n) == upset[Owner[t]] <= n \/ HasAll(Owner[t], insts)

CacheServes(p, t) ==
    cache[p][t].ttl >= 0 /\ t \notin AdminTokens =>
        CompleteFor(t, cache[p][t].ctx.insts, TTL - cache[p][t].ttl + Slack)

ReqServes(r) ==
    req[r].token \notin AdminTokens =>
        /\ req[r].pc = "page" =>
             /\ req[r].page \in 1..MaxPages
             /\ \/ upset[Owner[req[r].token]] <= req[r].age
                \/ HasPages(Owner[req[r].token], req[r].ctx.insts, req[r].page - 1)
        /\ req[r].pc = "put" => CompleteFor(req[r].token, req[r].ctx.insts, req[r].age)
        /\ req[r].pc \in {"authed"} \cup InBody =>
             CompleteFor(req[r].token, req[r].ctx.insts, TTL + Slack + req[r].age)

ServesInv ==
    /\ \A p \in Procs, t \in Tokens : CacheServes(p, t)
    /\ \A r \in Reqs : ReqServes(r)

\* An installation is further down the list than another if its number is
\* higher.
LEMMA Ordered ==
  ASSUME AccessTypeOK, NEW u \in Users
  PROVE  /\ IsFiniteSet(access[u]) /\ Cardinality(access[u]) \in Nat
         /\ \A i \in access[u] : Position(u, i) \in 1..Cardinality(access[u])
         /\ \A i, j \in access[u] : i < j => Position(u, i) < Position(u, j)
<1>1. access[u] \subseteq Nat /\ IsFiniteSet(access[u])
  BY AccessAssumptions, FS_Subset DEF AccessTypeOK, WorldTypeOK
<1>2. Cardinality(access[u]) \in Nat
  BY <1>1, FS_CardinalityType
<1> DEFINE Below(i) == {j \in access[u] : j <= i}
<1>3. ASSUME NEW i \in access[u]
      PROVE  /\ IsFiniteSet(Below(i)) /\ i \in Below(i)
             /\ Cardinality(Below(i)) \in 1..Cardinality(access[u])
  <2>1. i \in Below(i) /\ Below(i) \in SUBSET access[u]
    BY <1>1
  <2>2. IsFiniteSet(Below(i)) /\ Cardinality(Below(i)) <= Cardinality(access[u])
    BY <1>1, <2>1, FS_Subset
  <2>3. Cardinality(Below(i)) \in Nat /\ Cardinality(Below(i)) # 0
    BY <2>1, <2>2, FS_CardinalityType, FS_EmptySet
  <2>. QED
    BY <1>2, <2>1, <2>2, <2>3
<1>4. ASSUME NEW i \in access[u], NEW j \in access[u], i < j
      PROVE  Cardinality(Below(i)) < Cardinality(Below(j))
  <2>1. Below(i) \in SUBSET Below(j) /\ Below(i) # Below(j)
    BY <1>1, <1>4
  <2>2. Cardinality(Below(i)) <= Cardinality(Below(j)) /\ Cardinality(Below(i)) # Cardinality(Below(j))
    <3> HIDE DEF Below
    <3>. QED  BY <1>3, <2>1, FS_Subset
  <2>. QED
    BY <1>3, <2>2
<1>. QED
  BY <1>1, <1>2, <1>3, <1>4 DEF Position

\* Every place of the list is taken.
LEMMA NoGaps ==
  ASSUME AccessTypeOK, NEW u \in Users, NEW n \in 1..Cardinality(access[u])
  PROVE  \E i \in access[u] : Position(u, i) = n
<1> DEFINE all == 1..Cardinality(access[u])
           position == [i \in access[u] |-> Position(u, i)]
<1>1. access[u] \subseteq Nat
  BY AccessAssumptions DEF AccessTypeOK, WorldTypeOK
<1>2. position \in [access[u] -> all]
  BY Ordered
<1>3. \A i, j \in access[u] : position[i] = position[j] => i = j
  BY <1>1, Ordered
<1>4. position \in Injection(access[u], all)
  BY <1>2, <1>3 DEF Injection, IsInjective
<1>5. IsFiniteSet(all) /\ Cardinality(all) = Cardinality(access[u])
  BY Ordered, FS_Interval
<1>6. position \in Surjection(access[u], all)
  <2> HIDE DEF position, all
  <2>. QED  BY <1>4, <1>5, FS_Injection
<1>. QED
  BY <1>6 DEF Surjection

\* A page that is not full is the last one of the list.
LEMMA ShortPage ==
  ASSUME AccessTypeOK, NEW u \in Users, NEW page \in Nat \ {0},
         Cardinality(Listed(u, page)) < PageSize
  PROVE  Cardinality(access[u]) < page * PageSize
<1> DEFINE first == (page - 1) * PageSize + 1
           final == page * PageSize
           got == Listed(u, page)
           position == [i \in got |-> Position(u, i)]
<1>1. PageSize \in Nat \ {0}
  BY Sizes
<1>2. first \in Nat \ {0} /\ final \in Nat /\ final - first + 1 = PageSize
  <2>1. first \in Nat \ {0} /\ final \in Nat
    BY <1>1
  <2>2. page * PageSize = (page - 1) * PageSize + PageSize
    BY <1>1
  <2>. QED
    BY <1>1, <2>1, <2>2
<1>3. got = {i \in access[u] : Position(u, i) \in first..final}
  BY DEF Listed, Position
<1>4. IsFiniteSet(got) /\ Cardinality(got) \in Nat
  BY <1>3, Ordered, FS_Subset, FS_CardinalityType
<1> HIDE DEF first, final, got
<1>5. ASSUME Cardinality(access[u]) >= final
      PROVE  FALSE
  <2>1. position \in [got -> first..final]
    BY <1>3
  <2>2. \A n \in first..final : \E i \in got : position[i] = n
    <3>1. \A n \in first..final : n \in 1..Cardinality(access[u])
      BY <1>2, <1>5, Ordered
    <3>. QED
      BY <1>3, <3>1, NoGaps
  <2>3. position \in Surjection(got, first..final)
    BY <2>1, <2>2 DEF Surjection
  <2>4. Cardinality(first..final) <= Cardinality(got)
    <3> HIDE DEF position
    <3>. QED  BY <1>4, <2>3, FS_Surjection
  <2>5. Cardinality(first..final) = PageSize
    BY <1>1, <1>2, FS_Interval
  <2>. QED
    BY <1>1, <1>4, <2>4, <2>5 DEF got
<1>. QED
  BY <1>2, <1>5, Ordered DEF final

\* A turn of the loop adds a page, and the turn that ends it has them all.
LEMMA TurnOfLoop ==
  ASSUME AccessTypeOK, NEW u \in Users, NEW page \in 1..MaxPages, NEW insts \in SUBSET Insts,
         HasPages(u, insts, page - 1)
  PROVE  /\ HasPages(u, insts \cup Listed(u, page), page)
         /\ Cardinality(Listed(u, page)) < PageSize \/ page + 1 > MaxPages
              => HasAll(u, insts \cup Listed(u, page))
<1>1. PageSize \in Nat \ {0} /\ MaxPages \in Nat \ {0} /\ page \in Nat \ {0}
  BY Sizes
<1>2. \A i \in access[u] : Position(u, i) \in Nat /\ Position(u, i) <= Cardinality(access[u])
  BY Ordered
<1>3. Cardinality(access[u]) \in Nat
  BY Ordered
<1>4. HasPages(u, insts \cup Listed(u, page), page)
  <2> SUFFICES ASSUME NEW i \in access[u], Position(u, i) <= page * PageSize, i \notin insts
               PROVE  i \in Listed(u, page)
    BY DEF HasPages
  <2>1. ~(Position(u, i) <= (page - 1) * PageSize)
    BY DEF HasPages
  <2>2. (page - 1) * PageSize \in Nat /\ page * PageSize \in Nat
    BY <1>1
  <2>3. Position(u, i) \in ((page - 1) * PageSize + 1)..(page * PageSize)
    BY <1>2, <2>1, <2>2
  <2>. QED
    BY <2>3 DEF Listed, Position
<1>5. page * PageSize \in Nat
  BY <1>1
<1>6. ASSUME Cardinality(access[u]) <= page * PageSize
      PROVE  access[u] \subseteq insts \cup Listed(u, page)
  BY <1>2, <1>3, <1>4, <1>5, <1>6 DEF HasPages
<1>7. CASE Cardinality(Listed(u, page)) < PageSize
  <2>1. Cardinality(access[u]) < page * PageSize
    BY <1>1, <1>7, ShortPage
  <2>. QED
    BY <1>3, <1>4, <1>5, <1>6, <2>1 DEF HasAll
<1>8. CASE page + 1 > MaxPages
  <2>1. page = MaxPages
    BY <1>1, <1>8
  <2>2. PageSize * MaxPages = page * PageSize
    BY <1>1, <2>1
  <2>. QED
    BY <1>4, <1>6, <2>2 DEF HasAll
<1>. QED
  BY <1>4, <1>7, <1>8

\* A listing that a step touches is upset by it.
Undisturbed == \A u \in Users :
    upset'[u] = 0 \/ (upset'[u] = upset[u] /\ access'[u] = access[u])

\* A request that learns nothing.
SameListing(s) ==
    /\ req'[s].pc \in {"page", "put", "authed"} \cup InBody =>
         req'[s].token = req[s].token /\ req'[s].age = req[s].age /\ req'[s].ctx = req[s].ctx
    /\ req'[s].pc = "page" => req[s].pc = "page" /\ req'[s].page = req[s].page
    /\ req'[s].pc = "put" => req[s].pc = "put"
    /\ req'[s].pc \in {"authed"} \cup InBody => req[s].pc \in {"authed"} \cup InBody

\* No request and no entry is more complete than before.
Quiet == Undisturbed /\ SameCache /\ \A s \in Reqs : SameListing(s)

\* Who has the whole list of a moment ago goes on having it.
LEMMA StillComplete ==
  ASSUME AccessTypeOK, Undisturbed, NEW t \in Tokens \ AdminTokens, NEW insts \in SUBSET Insts,
         NEW n \in Nat
  PROVE  /\ CompleteFor(t, insts, n) => CompleteFor(t, insts, n)'
         /\ \A m \in Nat : upset[Owner[t]] <= n \/ HasPages(Owner[t], insts, m)
                => upset'[Owner[t]] <= n \/ HasPages(Owner[t], insts, m)'
<1>1. Owner[t] \in Users
  BY AccessAssumptions
<1>2. CASE upset'[Owner[t]] = 0
  BY <1>2 DEF CompleteFor
<1>3. CASE upset'[Owner[t]] = upset[Owner[t]] /\ access'[Owner[t]] = access[Owner[t]]
  BY <1>3 DEF CompleteFor, HasAll, HasPages, Position
<1>. QED
  BY <1>1, <1>2, <1>3 DEF Undisturbed

\* And has it for any longer time.
LEMMA CompleteLater ==
  ASSUME AccessTypeOK, NEW t \in Tokens \ AdminTokens, NEW insts \in SUBSET Insts,
         NEW n \in Nat, NEW m \in Nat, n <= m, CompleteFor(t, insts, n)
  PROVE  CompleteFor(t, insts, m)
<1>1. Owner[t] \in Users /\ upset[Owner[t]] \in Nat
  BY AccessAssumptions, Sizes DEF AccessTypeOK, WorldTypeOK
<1>. QED
  BY <1>1 DEF CompleteFor

\* Who learns nothing is served as before.
LEMMA ServesFrame ==
  ASSUME AccessTypeOK, ServesInv, Undisturbed
  PROVE  /\ \A s \in Reqs : SameListing(s) => ReqServes(s)'
         /\ SameCache => \A p \in Procs, t \in Tokens : CacheServes(p, t)'
<1>1. ASSUME NEW s \in Reqs, SameListing(s), req'[s].token \notin AdminTokens
      PROVE  ReqServes(s)'
  <2> DEFINE q == req[s]
  <2>1. CASE req'[s].pc = "page"
    <3>1. /\ q.pc = "page" /\ req'[s].token = q.token /\ req'[s].page = q.page
          /\ req'[s].age = q.age /\ req'[s].ctx = q.ctx
      BY <1>1, <2>1 DEF SameListing
    <3>2. /\ q.page \in 1..MaxPages /\ q.page - 1 \in Nat
          /\ q.token \in Tokens \ AdminTokens /\ q.ctx.insts \in SUBSET Insts /\ q.age \in Nat
      BY <1>1, <3>1, Snapshots, Sizes DEF ServesInv, ReqServes
    <3>3. PICK t \in Tokens \ AdminTokens, insts \in SUBSET Insts, n \in Nat, m \in Nat :
            /\ t = q.token /\ insts = q.ctx.insts /\ n = q.age /\ m = q.page - 1
            /\ upset[Owner[t]] <= n \/ HasPages(Owner[t], insts, m)
      BY <1>1, <3>1, <3>2 DEF ServesInv, ReqServes
    <3>4. upset'[Owner[t]] <= n \/ HasPages(Owner[t], insts, m)'
      BY <3>3, StillComplete
    <3>. QED
      BY <2>1, <3>1, <3>2, <3>3, <3>4 DEF ReqServes, HasPages, Position, InBody
  <2>2. CASE req'[s].pc \in {"put", "authed"} \cup InBody
    <3> DEFINE d == IF q.pc = "put" THEN q.age ELSE TTL + Slack + q.age
    <3>1. /\ q.pc \in {"put", "authed"} \cup InBody /\ req'[s].token = q.token
          /\ req'[s].age = q.age /\ req'[s].ctx = q.ctx
          /\ req'[s].pc = "put" <=> q.pc = "put"
      BY <1>1, <2>2 DEF SameListing, InBody
    <3>2. /\ q.token \in Tokens \ AdminTokens /\ q.ctx.insts \in SUBSET Insts /\ d \in Nat
          /\ CompleteFor(q.token, q.ctx.insts, d)
      BY <1>1, <3>1, Snapshots, Sizes DEF ServesInv, ReqServes, InBody
    <3>3. PICK t \in Tokens \ AdminTokens, insts \in SUBSET Insts, n \in Nat :
            t = q.token /\ insts = q.ctx.insts /\ n = d /\ CompleteFor(t, insts, n)
      BY <3>2
    <3>4. CompleteFor(t, insts, n)'
      BY <3>3, StillComplete
    <3>. QED
      BY <2>2, <3>1, <3>3, <3>4 DEF ReqServes, CompleteFor, HasAll, InBody
  <2>. QED
    BY <2>1, <2>2 DEF ReqServes
<1>2. ASSUME SameCache, NEW p \in Procs, NEW t \in Tokens PROVE CacheServes(p, t)'
  <2>1. CASE cache'[p][t] = NoEntry
    BY <2>1 DEF CacheServes, NoEntry
  <2>2. CASE cache'[p][t] = cache[p][t] /\ cache[p][t].ttl >= 0 /\ t \notin AdminTokens
    <3>1. PICK insts \in SUBSET Insts, n \in Nat :
            /\ insts = cache[p][t].ctx.insts /\ n = TTL - cache[p][t].ttl + Slack
            /\ CompleteFor(t, insts, n)
      BY <2>2, Snapshots DEF ServesInv, CacheServes
    <3>2. CompleteFor(t, insts, n)'
      BY <2>2, <3>1, StillComplete
    <3>. QED
      BY <2>2, <3>1, <3>2 DEF CacheServes, CompleteFor, HasAll
  <2>. QED
    BY <1>2, <2>1, <2>2 DEF SameCache, CacheServes
<1>. QED
  BY <1>1, <1>2 DEF ReqServes

\* Who learns something learns it from GitHub, page by page, or from an entry.
LEMMA NextServes ==
  ASSUME AccessTypeOK, ServesInv, [Next]_vars
  PROVE  ServesInv'
<1>0. /\ req \in [Reqs -> Request] /\ \A s \in Reqs : req[s] \in Request /\ Holds(req[s])
      /\ cache \in [Procs -> [Tokens -> [ctx : Context \cup {NoContext}, ttl : -2..TTL]]]
      /\ access \in [Users -> SUBSET Insts] /\ upset \in [Users -> 0..(Bound + 1)]
      /\ \A t \in Tokens \ AdminTokens : Owner[t] \in Users
      /\ TTL \in Nat /\ Slack \in Nat
  BY AccessAssumptions, Sizes DEF AccessTypeOK, RequestsTypeOK, CacheTypeOK, WorldTypeOK
<1>q. ASSUME Quiet PROVE ServesInv'
  BY <1>q, ServesFrame DEF Quiet, ServesInv
<1>1. ASSUME NEW r \in Reqs, NEW p \in Procs, NEW t \in Tokens, ArriveCached(r, p, t)
      PROVE  ServesInv'
  <2>1. Undisturbed /\ access' = access /\ upset' = upset
    BY <1>1 DEF ArriveCached, Undisturbed, github
  <2>2. \A s \in Reqs \ {r} : SameListing(s)
    BY <1>0, <1>1 DEF ArriveCached, SameListing
  <2>3. ReqServes(r)'
    <3> DEFINE e == cache[p][t]
    <3>1. /\ req'[r].pc = "authed" /\ req'[r].token = t /\ req'[r].ctx = e.ctx /\ req'[r].age = 0
          /\ e.ttl >= 0
      BY <1>0, <1>1 DEF ArriveCached, Begun, Idle, Hit
    <3>2. CASE t \notin AdminTokens
      <4>1. /\ e.ctx.insts \in SUBSET Insts /\ TTL - e.ttl + Slack \in Nat
            /\ TTL - e.ttl + Slack <= TTL + Slack
        BY <3>1, Snapshots
      <4>2. CompleteFor(t, e.ctx.insts, TTL - e.ttl + Slack)
        BY <3>1, <3>2 DEF ServesInv, CacheServes
      <4>3. CompleteFor(t, e.ctx.insts, TTL + Slack)
        BY <3>2, <4>1, <4>2, CompleteLater, Sizes
      <4>4. TTL + Slack + 0 = TTL + Slack
        BY Sizes
      <4>. QED
        BY <2>1, <3>1, <4>3, <4>4 DEF ReqServes, CompleteFor, HasAll, InBody
    <3>. QED
      BY <3>1, <3>2 DEF ReqServes
  <2>4. SameCache
    BY <1>0, <1>1 DEF ArriveCached, SameCache
  <2>. QED
    BY <2>1, <2>2, <2>3, <2>4, ServesFrame DEF ServesInv
<1>2. ASSUME NEW r \in Reqs, NEW p \in Procs, NEW t \in Tokens, ArriveAdmin(r, p, t)
      PROVE  ServesInv'
  <2> DEFINE c == [login |-> t, insts |-> {}, admin |-> TRUE]
  <2>1. Undisturbed /\ CacheTypeOK /\ access' = access /\ upset' = upset
    BY <1>2 DEF ArriveAdmin, AccessTypeOK, Undisturbed, github
  <2>2. \A s \in Reqs \ {r} : SameListing(s)
    BY <1>0, <1>2 DEF ArriveAdmin, SameListing
  <2>3. ReqServes(r)'
    BY <1>0, <1>2 DEF ArriveAdmin, Begun, Idle, ReqServes
  <2>4. c \in Context /\ CachePut(p, t, c) /\ t \in AdminTokens
    BY <1>2, AccessAssumptions DEF ArriveAdmin, Context, Logins
  <2> HIDE DEF c
  <2>5. \A k \in Procs, j \in Tokens :
          \/ cache'[k][j] = cache[k][j]
          \/ cache'[k][j] = NoEntry
          \/ k = p /\ j = t /\ cache'[k][j] = [ctx |-> c, ttl |-> TTL]
    BY <2>1, <2>4, CachePutFacts
  <2>6. ASSUME NEW k \in Procs, NEW j \in Tokens PROVE CacheServes(k, j)'
    <3>1. CASE cache'[k][j] = cache[k][j] \/ cache'[k][j] = NoEntry
      BY <2>1, <3>1 DEF ServesInv, CacheServes, CompleteFor, HasAll, NoEntry
    <3>2. CASE j = t
      BY <2>4, <3>2 DEF CacheServes
    <3>. QED
      BY <2>5, <3>1, <3>2
  <2>. QED
    BY <2>1, <2>2, <2>3, <2>6, ServesFrame DEF ServesInv
<1>3. ASSUME NEW r \in Reqs, NEW p \in Procs, NEW t \in Tokens, Arrive(r, p, t)
      PROVE  ServesInv'
  <2>1. Undisturbed
    BY <1>3 DEF Arrive, Undisturbed, github
  <2>2. \A s \in Reqs : SameListing(s)
    BY <1>0, <1>3 DEF Arrive, SameListing, Begun, Idle, InBody
  <2>3. SameCache
    BY <1>0, <1>3 DEF Arrive, SameCache
  <2>. QED
    BY <1>q, <2>1, <2>2, <2>3 DEF Quiet
<1>4. ASSUME NEW r \in Reqs, GetUser(r) PROVE ServesInv'
  <2>1. Undisturbed
    BY <1>4 DEF GetUser, Undisturbed, github
  <2>2. \A s \in Reqs \ {r} : SameListing(s)
    BY <1>0, <1>4 DEF GetUser, SameListing, Answered
  <2>3. ReqServes(r)'
    <3>1. CASE req'[r] = Idle
      BY <3>1 DEF ReqServes, Idle, InBody
    <3>2. CASE req[r].token \in valid
      <4>1. /\ req'[r].pc = "page" /\ req'[r].token = req[r].token /\ req'[r].ctx.insts = {}
            /\ req'[r].page = 1 /\ access' = access
            /\ req[r].token \in Tokens \ AdminTokens
        BY <1>0, <1>4, <3>2 DEF GetUser, Request, Holds, Verifying, github
      <4>2. \A i \in access[Owner[req[r].token]] : ~(Position(Owner[req[r].token], i) <= 0)
        BY <1>0, <4>1, Ordered
      <4>3. 0 * PageSize = 0 /\ 1 \in 1..MaxPages /\ 1 - 1 = 0
        BY Sizes
      <4>4. HasPages(Owner[req[r].token], {}, 0)
        BY <4>2, <4>3 DEF HasPages
      <4>. QED
        BY <4>1, <4>3, <4>4 DEF ReqServes, HasPages, Position, InBody
    <3>. QED
      BY <1>0, <1>4, <3>1, <3>2 DEF GetUser, Answered
  <2>4. SameCache
    BY <1>0, <1>4 DEF GetUser, SameCache
  <2>. QED
    BY <2>1, <2>2, <2>3, <2>4, ServesFrame DEF ServesInv
<1>5. ASSUME NEW r \in Reqs, GetPage(r) PROVE ServesInv'
  <2>1. Undisturbed /\ access' = access /\ upset' = upset
    BY <1>5 DEF GetPage, Undisturbed, github
  <2>2. \A s \in Reqs \ {r} : SameListing(s)
    BY <1>0, <1>5 DEF GetPage, SameListing
  <2>3. ASSUME req[r].token \notin AdminTokens PROVE ReqServes(r)'
    <3> DEFINE q == req[r]
               u == Owner[q.token]
               got == Listed(u, q.page)
               last == Cardinality(got) < PageSize \/ q.page + 1 > MaxPages
    <3>1. /\ q.pc = "page" /\ u \in Users /\ q.ctx.login = u /\ q.ctx.insts \in SUBSET Insts
          /\ q \in Request /\ q.ctx \in Context
      BY <1>0, <1>5, <2>3, Snapshots DEF GetPage, Holds
    <3>2. q.page \in 1..MaxPages /\ (upset[u] <= q.age \/ HasPages(u, q.ctx.insts, q.page - 1))
      BY <2>3, <3>1 DEF ServesInv, ReqServes
    <3>3. /\ req'[r].token = q.token /\ req'[r].age = q.age
          /\ req'[r].ctx.insts = q.ctx.insts \cup got
          /\ req'[r].page = IF last THEN q.page ELSE q.page + 1
          /\ req'[r].pc = IF last THEN "put" ELSE "page"
      <4> HIDE DEF got
      <4>. QED  BY <1>0, <1>5, <3>1 DEF GetPage, Request, Context, got
    <3>4. \/ upset[u] <= q.age
          \/ /\ HasPages(u, q.ctx.insts \cup got, q.page)
             /\ last => HasAll(u, q.ctx.insts \cup got)
      BY <3>1, <3>2, TurnOfLoop
    <3>5. q.page + 1 - 1 = q.page /\ (~last => q.page + 1 \in 1..MaxPages)
      BY <3>2, Sizes
    <3>6. PICK v \in Users, all \in SUBSET Insts, n \in Nat :
            /\ v = u /\ all = q.ctx.insts \cup got /\ n = q.page
            /\ upset[v] <= q.age \/ (HasPages(v, all, n) /\ (last => HasAll(v, all)))
      <4>1. got \in SUBSET Insts /\ q.page \in Nat
        BY <1>0, <3>1, <3>2, Sizes DEF Listed
      <4> DEFINE whole == q.ctx.insts \cup got
      <4>2. whole \in SUBSET Insts
        <5> HIDE DEF q, got
        <5>. QED  BY <3>1, <4>1
      <4>3. upset[u] <= q.age \/ (HasPages(u, whole, q.page) /\ (last => HasAll(u, whole)))
        <5> HIDE DEF q, u, got, last
        <5>. QED  BY <3>4
      <4> HIDE DEF q, u, got, last, whole
      <4>. QED  BY <3>1, <4>1, <4>2, <4>3 DEF whole
    <3>7. upset'[v] <= q.age \/ (HasPages(v, all, n)' /\ (last => HasAll(v, all)'))
      <4> HIDE DEF q, last
      <4>. QED  BY <2>1, <3>6 DEF HasPages, HasAll, Position
    <3>8. v = Owner[req'[r].token] /\ all = req'[r].ctx.insts
      BY <3>3, <3>6
    <3> HIDE DEF q, got, last, u
    <3>9. CASE last
      <4>1. req'[r].pc = "put" /\ req'[r].age = q.age
        BY <3>3, <3>9
      <4>. QED
        BY <3>7, <3>8, <3>9, <4>1 DEF ReqServes, CompleteFor, HasAll, InBody
    <3>10. CASE ~last
      <4>1. /\ req'[r].pc = "page" /\ req'[r].page = n + 1 /\ req'[r].age = q.age
            /\ n + 1 - 1 = n /\ n + 1 \in 1..MaxPages
        BY <3>3, <3>5, <3>6, <3>10
      <4>. QED
        BY <3>7, <3>8, <4>1 DEF ReqServes, HasPages, Position, InBody
    <3>. QED
      BY <3>9, <3>10
  <2>4. SameCache
    BY <1>0, <1>5 DEF GetPage, SameCache
  <2>5. req'[r].token = req[r].token
    BY <1>0, <1>5 DEF GetPage, Request
  <2>6. ReqServes(r)'
    BY <2>3, <2>5 DEF ReqServes
  <2>. QED
    BY <2>1, <2>2, <2>6, <2>4, ServesFrame DEF ServesInv
<1>6. ASSUME NEW r \in Reqs, PageRefused(r) PROVE ServesInv'
  <2>1. Undisturbed
    BY <1>0, <1>6 DEF PageRefused, Undisturbed, github
  <2>2. \A s \in Reqs \ {r} : SameListing(s)
    BY <1>0, <1>6 DEF PageRefused, SameListing
  <2>3. ReqServes(r)'
    <3>1. /\ req'[r].pc = "put" /\ req'[r].token = req[r].token /\ req'[r].age = req[r].age
          /\ req[r].ctx.login = Owner[req[r].token] /\ req[r].token \in Tokens
          /\ upset' = [upset EXCEPT ![req[r].ctx.login] = 0]
      BY <1>0, <1>6, Snapshots DEF PageRefused, Request
    <3>2. req[r].age \in Nat
      BY Snapshots
    <3>3. CASE req[r].token \notin AdminTokens
      <4>1. upset'[Owner[req[r].token]] = 0
        BY <1>0, <3>1, <3>3
      <4>. QED
        BY <3>1, <3>2, <4>1 DEF ReqServes, CompleteFor, InBody
    <3>. QED
      BY <3>1, <3>3 DEF ReqServes
  <2>4. SameCache
    BY <1>6 DEF PageRefused, SameCache
  <2>. QED
    BY <2>1, <2>2, <2>3, <2>4, ServesFrame DEF ServesInv
<1>8. ASSUME NEW r \in Reqs, Verified(r) PROVE ServesInv'
  <2> DEFINE q == req[r]
  <2>1. Undisturbed /\ CacheTypeOK /\ access' = access /\ upset' = upset
    BY <1>8 DEF Verified, AccessTypeOK, Undisturbed, github
  <2>2. \A s \in Reqs \ {r} : SameListing(s)
    BY <1>0, <1>8 DEF Verified, SameListing
  <2>3. /\ q.pc = "put" /\ q.proc \in Procs /\ q.token \in Tokens /\ q.ctx \in Context
        /\ q.ctx.insts \in SUBSET Insts /\ q.age \in Nat /\ q.age <= Slack
        /\ CachePut(q.proc, q.token, q.ctx)
    BY <1>0, <1>8, Snapshots DEF Verified, Holds
  <2>4. q.token \notin AdminTokens => CompleteFor(q.token, q.ctx.insts, q.age)
    BY <2>3 DEF ServesInv, ReqServes
  <2>5. ReqServes(r)'
    <3>1. /\ req'[r].pc = "authed" /\ req'[r].token = q.token /\ req'[r].ctx = q.ctx
          /\ req'[r].age = q.age
      BY <1>0, <1>8 DEF Verified, Request
    <3>2. q.age <= TTL + Slack + q.age /\ TTL + Slack + q.age \in Nat
      BY <2>3, Sizes
    <3>3. q.token \notin AdminTokens => CompleteFor(q.token, q.ctx.insts, TTL + Slack + q.age)
      <4> HIDE DEF q
      <4>. QED  BY <2>3, <2>4, <3>2, CompleteLater
    <3> HIDE DEF q
    <3>. QED
      BY <2>1, <3>1, <3>3 DEF ReqServes, CompleteFor, HasAll, InBody
  <2>6. ASSUME NEW k \in Procs, NEW j \in Tokens PROVE CacheServes(k, j)'
    <3>1. CASE cache'[k][j] = cache[k][j] \/ cache'[k][j] = NoEntry
      BY <2>1, <3>1 DEF ServesInv, CacheServes, CompleteFor, HasAll, NoEntry
    <3>2. CASE j = q.token /\ cache'[k][j] = [ctx |-> q.ctx, ttl |-> TTL] /\ j \notin AdminTokens
      <4>1. TTL - TTL + Slack = Slack /\ Slack \in Nat
        BY Sizes
      <4>2. CompleteFor(q.token, q.ctx.insts, Slack)
        <5> HIDE DEF q
        <5>. QED  BY <2>3, <2>4, <3>2, <4>1, CompleteLater
      <4> HIDE DEF q
      <4>. QED
        BY <2>1, <3>2, <4>1, <4>2 DEF CacheServes, CompleteFor, HasAll
    <3>3. CASE j \in AdminTokens
      BY <3>3 DEF CacheServes
    <3> HIDE DEF q
    <3>. QED
      BY <2>1, <2>3, <3>1, <3>2, <3>3, CachePutFacts
  <2>. QED
    BY <2>1, <2>2, <2>5, <2>6, ServesFrame DEF ServesInv
<1>7. ASSUME NEW r \in Reqs, GithubUnreachable(r) PROVE ServesInv'
  <2>1. Undisturbed /\ SameCache
    BY <1>0, <1>7 DEF GithubUnreachable, Undisturbed, SameCache, github
  <2>2. \A s \in Reqs : SameListing(s)
    BY <1>0, <1>7 DEF GithubUnreachable, SameListing, Answered, Idle, InBody, Verifying
  <2>. QED
    BY <1>q, <2>1, <2>2 DEF Quiet
<1>9. ASSUME NEW r \in Reqs, NEW op \in Asked, CheckRole(r, op) PROVE ServesInv'
  <2>1. Undisturbed /\ SameCache
    BY <1>0, <1>9 DEF CheckRole, Undisturbed, SameCache, github
  <2>2. \A s \in Reqs \ {r} : SameListing(s)
    BY <1>0, <1>9 DEF CheckRole, SameListing, Decide, Answered
  <2>3. SameListing(r)
    BY <1>0, <1>9 DEF CheckRole, SameListing, Decide, Answered, Idle, InBody, Request
  <2>. QED
    BY <1>q, <2>1, <2>2, <2>3 DEF Quiet
<1>10. ASSUME NEW r \in Reqs, NEW op \in Asked, CheckRoleFails(r, op) PROVE ServesInv'
  <2>1. Undisturbed /\ SameCache
    BY <1>0, <1>10 DEF CheckRoleFails, Undisturbed, SameCache, github
  <2>2. \A s \in Reqs \ {r} : SameListing(s)
    BY <1>0, <1>10 DEF CheckRoleFails, SameListing, Decide, Answered
  <2>3. SameListing(r)
    BY <1>0, <1>10 DEF CheckRoleFails, SameListing, Decide, Answered, Idle, InBody, Request
  <2>. QED
    BY <1>q, <2>1, <2>2, <2>3 DEF Quiet
<1>11. ASSUME NEW r \in Reqs, GrantRole(r) PROVE ServesInv'
  <2>1. Undisturbed /\ SameCache
    BY <1>0, <1>11 DEF GrantRole, Undisturbed, SameCache, github
  <2>2. \A s \in Reqs : SameListing(s)
    BY <1>11, Overtakes DEF SameListing, Idle, InBody
  <2>. QED
    BY <1>q, <2>1, <2>2 DEF Quiet
<1>12. ASSUME NEW r \in Reqs, RevokeRole(r) PROVE ServesInv'
  <2>1. Undisturbed /\ SameCache
    BY <1>0, <1>12 DEF RevokeRole, Undisturbed, SameCache, github
  <2>2. \A s \in Reqs : SameListing(s)
    BY <1>12, Overtakes DEF SameListing, Idle, InBody
  <2>. QED
    BY <1>q, <2>1, <2>2 DEF Quiet
<1>13. ASSUME NEW r \in Reqs, ResetOrRequeue(r) PROVE ServesInv'
  <2>1. Undisturbed /\ SameCache
    BY <1>0, <1>13 DEF ResetOrRequeue, Undisturbed, SameCache, github
  <2>2. \A s \in Reqs : SameListing(s)
    BY <1>0, <1>13 DEF ResetOrRequeue, SameListing, Idle, InBody, Verifying
  <2>. QED
    BY <1>q, <2>1, <2>2 DEF Quiet
<1>14. ASSUME NEW r \in Reqs, NotInDlq(r) PROVE ServesInv'
  <2>1. Undisturbed /\ SameCache
    BY <1>0, <1>14 DEF NotInDlq, Undisturbed, SameCache, github
  <2>2. \A s \in Reqs : SameListing(s)
    BY <1>0, <1>14 DEF NotInDlq, SameListing, Answered, Idle, InBody, Verifying
  <2>. QED
    BY <1>q, <2>1, <2>2 DEF Quiet
<1>15. ASSUME NEW r \in Reqs, ApplyFails(r) PROVE ServesInv'
  <2>1. Undisturbed /\ SameCache
    BY <1>0, <1>15 DEF ApplyFails, Undisturbed, SameCache, github
  <2>2. \A s \in Reqs \ {r} : SameListing(s)
    <3>1. \A s \in Reqs \ {r} : req'[s] = req[s] \/ req'[s] = Race(r, req[r].op)[s]
      BY <1>0, <1>15 DEF ApplyFails, Answered, Race
    <3>2. ASSUME NEW s \in Reqs \ {r}
          PROVE  /\ req'[s].pc = req[s].pc /\ req'[s].token = req[s].token
                 /\ req'[s].age = req[s].age /\ req'[s].ctx = req[s].ctx
                 /\ req'[s].page = req[s].page
      <4>1. req[s] \in Request
        BY <1>0
      <4>2. CASE req'[s] = req[s]
        BY <4>2
      <4>3. CASE req'[s] = [req[s] EXCEPT !.raced = TRUE]
        BY <4>1, <4>3 DEF Request
      <4>. QED
        BY <3>1, <4>2, <4>3 DEF Race
    <3>. QED
      BY <3>2 DEF SameListing
  <2>3. SameListing(r)
    BY <1>0, <1>15 DEF ApplyFails, SameListing, Answered, Race, Idle, InBody, Verifying
  <2>. QED
    BY <1>q, <2>1, <2>2, <2>3 DEF Quiet
<1>16. ASSUME NEW r \in Reqs, audit_log(r) PROVE ServesInv'
  <2>1. Undisturbed /\ SameCache
    BY <1>0, <1>16 DEF audit_log, Undisturbed, SameCache, github
  <2>2. \A s \in Reqs : SameListing(s)
    BY <1>0, <1>16 DEF audit_log, SameListing, Answered, Idle, InBody, Verifying
  <2>. QED
    BY <1>q, <2>1, <2>2 DEF Quiet
<1>17. ASSUME NEW r \in Reqs, AuditFails(r) PROVE ServesInv'
  <2>1. Undisturbed /\ SameCache
    BY <1>0, <1>17 DEF AuditFails, Undisturbed, SameCache, github
  <2>2. \A s \in Reqs : SameListing(s)
    BY <1>0, <1>17 DEF AuditFails, SameListing, Answered, Idle, InBody, Verifying
  <2>. QED
    BY <1>q, <2>1, <2>2 DEF Quiet
<1>18. ASSUME NEW i \in Insts \cup {None}, JobCreated(i) PROVE ServesInv'
  <2>1. Undisturbed /\ SameCache
    BY <1>0, <1>18 DEF JobCreated, Undisturbed, SameCache, github
  <2>2. \A s \in Reqs : SameListing(s)
    BY <1>0, <1>18 DEF JobCreated, SameListing
  <2>. QED
    BY <1>q, <2>1, <2>2 DEF Quiet
<1>19. ASSUME NEW u \in Users, NEW i \in Insts, AccessLost(u, i) PROVE ServesInv'
  <2>1. Undisturbed /\ SameCache
    BY <1>0, <1>19 DEF AccessLost, Undisturbed, SameCache, github
  <2>2. \A s \in Reqs : SameListing(s)
    BY <1>0, <1>19 DEF AccessLost, SameListing
  <2>. QED
    BY <1>q, <2>1, <2>2 DEF Quiet
<1>20. ASSUME NEW u \in Users, NEW i \in Insts, AccessGained(u, i) PROVE ServesInv'
  <2>1. Undisturbed /\ SameCache
    BY <1>0, <1>20 DEF AccessGained, Undisturbed, SameCache, github
  <2>2. \A s \in Reqs : SameListing(s)
    BY <1>0, <1>20 DEF AccessGained, SameListing
  <2>. QED
    BY <1>q, <2>1, <2>2 DEF Quiet
<1>21. ASSUME NEW t \in Tokens, TokenRevoked(t) PROVE ServesInv'
  <2>1. Undisturbed /\ SameCache
    BY <1>0, <1>21 DEF TokenRevoked, Undisturbed, SameCache, github
  <2>2. \A s \in Reqs : SameListing(s)
    BY <1>0, <1>21 DEF TokenRevoked, SameListing
  <2>. QED
    BY <1>q, <2>1, <2>2 DEF Quiet
<1>22. ASSUME NEW p \in Procs, Restart(p) PROVE ServesInv'
  <2>1. Undisturbed /\ SameCache
    BY <1>0, <1>22 DEF Restart, Undisturbed, SameCache, github
  <2>2. \A s \in Reqs : SameListing(s)
    BY <1>0, <1>22 DEF Restart, SameListing, Idle, InBody
  <2>. QED
    BY <1>q, <2>1, <2>2 DEF Quiet
<1>23. CASE Tick
  <2>0. /\ access' = access /\ upset' = [u \in Users |-> Older(upset[u])]
        /\ req' = [r \in Reqs |-> IF req[r].pc = "idle" THEN Idle ELSE [req[r] EXCEPT !.age = @ + 1]]
    BY <1>23 DEF Tick
  <2>1. \A u \in Users, n \in Nat : upset[u] <= n => upset'[u] <= n + 1
    <3>1. \A x, m \in Nat : x <= m => Older(x) <= m + 1
      BY DEF Older
    <3>2. \A u \in Users : upset[u] \in Nat
      BY <1>0, Sizes
    <3>. QED
      BY <2>0, <3>1, <3>2
  <2>2. ASSUME NEW t \in Tokens \ AdminTokens, NEW insts \in SUBSET Insts, NEW n \in Nat
        PROVE  /\ CompleteFor(t, insts, n) => CompleteFor(t, insts, n + 1)'
               /\ \A m \in Nat : upset[Owner[t]] <= n \/ HasPages(Owner[t], insts, m)
                      => upset'[Owner[t]] <= n + 1 \/ HasPages(Owner[t], insts, m)'
    BY <1>0, <2>0, <2>1 DEF CompleteFor, HasAll, HasPages, Position
  <2>3. ASSUME NEW p \in Procs, NEW t \in Tokens PROVE CacheServes(p, t)'
    <3> DEFINE e == cache[p][t]
    <3>1. cache'[p][t] = IF e.ttl = 0 THEN Expired
                         ELSE [e EXCEPT !.ttl = IF @ > 0 THEN @ - 1 ELSE @]
      BY <1>23 DEF Tick
    <3>2. CASE e.ttl > 0 /\ t \notin AdminTokens
      <4>1. cache'[p][t].ttl = e.ttl - 1 /\ cache'[p][t].ctx = e.ctx
        BY <1>0, <3>1, <3>2
      <4>2. /\ e.ctx.insts \in SUBSET Insts /\ TTL - e.ttl + Slack \in Nat /\ e.ttl >= 0
            /\ e.ttl \in Int
        BY <1>0, <3>2, Snapshots
      <4>3. PICK insts \in SUBSET Insts, n \in Nat :
              insts = e.ctx.insts /\ n = TTL - e.ttl + Slack /\ CompleteFor(t, insts, n)
        BY <3>2, <4>2 DEF ServesInv, CacheServes
      <4>4. CompleteFor(t, insts, n + 1)'
        BY <2>2, <3>2, <4>3
      <4>5. n + 1 = TTL - (e.ttl - 1) + Slack
        BY <4>2, <4>3, Sizes
      <4>. QED
        BY <4>1, <4>3, <4>4, <4>5 DEF CacheServes, CompleteFor, HasAll
    <3>3. CASE e.ttl = 0
      BY <3>1, <3>3 DEF CacheServes, Expired
    <3>4. CASE e.ttl < 0
      <4>1. cache'[p][t].ttl = e.ttl /\ e.ttl \in Int
        BY <1>0, <3>1, <3>4
      <4>. QED
        BY <3>4, <4>1 DEF CacheServes
    <3>. QED
      BY <1>0, <3>2, <3>3, <3>4 DEF CacheServes
  <2>4. ASSUME NEW r \in Reqs PROVE ReqServes(r)'
    <3> DEFINE q == req[r]
    <3>1. CASE q.pc = "idle"
      BY <2>0, <3>1 DEF ReqServes, Idle, InBody
    <3>2. CASE q.pc # "idle" /\ q.token \notin AdminTokens
      <4>1. /\ req'[r].pc = q.pc /\ req'[r].token = q.token /\ req'[r].ctx = q.ctx
            /\ req'[r].age = q.age + 1 /\ req'[r].page = q.page
        BY <1>0, <2>0, <3>2 DEF Request
      <4>2. q.age \in Nat
        BY Snapshots
      <4>3. CASE q.pc = "page"
        <5>0. q.page \in 1..MaxPages /\ q.page - 1 \in Nat
          BY <3>2, <4>3, Sizes DEF ServesInv, ReqServes
        <5>1. PICK t \in Tokens \ AdminTokens, insts \in SUBSET Insts, n \in Nat, m \in Nat :
                /\ t = q.token /\ insts = q.ctx.insts /\ n = q.age /\ m = q.page - 1
                /\ upset[Owner[t]] <= n \/ HasPages(Owner[t], insts, m)
          BY <3>2, <4>2, <4>3, <5>0, Snapshots DEF ServesInv, ReqServes
        <5>2. upset'[Owner[t]] <= n + 1 \/ HasPages(Owner[t], insts, m)'
          BY <2>2, <5>1
        <5>. QED
          BY <4>1, <4>3, <5>0, <5>1, <5>2 DEF ReqServes, HasPages, Position, InBody
      <4>4. CASE q.pc \in {"put", "authed"} \cup InBody
        <5> DEFINE d == IF q.pc = "put" THEN q.age ELSE TTL + Slack + q.age
        <5>1. /\ q.token \in Tokens \ AdminTokens /\ q.ctx.insts \in SUBSET Insts /\ d \in Nat
              /\ CompleteFor(q.token, q.ctx.insts, d)
          BY <3>2, <4>2, <4>4, Snapshots, Sizes DEF ServesInv, ReqServes, InBody
        <5>2. PICK t \in Tokens \ AdminTokens, insts \in SUBSET Insts, n \in Nat :
                t = q.token /\ insts = q.ctx.insts /\ n = d /\ CompleteFor(t, insts, n)
          BY <5>1
        <5>3. CompleteFor(t, insts, n + 1)'
          BY <2>2, <5>2
        <5>4. n + 1 = IF q.pc = "put" THEN q.age + 1 ELSE TTL + Slack + (q.age + 1)
          BY <4>2, <5>2, Sizes
        <5> HIDE DEF d
        <5>. QED
          BY <4>1, <4>4, <5>2, <5>3, <5>4 DEF ReqServes, CompleteFor, HasAll, InBody
      <4>5. CASE q.pc = "user"
        BY <4>1, <4>5 DEF ReqServes, InBody
      <4>. QED
        BY <1>0, <3>2, <4>3, <4>4, <4>5 DEF Request, Verifying, InBody
    <3>3. CASE q.pc # "idle" /\ q.token \in AdminTokens
      <4>1. req'[r].token = q.token
        BY <1>0, <2>0, <3>3 DEF Request
      <4>. QED
        BY <3>3, <4>1 DEF ReqServes
    <3>. QED
      BY <3>1, <3>2, <3>3
  <2>. QED
    BY <2>3, <2>4 DEF ServesInv
<1>24. CASE UNCHANGED vars
  <2>1. Undisturbed /\ SameCache /\ \A s \in Reqs : SameListing(s)
    BY <1>24 DEF vars, Undisturbed, SameCache, SameListing
  <2>. QED
    BY <1>q, <2>1 DEF Quiet
<1>. QED
  BY <1>1, <1>2, <1>3, <1>4, <1>5, <1>6, <1>7, <1>8, <1>9, <1>10, <1>11, <1>12,
     <1>13, <1>14, <1>15, <1>16, <1>17, <1>18, <1>19, <1>20, <1>21, <1>22,
     <1>23, <1>24
     DEF Next, Environment, NewRequest, ReqStep

\* And access begins in time, however many pages a listing has and whatever
\* changes in it while it is read: who is not served for an installation of
\* theirs had a listing that changed or was cut short at most Bound ticks ago.
THEOREM MembersAreServed == Spec => []MembersServed
<1>1. Init => ServesInv
  BY Sizes DEF Init, ServesInv, CacheServes, ReqServes, NoEntry, Idle, InBody
<1>2. AccessTypeOK /\ ServesInv => MembersServed
  <2> SUFFICES ASSUME AccessTypeOK, ServesInv, NEW r \in Reqs,
                      req[r].pc \in {"authed"} \cup InBody, req[r].token \notin AdminTokens,
                      Cardinality(access[req[r].ctx.login]) <= PageSize * MaxPages,
                      ~(access[req[r].ctx.login] \subseteq req[r].ctx.insts)
               PROVE  upset[req[r].ctx.login] <= Bound
    BY DEF MembersServed
  <2>1. /\ req[r].token \in Tokens \ AdminTokens /\ req[r].ctx.insts \in SUBSET Insts
        /\ req[r].ctx.login = Owner[req[r].token] /\ TTL + Slack + req[r].age \in Nat
        /\ TTL + Slack + req[r].age <= Bound
    BY Snapshots, Sizes DEF Bound
  <2>2. CompleteFor(req[r].token, req[r].ctx.insts, TTL + Slack + req[r].age)
    BY DEF ServesInv, ReqServes
  <2>3. CompleteFor(req[r].token, req[r].ctx.insts, Bound)
    BY <2>1, <2>2, CompleteLater, Sizes
  <2>. QED
    BY <2>1, <2>3 DEF CompleteFor, HasAll
<1>. QED
  BY <1>1, <1>2, AccessTypeCorrect, NextServes, PTL DEF Spec

-----------------------------------------------------------------------------
(* Every change is recorded *)

\* What the coroutines of a process owe to each other: one is between its role
\* check and its answer.
OneBody == \A r, s \in Reqs :
    r # s /\ req[r].pc \in InBody /\ req[s].pc \in InBody => req[r].proc # req[s].proc

Auditing == {r \in Reqs : req[r].pc = "audit"}

\* Who is in its body has been there, in the same process.
SameBody(s) == req'[s].pc \in InBody => req[s].pc \in InBody /\ req'[s].proc = req[s].proc
SameAudit(s) == req'[s].pc = "audit" <=> req[s].pc = "audit"

\* Only a role check that may run lets a request into its body.
LEMMA NextOneBody ==
  ASSUME AccessTypeOK, OneBody, [Next]_vars
  PROVE  OneBody'
<1>0. req \in [Reqs -> Request] /\ \A s \in Reqs : req[s] \in Request
  BY DEF AccessTypeOK, RequestsTypeOK
<1>1. ASSUME NEW r \in Reqs, NEW p \in Procs, NEW t \in Tokens, ArriveCached(r, p, t)
      PROVE  OneBody'
  <2>1. \A s \in Reqs : SameBody(s)
    BY <1>0, <1>1 DEF ArriveCached, SameBody, InBody, Begun, Idle
  <2>. QED
    BY <2>1 DEF OneBody, SameBody
<1>2. ASSUME NEW r \in Reqs, NEW p \in Procs, NEW t \in Tokens, ArriveAdmin(r, p, t)
      PROVE  OneBody'
  <2>1. \A s \in Reqs : SameBody(s)
    BY <1>0, <1>2 DEF ArriveAdmin, SameBody, InBody, Begun, Idle
  <2>. QED
    BY <2>1 DEF OneBody, SameBody
<1>3. ASSUME NEW r \in Reqs, NEW p \in Procs, NEW t \in Tokens, Arrive(r, p, t)
      PROVE  OneBody'
  <2>1. \A s \in Reqs : SameBody(s)
    BY <1>0, <1>3 DEF Arrive, SameBody, InBody, Begun, Idle
  <2>. QED
    BY <2>1 DEF OneBody, SameBody
<1>4. ASSUME NEW r \in Reqs, GetUser(r) PROVE OneBody'
  <2>1. \A s \in Reqs : SameBody(s)
    BY <1>0, <1>4 DEF GetUser, SameBody, InBody, Answered, Idle, Request
  <2>. QED
    BY <2>1 DEF OneBody, SameBody
<1>5. ASSUME NEW r \in Reqs, GetPage(r) PROVE OneBody'
  <2>1. \A s \in Reqs : SameBody(s)
    BY <1>0, <1>5 DEF GetPage, SameBody, InBody, Request
  <2>. QED
    BY <2>1 DEF OneBody, SameBody
<1>6. ASSUME NEW r \in Reqs, PageRefused(r) PROVE OneBody'
  <2>1. \A s \in Reqs : SameBody(s)
    BY <1>0, <1>6 DEF PageRefused, SameBody, InBody, Request
  <2>. QED
    BY <2>1 DEF OneBody, SameBody
<1>7. ASSUME NEW r \in Reqs, GithubUnreachable(r) PROVE OneBody'
  <2>1. \A s \in Reqs : SameBody(s)
    BY <1>0, <1>7 DEF GithubUnreachable, SameBody, InBody, Answered, Idle
  <2>. QED
    BY <2>1 DEF OneBody, SameBody
<1>8. ASSUME NEW r \in Reqs, Verified(r) PROVE OneBody'
  <2>1. \A s \in Reqs : SameBody(s)
    BY <1>0, <1>8 DEF Verified, SameBody, InBody, Request
  <2>. QED
    BY <2>1 DEF OneBody, SameBody
<1>9. ASSUME NEW r \in Reqs, NEW op \in Asked, CheckRole(r, op) PROVE OneBody'
  <2>1. \A s \in Reqs \ {r} : req'[s] = req[s]
    BY <1>0, <1>9 DEF CheckRole, Decide, Answered
  <2>2. req'[r].pc \in InBody => req'[r].proc = req[r].proc
    BY <1>0, <1>9 DEF CheckRole, Decide, Answered, Idle, InBody, Request
  <2>3. MayRun(r)
    BY <1>9 DEF CheckRole
  <2>. QED
    BY <2>1, <2>2, <2>3 DEF OneBody, MayRun
<1>10. ASSUME NEW r \in Reqs, NEW op \in Asked, CheckRoleFails(r, op)
      PROVE  OneBody'
  <2>1. \A s \in Reqs \ {r} : req'[s] = req[s]
    BY <1>0, <1>10 DEF CheckRoleFails, Decide, Answered
  <2>2. req'[r].pc \in InBody => req'[r].proc = req[r].proc
    BY <1>0, <1>10 DEF CheckRoleFails, Decide, Answered, Idle, InBody, Request
  <2>3. MayRun(r)
    BY <1>10 DEF CheckRoleFails
  <2>. QED
    BY <2>1, <2>2, <2>3 DEF OneBody, MayRun
<1>11. ASSUME NEW r \in Reqs, GrantRole(r) PROVE OneBody'
  <2>1. \A s \in Reqs : req'[s] = req[s] \/ req'[s] = Race(r, req[r].op)[s] \/ s = r
    BY <1>0, <1>11 DEF GrantRole, Answered, Race
  <2>2. \A s \in Reqs : Race(r, req[r].op)[s].pc = req[s].pc /\ Race(r, req[r].op)[s].proc = req[s].proc
    BY <1>0 DEF Race, Request
  <2>3. SameBody(r)
    BY <1>0, <1>11 DEF GrantRole, Answered, Race, SameBody, Idle, InBody, Request
  <2>. QED
    BY <2>1, <2>2, <2>3 DEF OneBody, SameBody
<1>12. ASSUME NEW r \in Reqs, RevokeRole(r) PROVE OneBody'
  <2>1. \A s \in Reqs : req'[s] = req[s] \/ req'[s] = Race(r, req[r].op)[s] \/ s = r
    BY <1>0, <1>12 DEF RevokeRole, Answered, Race
  <2>2. \A s \in Reqs : Race(r, req[r].op)[s].pc = req[s].pc /\ Race(r, req[r].op)[s].proc = req[s].proc
    BY <1>0 DEF Race, Request
  <2>3. SameBody(r)
    BY <1>0, <1>12 DEF RevokeRole, Answered, Race, SameBody, Idle, InBody, Request
  <2>. QED
    BY <2>1, <2>2, <2>3 DEF OneBody, SameBody
<1>13. ASSUME NEW r \in Reqs, ResetOrRequeue(r) PROVE OneBody'
  <2>1. \A s \in Reqs : SameBody(s)
    BY <1>0, <1>13 DEF ResetOrRequeue, SameBody, InBody, Request
  <2>. QED
    BY <2>1 DEF OneBody, SameBody
<1>14. ASSUME NEW r \in Reqs, NotInDlq(r) PROVE OneBody'
  <2>1. \A s \in Reqs : SameBody(s)
    BY <1>0, <1>14 DEF NotInDlq, SameBody, InBody, Answered, Idle
  <2>. QED
    BY <2>1 DEF OneBody, SameBody
<1>15. ASSUME NEW r \in Reqs, ApplyFails(r) PROVE OneBody'
  <2>1. \A s \in Reqs : req'[s] = req[s] \/ req'[s] = Race(r, req[r].op)[s] \/ s = r
    BY <1>0, <1>15 DEF ApplyFails, Answered, Race
  <2>2. \A s \in Reqs : Race(r, req[r].op)[s].pc = req[s].pc /\ Race(r, req[r].op)[s].proc = req[s].proc
    BY <1>0 DEF Race, Request
  <2>3. SameBody(r)
    BY <1>0, <1>15 DEF ApplyFails, Answered, Race, SameBody, Idle, InBody, Request
  <2>. QED
    BY <2>1, <2>2, <2>3 DEF OneBody, SameBody
<1>16. ASSUME NEW r \in Reqs, audit_log(r) PROVE OneBody'
  <2>1. \A s \in Reqs : SameBody(s)
    BY <1>0, <1>16 DEF audit_log, SameBody, InBody, Answered, Idle
  <2>. QED
    BY <2>1 DEF OneBody, SameBody
<1>17. ASSUME NEW r \in Reqs, AuditFails(r) PROVE OneBody'
  <2>1. \A s \in Reqs : SameBody(s)
    BY <1>0, <1>17 DEF AuditFails, SameBody, InBody, Answered, Idle
  <2>. QED
    BY <2>1 DEF OneBody, SameBody
<1>18. ASSUME NEW i \in Insts \cup {None}, JobCreated(i) PROVE OneBody'
  <2>1. \A s \in Reqs : SameBody(s)
    BY <1>0, <1>18 DEF JobCreated, SameBody, InBody
  <2>. QED
    BY <2>1 DEF OneBody, SameBody
<1>19. ASSUME NEW u \in Users, NEW i \in Insts, AccessLost(u, i) PROVE OneBody'
  <2>1. \A s \in Reqs : SameBody(s)
    BY <1>0, <1>19 DEF AccessLost, SameBody, InBody
  <2>. QED
    BY <2>1 DEF OneBody, SameBody
<1>20. ASSUME NEW u \in Users, NEW i \in Insts, AccessGained(u, i)
      PROVE  OneBody'
  <2>1. \A s \in Reqs : SameBody(s)
    BY <1>0, <1>20 DEF AccessGained, SameBody, InBody
  <2>. QED
    BY <2>1 DEF OneBody, SameBody
<1>21. ASSUME NEW t \in Tokens, TokenRevoked(t) PROVE OneBody'
  <2>1. \A s \in Reqs : SameBody(s)
    BY <1>0, <1>21 DEF TokenRevoked, SameBody, InBody
  <2>. QED
    BY <2>1 DEF OneBody, SameBody
<1>22. ASSUME NEW p \in Procs, Restart(p) PROVE OneBody'
  <2>1. \A s \in Reqs : SameBody(s)
    BY <1>0, <1>22 DEF Restart, SameBody, InBody, Idle
  <2>. QED
    BY <2>1 DEF OneBody, SameBody
<1>23. CASE Tick
  <2>1. \A s \in Reqs : SameBody(s)
    BY <1>0, <1>23 DEF Tick, SameBody, InBody, Idle, Request
  <2>. QED
    BY <2>1 DEF OneBody, SameBody
<1>24. CASE UNCHANGED vars
  <2>1. \A s \in Reqs : SameBody(s)
    BY <1>0, <1>24 DEF vars, SameBody
  <2>. QED
    BY <2>1 DEF OneBody, SameBody
<1>. QED
  BY <1>1, <1>2, <1>3, <1>4, <1>5, <1>6, <1>7, <1>8, <1>9, <1>10, <1>11, <1>12,
     <1>13, <1>14, <1>15, <1>16, <1>17, <1>18, <1>19, <1>20, <1>21, <1>22,
     <1>23, <1>24
     DEF Next, Environment, NewRequest, ReqStep

\* One request enters the audit or leaves it.
LEMMA Count ==
  ASSUME NEW r \in Reqs, \A s \in Reqs \ {r} : SameAudit(s)
  PROVE  /\ Cardinality(Auditing) \in Nat /\ Cardinality(Auditing') \in Nat
         /\ req[r].pc # "audit" /\ req'[r].pc = "audit" =>
              Cardinality(Auditing') = Cardinality(Auditing) + 1
         /\ req[r].pc = "audit" /\ req'[r].pc # "audit" =>
              Cardinality(Auditing') = Cardinality(Auditing) - 1
         /\ SameAudit(r) => Cardinality(Auditing') = Cardinality(Auditing)
<1>1. IsFiniteSet(Reqs) /\ Auditing \in SUBSET Reqs /\ Auditing' \in SUBSET Reqs
  BY AccessAssumptions DEF Auditing
<1>2. IsFiniteSet(Auditing) /\ IsFiniteSet(Auditing')
  BY <1>1, FS_Subset
<1>3. Cardinality(Auditing) \in Nat /\ Cardinality(Auditing') \in Nat
  BY <1>2, FS_CardinalityType
<1>4. CASE req[r].pc # "audit" /\ req'[r].pc = "audit"
  <2>1. Auditing' = Auditing \cup {r} /\ r \notin Auditing
    BY <1>4 DEF Auditing, SameAudit
  <2>. QED
    BY <1>2, <1>3, <1>4, <2>1, FS_AddElement DEF SameAudit
<1>5. CASE req[r].pc = "audit" /\ req'[r].pc # "audit"
  <2>1. Auditing' = Auditing \ {r} /\ r \in Auditing
    BY <1>5 DEF Auditing, SameAudit
  <2>. QED
    BY <1>2, <1>3, <1>5, <2>1, FS_RemoveElement DEF SameAudit
<1>6. CASE SameAudit(r)
  <2>1. Auditing' = Auditing
    BY <1>6 DEF Auditing, SameAudit
  <2>. QED
    BY <1>3, <1>6, <2>1 DEF SameAudit
<1>. QED
  BY <1>4, <1>5, <1>6 DEF SameAudit

LEMMA Calm ==
  ASSUME \A s \in Reqs : SameAudit(s)
  PROVE  Cardinality(Auditing') = Cardinality(Auditing) /\ Cardinality(Auditing) \in Nat
<1>1. Auditing' = Auditing
  BY DEF Auditing, SameAudit
<1>2. IsFiniteSet(Auditing)
  BY AccessAssumptions, FS_Subset DEF Auditing
<1>. QED
  BY <1>1, <1>2, FS_CardinalityType

\* The books: a change is matched by a request that will audit it or by a failure.
LEMMA Balance ==
  ASSUME AccessTypeOK, AccessTypeOK', ChangesRecorded,
         Cardinality(Auditing) \in Nat, Cardinality(Auditing') \in Nat,
         unrecorded' + left'["redis"] + left'["restart"] + Cardinality(Auditing)
           <= unrecorded + left["redis"] + left["restart"] + Cardinality(Auditing')
  PROVE  ChangesRecorded'
<1>1. /\ {unrecorded, unrecorded', left["redis"], left'["redis"], left["restart"],
           left'["restart"], Budget["redis"], Budget["restart"]} \subseteq Int
  BY AccessAssumptions DEF AccessTypeOK, WorldTypeOK, Happenings
<1> DEFINE n == Cardinality(Auditing)
           m == Cardinality(Auditing')
<1>2. unrecorded <= n + (Budget["redis"] - left["redis"]) + (Budget["restart"] - left["restart"])
  BY DEF ChangesRecorded, Spent, Auditing
<1>3. n \in Int /\ m \in Int
  OBVIOUS
<1>4. unrecorded' + left'["redis"] + left'["restart"] + n
        <= unrecorded + left["redis"] + left["restart"] + m
  OBVIOUS
<1> HIDE DEF n, m
<1>5. unrecorded' <= m + (Budget["redis"] - left'["redis"]) + (Budget["restart"] - left'["restart"])
  BY <1>1, <1>2, <1>3, <1>4
<1>. QED
  BY <1>5 DEF ChangesRecorded, Spent, Auditing, m

\* A step that changes something sends a request to the audit, or Redis or the
\* process fails.
LEMMA NextRecorded ==
  ASSUME AccessTypeOK, OneBody, ChangesRecorded, [Next]_vars
  PROVE  ChangesRecorded'
<1>0. /\ req \in [Reqs -> Request] /\ \A s \in Reqs : req[s] \in Request
      /\ unrecorded \in Int /\ left \in [Happenings -> Nat]
      /\ {left["redis"], left["restart"]} \subseteq Nat
      /\ {left'["redis"], left'["restart"], unrecorded'} \subseteq Int /\ AccessTypeOK'
  BY NextType DEF AccessTypeOK, RequestsTypeOK, WorldTypeOK, Happenings
<1>1. ASSUME NEW r \in Reqs, NEW p \in Procs, NEW t \in Tokens, ArriveCached(r, p, t)
      PROVE  ChangesRecorded'
  <2>1. \A s \in Reqs : SameAudit(s)
    BY <1>0, <1>1 DEF ArriveCached, SameAudit, Begun, Idle
  <2>2. unrecorded' = unrecorded /\ left'["redis"] <= left["redis"] /\ left'["restart"] <= left["restart"]
    BY <1>0, <1>1 DEF ArriveCached, SpendRequest, Happenings
  <2>3. Cardinality(Auditing') = Cardinality(Auditing) /\ Cardinality(Auditing) \in Nat
    BY <2>1, Calm
  <2>. QED
    BY <1>0, <2>2, <2>3, Balance
<1>2. ASSUME NEW r \in Reqs, NEW p \in Procs, NEW t \in Tokens, ArriveAdmin(r, p, t)
      PROVE  ChangesRecorded'
  <2>1. \A s \in Reqs : SameAudit(s)
    BY <1>0, <1>2 DEF ArriveAdmin, SameAudit, Begun, Idle
  <2>2. unrecorded' = unrecorded /\ left'["redis"] <= left["redis"] /\ left'["restart"] <= left["restart"]
    BY <1>0, <1>2 DEF ArriveAdmin, SpendRequest, Happenings
  <2>3. Cardinality(Auditing') = Cardinality(Auditing) /\ Cardinality(Auditing) \in Nat
    BY <2>1, Calm
  <2>. QED
    BY <1>0, <2>2, <2>3, Balance
<1>3. ASSUME NEW r \in Reqs, NEW p \in Procs, NEW t \in Tokens, Arrive(r, p, t)
      PROVE  ChangesRecorded'
  <2>1. \A s \in Reqs : SameAudit(s)
    BY <1>0, <1>3 DEF Arrive, SameAudit, Begun, Idle
  <2>2. unrecorded' = unrecorded /\ left'["redis"] <= left["redis"] /\ left'["restart"] <= left["restart"]
    BY <1>0, <1>3 DEF Arrive, SpendRequest, Happenings
  <2>3. Cardinality(Auditing') = Cardinality(Auditing) /\ Cardinality(Auditing) \in Nat
    BY <2>1, Calm
  <2>. QED
    BY <1>0, <2>2, <2>3, Balance
<1>4. ASSUME NEW r \in Reqs, GetUser(r) PROVE ChangesRecorded'
  <2>1. \A s \in Reqs : SameAudit(s)
    BY <1>0, <1>4 DEF GetUser, SameAudit, Answered, Idle, Request
  <2>2. unrecorded' = unrecorded /\ left'["redis"] <= left["redis"] /\ left'["restart"] <= left["restart"]
    BY <1>0, <1>4 DEF GetUser
  <2>3. Cardinality(Auditing') = Cardinality(Auditing) /\ Cardinality(Auditing) \in Nat
    BY <2>1, Calm
  <2>. QED
    BY <1>0, <2>2, <2>3, Balance
<1>5. ASSUME NEW r \in Reqs, GetPage(r) PROVE ChangesRecorded'
  <2>1. \A s \in Reqs : SameAudit(s)
    BY <1>0, <1>5 DEF GetPage, SameAudit, Request
  <2>2. unrecorded' = unrecorded /\ left'["redis"] <= left["redis"] /\ left'["restart"] <= left["restart"]
    BY <1>0, <1>5 DEF GetPage
  <2>3. Cardinality(Auditing') = Cardinality(Auditing) /\ Cardinality(Auditing) \in Nat
    BY <2>1, Calm
  <2>. QED
    BY <1>0, <2>2, <2>3, Balance
<1>6. ASSUME NEW r \in Reqs, PageRefused(r) PROVE ChangesRecorded'
  <2>1. \A s \in Reqs : SameAudit(s)
    BY <1>0, <1>6 DEF PageRefused, SameAudit, Request
  <2>2. unrecorded' = unrecorded /\ left'["redis"] <= left["redis"] /\ left'["restart"] <= left["restart"]
    BY <1>0, <1>6 DEF PageRefused, Spend, Happenings
  <2>3. Cardinality(Auditing') = Cardinality(Auditing) /\ Cardinality(Auditing) \in Nat
    BY <2>1, Calm
  <2>. QED
    BY <1>0, <2>2, <2>3, Balance
<1>7. ASSUME NEW r \in Reqs, GithubUnreachable(r) PROVE ChangesRecorded'
  <2>1. \A s \in Reqs : SameAudit(s)
    BY <1>0, <1>7 DEF GithubUnreachable, SameAudit, Answered, Idle
  <2>2. unrecorded' = unrecorded /\ left'["redis"] <= left["redis"] /\ left'["restart"] <= left["restart"]
    BY <1>0, <1>7 DEF GithubUnreachable, Spend, Happenings
  <2>3. Cardinality(Auditing') = Cardinality(Auditing) /\ Cardinality(Auditing) \in Nat
    BY <2>1, Calm
  <2>. QED
    BY <1>0, <2>2, <2>3, Balance
<1>8. ASSUME NEW r \in Reqs, Verified(r) PROVE ChangesRecorded'
  <2>1. \A s \in Reqs : SameAudit(s)
    BY <1>0, <1>8 DEF Verified, SameAudit, Request
  <2>2. unrecorded' = unrecorded /\ left'["redis"] <= left["redis"] /\ left'["restart"] <= left["restart"]
    BY <1>0, <1>8 DEF Verified
  <2>3. Cardinality(Auditing') = Cardinality(Auditing) /\ Cardinality(Auditing) \in Nat
    BY <2>1, Calm
  <2>. QED
    BY <1>0, <2>2, <2>3, Balance
<1>9. ASSUME NEW r \in Reqs, NEW op \in Asked, CheckRole(r, op)
      PROVE  ChangesRecorded'
  <2>1. \A s \in Reqs : SameAudit(s)
    BY <1>0, <1>9 DEF CheckRole, SameAudit, Decide, Answered, Idle, Request
  <2>2. unrecorded' = unrecorded /\ left'["redis"] <= left["redis"] /\ left'["restart"] <= left["restart"]
    BY <1>0, <1>9 DEF CheckRole
  <2>3. Cardinality(Auditing') = Cardinality(Auditing) /\ Cardinality(Auditing) \in Nat
    BY <2>1, Calm
  <2>. QED
    BY <1>0, <2>2, <2>3, Balance
<1>10. ASSUME NEW r \in Reqs, NEW op \in Asked, CheckRoleFails(r, op)
      PROVE  ChangesRecorded'
  <2>1. \A s \in Reqs : SameAudit(s)
    BY <1>0, <1>10 DEF CheckRoleFails, SameAudit, Decide, Answered, Idle, Request
  <2>2. unrecorded' = unrecorded /\ left'["redis"] <= left["redis"] /\ left'["restart"] <= left["restart"]
    BY <1>0, <1>10 DEF CheckRoleFails, Spend, Happenings
  <2>3. Cardinality(Auditing') = Cardinality(Auditing) /\ Cardinality(Auditing) \in Nat
    BY <2>1, Calm
  <2>. QED
    BY <1>0, <2>2, <2>3, Balance
<1>11. ASSUME NEW r \in Reqs, GrantRole(r) PROVE ChangesRecorded'
  <2>1. \A s \in Reqs \ {r} : SameAudit(s)
    <3>1. \A s \in Reqs \ {r} : req'[s] = req[s] \/ req'[s] = Race(r, req[r].op)[s]
      BY <1>0, <1>11 DEF GrantRole, Answered, Race
    <3>2. \A s \in Reqs : Race(r, req[r].op)[s].pc = req[s].pc
      BY <1>0 DEF Race, Request
    <3>. QED
      BY <3>1, <3>2 DEF SameAudit
  <2>2. req[r].pc = "apply" /\ req'[r].pc = "audit"
    BY <1>0, <1>11 DEF GrantRole, Request, Race
  <2>3. unrecorded' = unrecorded + 1 /\ left'["redis"] = left["redis"] /\ left'["restart"] = left["restart"]
    BY <1>0, <1>11 DEF GrantRole
  <2>. QED
    BY <1>0, <2>1, <2>2, <2>3, Count, Balance
<1>12. ASSUME NEW r \in Reqs, RevokeRole(r) PROVE ChangesRecorded'
  <2>1. \A s \in Reqs \ {r} : SameAudit(s)
    <3>1. \A s \in Reqs \ {r} : req'[s] = req[s] \/ req'[s] = Race(r, req[r].op)[s]
      BY <1>0, <1>12 DEF RevokeRole, Answered, Race
    <3>2. \A s \in Reqs : Race(r, req[r].op)[s].pc = req[s].pc
      BY <1>0 DEF Race, Request
    <3>. QED
      BY <3>1, <3>2 DEF SameAudit
  <2>2. req[r].pc = "apply" /\ left' = left
    BY <1>12 DEF RevokeRole
  <2>3. \/ req'[r].pc = "audit" /\ unrecorded' = unrecorded + 1
        \/ req'[r].pc # "audit" /\ unrecorded' = unrecorded
    <3>1. roles[req[r].op.inst][req[r].op.login] # None => req'[r].pc = "audit"
      BY <1>0, <1>12 DEF RevokeRole, Race, Request
    <3>2. roles[req[r].op.inst][req[r].op.login] = None => req'[r].pc # "audit"
      BY <1>0, <1>12 DEF RevokeRole, Idle
    <3>3. unrecorded' = unrecorded + Changes(req[r].op) /\ req[r].op.kind = "revoke"
      BY <1>12 DEF RevokeRole
    <3>4. Changes(req[r].op) = IF roles[req[r].op.inst][req[r].op.login] # None THEN 1 ELSE 0
      BY <3>3 DEF Changes
    <3>. QED
      BY <1>0, <3>1, <3>2, <3>3, <3>4
  <2>4. req'[r].pc # "audit" => SameAudit(r)
    BY <2>2 DEF SameAudit
  <2>. QED
    BY <1>0, <2>1, <2>2, <2>3, <2>4, Count, Balance
<1>13. ASSUME NEW r \in Reqs, ResetOrRequeue(r) PROVE ChangesRecorded'
  <2>1. \A s \in Reqs \ {r} : SameAudit(s)
    BY <1>0, <1>13 DEF ResetOrRequeue, SameAudit
  <2>2. req[r].pc = "apply" /\ req'[r].pc = "audit"
    BY <1>0, <1>13 DEF ResetOrRequeue, Request
  <2>3. unrecorded' = unrecorded + 1 /\ left'["redis"] = left["redis"] /\ left'["restart"] = left["restart"]
    BY <1>0, <1>13 DEF ResetOrRequeue
  <2>. QED
    BY <1>0, <2>1, <2>2, <2>3, Count, Balance
<1>14. ASSUME NEW r \in Reqs, NotInDlq(r) PROVE ChangesRecorded'
  <2>1. \A s \in Reqs : SameAudit(s)
    BY <1>0, <1>14 DEF NotInDlq, SameAudit, Answered, Idle
  <2>2. unrecorded' = unrecorded /\ left'["redis"] <= left["redis"] /\ left'["restart"] <= left["restart"]
    BY <1>0, <1>14 DEF NotInDlq
  <2>3. Cardinality(Auditing') = Cardinality(Auditing) /\ Cardinality(Auditing) \in Nat
    BY <2>1, Calm
  <2>. QED
    BY <1>0, <2>2, <2>3, Balance
<1>15. ASSUME NEW r \in Reqs, ApplyFails(r) PROVE ChangesRecorded'
  <2>1. \A s \in Reqs \ {r} : SameAudit(s)
    <3>1. \A s \in Reqs \ {r} : req'[s] = req[s] \/ req'[s] = Race(r, req[r].op)[s]
      BY <1>0, <1>15 DEF ApplyFails, Answered, Race
    <3>2. \A s \in Reqs : Race(r, req[r].op)[s].pc = req[s].pc
      BY <1>0 DEF Race, Request
    <3>. QED
      BY <3>1, <3>2 DEF SameAudit
  <2>2. req[r].pc # "audit" /\ req'[r].pc # "audit"
    <3>1. req[r].pc = "apply" /\ req'[r] = Idle
      BY <1>0, <1>15 DEF ApplyFails, Answered, Race
    <3>. QED
      BY <3>1 DEF Idle
  <2>3. unrecorded' <= unrecorded + 1 /\ left'["redis"] = left["redis"] - 1 /\ left'["restart"] = left["restart"]
    BY <1>0, <1>15 DEF ApplyFails, Changes, Spend, Happenings
  <2>4. SameAudit(r)
    BY <2>2 DEF SameAudit
  <2>. QED
    BY <1>0, <2>1, <2>2, <2>3, <2>4, Count, Balance
<1>16. ASSUME NEW r \in Reqs, audit_log(r) PROVE ChangesRecorded'
  <2>1. \A s \in Reqs \ {r} : SameAudit(s)
    BY <1>0, <1>16 DEF audit_log, Answered, SameAudit
  <2>2. req[r].pc = "audit" /\ req'[r].pc # "audit"
    BY <1>0, <1>16 DEF audit_log, Answered, Idle
  <2>3. unrecorded' = unrecorded - 1 /\ left'["redis"] = left["redis"] /\ left'["restart"] = left["restart"]
    BY <1>0, <1>16 DEF audit_log
  <2>. QED
    BY <1>0, <2>1, <2>2, <2>3, Count, Balance
<1>17. ASSUME NEW r \in Reqs, AuditFails(r) PROVE ChangesRecorded'
  <2>1. \A s \in Reqs \ {r} : SameAudit(s)
    BY <1>0, <1>17 DEF AuditFails, Answered, SameAudit
  <2>2. req[r].pc = "audit" /\ req'[r].pc # "audit"
    BY <1>0, <1>17 DEF AuditFails, Answered, Idle
  <2>3. unrecorded' = unrecorded /\ left'["redis"] = left["redis"] - 1 /\ left'["restart"] = left["restart"]
    BY <1>0, <1>17 DEF AuditFails, Spend, Happenings
  <2>. QED
    BY <1>0, <2>1, <2>2, <2>3, Count, Balance
<1>18. ASSUME NEW i \in Insts \cup {None}, JobCreated(i) PROVE ChangesRecorded'
  <2>1. \A s \in Reqs : SameAudit(s)
    BY <1>0, <1>18 DEF JobCreated, SameAudit
  <2>2. unrecorded' = unrecorded /\ left'["redis"] <= left["redis"] /\ left'["restart"] <= left["restart"]
    BY <1>0, <1>18 DEF JobCreated, Spend, Happenings
  <2>3. Cardinality(Auditing') = Cardinality(Auditing) /\ Cardinality(Auditing) \in Nat
    BY <2>1, Calm
  <2>. QED
    BY <1>0, <2>2, <2>3, Balance
<1>19. ASSUME NEW u \in Users, NEW i \in Insts, AccessLost(u, i)
      PROVE  ChangesRecorded'
  <2>1. \A s \in Reqs : SameAudit(s)
    BY <1>0, <1>19 DEF AccessLost, SameAudit
  <2>2. unrecorded' = unrecorded /\ left'["redis"] <= left["redis"] /\ left'["restart"] <= left["restart"]
    BY <1>0, <1>19 DEF AccessLost, Spend, Happenings
  <2>3. Cardinality(Auditing') = Cardinality(Auditing) /\ Cardinality(Auditing) \in Nat
    BY <2>1, Calm
  <2>. QED
    BY <1>0, <2>2, <2>3, Balance
<1>20. ASSUME NEW u \in Users, NEW i \in Insts, AccessGained(u, i)
      PROVE  ChangesRecorded'
  <2>1. \A s \in Reqs : SameAudit(s)
    BY <1>0, <1>20 DEF AccessGained, SameAudit
  <2>2. unrecorded' = unrecorded /\ left'["redis"] <= left["redis"] /\ left'["restart"] <= left["restart"]
    BY <1>0, <1>20 DEF AccessGained, Spend, Happenings
  <2>3. Cardinality(Auditing') = Cardinality(Auditing) /\ Cardinality(Auditing) \in Nat
    BY <2>1, Calm
  <2>. QED
    BY <1>0, <2>2, <2>3, Balance
<1>21. ASSUME NEW t \in Tokens, TokenRevoked(t) PROVE ChangesRecorded'
  <2>1. \A s \in Reqs : SameAudit(s)
    BY <1>0, <1>21 DEF TokenRevoked, SameAudit
  <2>2. unrecorded' = unrecorded /\ left'["redis"] <= left["redis"] /\ left'["restart"] <= left["restart"]
    BY <1>0, <1>21 DEF TokenRevoked, Spend, Happenings
  <2>3. Cardinality(Auditing') = Cardinality(Auditing) /\ Cardinality(Auditing) \in Nat
    BY <2>1, Calm
  <2>. QED
    BY <1>0, <2>2, <2>3, Balance
<1>22. ASSUME NEW p \in Procs, Restart(p) PROVE ChangesRecorded'
  <2>1. /\ req' = [r \in Reqs |-> IF req[r].proc = p THEN Idle ELSE req[r]]
        /\ unrecorded' = unrecorded
        /\ left'["restart"] = left["restart"] - 1 /\ left'["redis"] = left["redis"]
    BY <1>0, <1>22 DEF Restart, Spend, Happenings
  <2>2. CASE \E r \in Reqs : req[r].pc = "audit" /\ req[r].proc = p
    <3>1. PICK r \in Reqs : req[r].pc = "audit" /\ req[r].proc = p
      BY <2>2
    <3>2. \A s \in Reqs \ {r} : SameAudit(s)
      BY <2>1, <3>1 DEF OneBody, InBody, SameAudit, Idle
    <3>3. req'[r].pc # "audit"
      BY <2>1, <3>1 DEF Idle
    <3>. QED
      BY <1>0, <2>1, <3>1, <3>2, <3>3, Count, Balance
  <2>3. CASE ~\E r \in Reqs : req[r].pc = "audit" /\ req[r].proc = p
    <3>1. \A s \in Reqs : SameAudit(s)
      BY <2>1, <2>3 DEF SameAudit, Idle
    <3>2. Cardinality(Auditing') = Cardinality(Auditing) /\ Cardinality(Auditing) \in Nat
      BY <3>1, Calm
    <3>. QED
      BY <1>0, <2>1, <3>2, Balance
  <2>. QED
    BY <2>2, <2>3
<1>23. CASE Tick
  <2>1. \A s \in Reqs : SameAudit(s)
    BY <1>0, <1>23 DEF Tick, SameAudit, Idle, Request
  <2>2. unrecorded' = unrecorded /\ left'["redis"] <= left["redis"] /\ left'["restart"] <= left["restart"]
    BY <1>0, <1>23 DEF Tick
  <2>3. Cardinality(Auditing') = Cardinality(Auditing) /\ Cardinality(Auditing) \in Nat
    BY <2>1, Calm
  <2>. QED
    BY <1>0, <2>2, <2>3, Balance
<1>24. CASE UNCHANGED vars
  <2>1. \A s \in Reqs : SameAudit(s)
    BY <1>0, <1>24 DEF vars, SameAudit
  <2>2. unrecorded' = unrecorded /\ left'["redis"] <= left["redis"] /\ left'["restart"] <= left["restart"]
    BY <1>0, <1>24 DEF vars
  <2>3. Cardinality(Auditing') = Cardinality(Auditing) /\ Cardinality(Auditing) \in Nat
    BY <2>1, Calm
  <2>. QED
    BY <1>0, <2>2, <2>3, Balance
<1>. QED
  BY <1>1, <1>2, <1>3, <1>4, <1>5, <1>6, <1>7, <1>8, <1>9, <1>10, <1>11, <1>12,
     <1>13, <1>14, <1>15, <1>16, <1>17, <1>18, <1>19, <1>20, <1>21, <1>22,
     <1>23, <1>24
     DEF Next, Environment, NewRequest, ReqStep

\* "Every state-changing operation" is recorded: whatever has been changed and is
\* not in the audit list is about to be, unless a failure came between.
THEOREM EveryChangeRecorded == Spec => []ChangesRecorded
<1>1. Init => OneBody /\ ChangesRecorded
  <2> SUFFICES ASSUME Init PROVE OneBody /\ ChangesRecorded
    OBVIOUS
  <2>1. OneBody
    BY DEF Init, OneBody, Idle, InBody
  <2>2. Auditing = {}
    BY DEF Init, Auditing, Idle
  <2>3. Cardinality(Auditing) = 0
    BY <2>2, FS_EmptySet
  <2>4. Spent("redis") = 0 /\ Spent("restart") = 0 /\ unrecorded = 0
    BY AccessAssumptions DEF Init, Spent, Happenings
  <2>. QED
    BY <2>1, <2>3, <2>4 DEF ChangesRecorded, Auditing
<1>. QED
  BY <1>1, AccessTypeCorrect, NextOneBody, NextRecorded, PTL DEF Spec

-----------------------------------------------------------------------------
(* The size of the cache *)

Entries(p) == {t \in Tokens : cache[p][t] # NoEntry}

\* A process that forgets, or has nothing new to remember.
LEMMA Fewer ==
  ASSUME CacheWithinCap, NEW p \in Procs,
         \A t \in Tokens : cache[p][t] = NoEntry => cache'[p][t] = NoEntry
  PROVE  Cardinality(Entries(p)') <= CacheCap
<1>1. IsFiniteSet(Entries(p)) /\ Entries(p)' \subseteq Entries(p)
  BY AccessAssumptions, FS_Subset DEF Entries
<1>2. /\ IsFiniteSet(Entries(p)') /\ Cardinality(Entries(p)') \in Nat
      /\ Cardinality(Entries(p)) \in Nat /\ Cardinality(Entries(p)') <= Cardinality(Entries(p))
  BY <1>1, FS_Subset, FS_CardinalityType
<1>3. Cardinality(Entries(p)) <= CacheCap
  BY DEF CacheWithinCap, Entries
<1>4. CacheCap \in Nat
  BY AccessAssumptions
<1>. QED
  BY <1>2, <1>3, <1>4

\* One more is at most one more.
LEMMA AddOne ==
  ASSUME NEW S, IsFiniteSet(S), NEW x
  PROVE  IsFiniteSet(S \cup {x}) /\ Cardinality(S \cup {x}) <= Cardinality(S) + 1
<1>1. Cardinality(S) \in Nat
  BY FS_CardinalityType
<1>. QED
  BY <1>1, FS_AddElement

\* _cache_put makes room when there are too many.
LEMMA PutWithinCap ==
  ASSUME AccessTypeOK, CacheWithinCap, NEW p \in Procs, NEW t \in Tokens,
         NEW ctx \in Context, CachePut(p, t, ctx)
  PROVE  CacheWithinCap'
<1> DEFINE put == [cache[p] EXCEPT ![t] = [ctx |-> ctx, ttl |-> TTL]]
           full == {k \in Tokens : put[k] # NoEntry}
<1>1. cache \in [Procs -> [Tokens -> [ctx : Context \cup {NoContext}, ttl : -2..TTL]]]
  BY DEF AccessTypeOK, CacheTypeOK
<1>2. PICK drop \in IF Cardinality(full) > CacheCap THEN kSubset(CacheDrop, full) ELSE {{}} :
        cache' = [cache EXCEPT ![p] = [k \in Tokens |-> IF k \in drop THEN NoEntry ELSE put[k]]]
  BY DEF CachePut
<1>3. ASSUME NEW q \in Procs \ {p} PROVE Cardinality(Entries(q)') <= CacheCap
  <2>1. cache'[q] = cache[q]
    BY <1>1, <1>2
  <2>. QED
    BY <2>1, Fewer
<1>4. IsFiniteSet(full) /\ IsFiniteSet(Entries(p))
  BY AccessAssumptions, FS_Subset DEF Entries
<1>5. CacheCap \in Nat /\ CacheDrop \in 1..CacheCap
  BY AccessAssumptions
<1>6. Cardinality(Entries(p)) \in Nat /\ Cardinality(Entries(p)) <= CacheCap
  BY <1>4, FS_CardinalityType DEF CacheWithinCap, Entries
<1>7. Cardinality(full) \in Nat /\ Cardinality(full) <= CacheCap + 1
  <2>1. full \subseteq Entries(p) \cup {t}
    BY <1>1 DEF Entries
  <2>2. IsFiniteSet(Entries(p) \cup {t})
        /\ Cardinality(Entries(p) \cup {t}) <= Cardinality(Entries(p)) + 1
    BY <1>4, AddOne
  <2>3. Cardinality(Entries(p) \cup {t}) \in Nat /\ Cardinality(full) \in Nat
    BY <1>4, <2>2, FS_CardinalityType
  <2>4. Cardinality(full) <= Cardinality(Entries(p) \cup {t})
    BY <2>1, <2>2, FS_Subset
  <2> HIDE DEF full
  <2>. QED
    BY <1>5, <1>6, <2>2, <2>3, <2>4
<1>8. Entries(p)' = full \ drop
  BY <1>1, <1>2 DEF Entries
<1>9. Cardinality(full \ drop) <= CacheCap
  <2>1. CASE Cardinality(full) > CacheCap
    <3>1. drop \subseteq full /\ Cardinality(drop) = CacheDrop
      BY <1>2, <2>1 DEF kSubset
    <3>2. Cardinality(full \ drop) = Cardinality(full) - CacheDrop
      <4>1. full \cap drop = drop
        BY <3>1
      <4> HIDE DEF full
      <4>. QED
        BY <1>4, <3>1, <4>1, FS_Difference
    <3> HIDE DEF full
    <3>. QED
      BY <1>5, <1>7, <3>2
  <2>2. CASE ~(Cardinality(full) > CacheCap)
    <3>1. drop = {} /\ full \ {} = full
      BY <1>2, <2>2
    <3> HIDE DEF full
    <3>. QED
      BY <1>5, <1>7, <2>2, <3>1
  <2>. QED
    BY <2>1, <2>2
<1>10. Cardinality(Entries(p)') <= CacheCap
  BY <1>8, <1>9
<1>. QED
  BY <1>3, <1>10 DEF CacheWithinCap, Entries

\* Only a verification adds an entry, and it makes room first.
LEMMA NextWithinCap ==
  ASSUME AccessTypeOK, CacheWithinCap, [Next]_vars
  PROVE  CacheWithinCap'
<1>0. cache \in [Procs -> [Tokens -> [ctx : Context \cup {NoContext}, ttl : -2..TTL]]]
  BY DEF AccessTypeOK, CacheTypeOK
<1>1. ASSUME NEW r \in Reqs, NEW p \in Procs, NEW t \in Tokens, ArriveCached(r, p, t)
      PROVE  CacheWithinCap'
  <2>1. \A q \in Procs, k \in Tokens : cache[q][k] = NoEntry => cache'[q][k] = NoEntry
    BY <1>0, <1>1 DEF ArriveCached
  <2>. QED
    BY <2>1, Fewer DEF CacheWithinCap, Entries
<1>2. ASSUME NEW r \in Reqs, NEW p \in Procs, NEW t \in Tokens, ArriveAdmin(r, p, t)
      PROVE  CacheWithinCap'
  <2>1. PICK c : c = [login |-> t, insts |-> {}, admin |-> TRUE]
    OBVIOUS
  <2>2. c \in Context /\ CachePut(p, t, c)
    BY <1>2, <2>1, AccessAssumptions DEF ArriveAdmin, Context, Logins
  <2>. QED
    BY <2>2, PutWithinCap
<1>3. ASSUME NEW r \in Reqs, NEW p \in Procs, NEW t \in Tokens, Arrive(r, p, t)
      PROVE  CacheWithinCap'
  <2>1. \A q \in Procs, k \in Tokens : cache[q][k] = NoEntry => cache'[q][k] = NoEntry
    BY <1>0, <1>3 DEF Arrive
  <2>. QED
    BY <2>1, Fewer DEF CacheWithinCap, Entries
<1>4. ASSUME NEW r \in Reqs, GetUser(r) PROVE CacheWithinCap'
  <2>1. \A p \in Procs, t \in Tokens : cache[p][t] = NoEntry => cache'[p][t] = NoEntry
    BY <1>0, <1>4 DEF GetUser
  <2>. QED
    BY <2>1, Fewer DEF CacheWithinCap, Entries
<1>5. ASSUME NEW r \in Reqs, GetPage(r) PROVE CacheWithinCap'
  <2>1. \A p \in Procs, t \in Tokens : cache[p][t] = NoEntry => cache'[p][t] = NoEntry
    BY <1>0, <1>5 DEF GetPage
  <2>. QED
    BY <2>1, Fewer DEF CacheWithinCap, Entries
<1>6. ASSUME NEW r \in Reqs, PageRefused(r) PROVE CacheWithinCap'
  <2>1. \A p \in Procs, t \in Tokens : cache[p][t] = NoEntry => cache'[p][t] = NoEntry
    BY <1>0, <1>6 DEF PageRefused
  <2>. QED
    BY <2>1, Fewer DEF CacheWithinCap, Entries
<1>7. ASSUME NEW r \in Reqs, GithubUnreachable(r) PROVE CacheWithinCap'
  <2>1. \A p \in Procs, t \in Tokens : cache[p][t] = NoEntry => cache'[p][t] = NoEntry
    BY <1>0, <1>7 DEF GithubUnreachable
  <2>. QED
    BY <2>1, Fewer DEF CacheWithinCap, Entries
<1>8. ASSUME NEW r \in Reqs, Verified(r) PROVE CacheWithinCap'
  <2>1. /\ req[r].proc \in Procs /\ req[r].token \in Tokens /\ req[r].ctx \in Context
        /\ CachePut(req[r].proc, req[r].token, req[r].ctx)
    BY <1>8 DEF Verified, AccessTypeOK, RequestsTypeOK, Holds, Verifying
  <2>. QED
    BY <2>1, PutWithinCap
<1>9. ASSUME NEW r \in Reqs, NEW op \in Asked, CheckRole(r, op)
      PROVE  CacheWithinCap'
  <2>1. \A p \in Procs, t \in Tokens : cache[p][t] = NoEntry => cache'[p][t] = NoEntry
    BY <1>0, <1>9 DEF CheckRole
  <2>. QED
    BY <2>1, Fewer DEF CacheWithinCap, Entries
<1>10. ASSUME NEW r \in Reqs, NEW op \in Asked, CheckRoleFails(r, op)
      PROVE  CacheWithinCap'
  <2>1. \A p \in Procs, t \in Tokens : cache[p][t] = NoEntry => cache'[p][t] = NoEntry
    BY <1>0, <1>10 DEF CheckRoleFails
  <2>. QED
    BY <2>1, Fewer DEF CacheWithinCap, Entries
<1>11. ASSUME NEW r \in Reqs, GrantRole(r) PROVE CacheWithinCap'
  <2>1. \A p \in Procs, t \in Tokens : cache[p][t] = NoEntry => cache'[p][t] = NoEntry
    BY <1>0, <1>11 DEF GrantRole
  <2>. QED
    BY <2>1, Fewer DEF CacheWithinCap, Entries
<1>12. ASSUME NEW r \in Reqs, RevokeRole(r) PROVE CacheWithinCap'
  <2>1. \A p \in Procs, t \in Tokens : cache[p][t] = NoEntry => cache'[p][t] = NoEntry
    BY <1>0, <1>12 DEF RevokeRole
  <2>. QED
    BY <2>1, Fewer DEF CacheWithinCap, Entries
<1>13. ASSUME NEW r \in Reqs, ResetOrRequeue(r) PROVE CacheWithinCap'
  <2>1. \A p \in Procs, t \in Tokens : cache[p][t] = NoEntry => cache'[p][t] = NoEntry
    BY <1>0, <1>13 DEF ResetOrRequeue
  <2>. QED
    BY <2>1, Fewer DEF CacheWithinCap, Entries
<1>14. ASSUME NEW r \in Reqs, NotInDlq(r) PROVE CacheWithinCap'
  <2>1. \A p \in Procs, t \in Tokens : cache[p][t] = NoEntry => cache'[p][t] = NoEntry
    BY <1>0, <1>14 DEF NotInDlq
  <2>. QED
    BY <2>1, Fewer DEF CacheWithinCap, Entries
<1>15. ASSUME NEW r \in Reqs, ApplyFails(r) PROVE CacheWithinCap'
  <2>1. \A p \in Procs, t \in Tokens : cache[p][t] = NoEntry => cache'[p][t] = NoEntry
    BY <1>0, <1>15 DEF ApplyFails
  <2>. QED
    BY <2>1, Fewer DEF CacheWithinCap, Entries
<1>16. ASSUME NEW r \in Reqs, audit_log(r) PROVE CacheWithinCap'
  <2>1. \A p \in Procs, t \in Tokens : cache[p][t] = NoEntry => cache'[p][t] = NoEntry
    BY <1>0, <1>16 DEF audit_log
  <2>. QED
    BY <2>1, Fewer DEF CacheWithinCap, Entries
<1>17. ASSUME NEW r \in Reqs, AuditFails(r) PROVE CacheWithinCap'
  <2>1. \A p \in Procs, t \in Tokens : cache[p][t] = NoEntry => cache'[p][t] = NoEntry
    BY <1>0, <1>17 DEF AuditFails
  <2>. QED
    BY <2>1, Fewer DEF CacheWithinCap, Entries
<1>18. ASSUME NEW i \in Insts \cup {None}, JobCreated(i) PROVE CacheWithinCap'
  <2>1. \A p \in Procs, t \in Tokens : cache[p][t] = NoEntry => cache'[p][t] = NoEntry
    BY <1>0, <1>18 DEF JobCreated
  <2>. QED
    BY <2>1, Fewer DEF CacheWithinCap, Entries
<1>19. ASSUME NEW u \in Users, NEW i \in Insts, AccessLost(u, i)
      PROVE  CacheWithinCap'
  <2>1. \A p \in Procs, t \in Tokens : cache[p][t] = NoEntry => cache'[p][t] = NoEntry
    BY <1>0, <1>19 DEF AccessLost
  <2>. QED
    BY <2>1, Fewer DEF CacheWithinCap, Entries
<1>20. ASSUME NEW u \in Users, NEW i \in Insts, AccessGained(u, i)
      PROVE  CacheWithinCap'
  <2>1. \A p \in Procs, t \in Tokens : cache[p][t] = NoEntry => cache'[p][t] = NoEntry
    BY <1>0, <1>20 DEF AccessGained
  <2>. QED
    BY <2>1, Fewer DEF CacheWithinCap, Entries
<1>21. ASSUME NEW t \in Tokens, TokenRevoked(t) PROVE CacheWithinCap'
  <2>1. \A q \in Procs, k \in Tokens : cache[q][k] = NoEntry => cache'[q][k] = NoEntry
    BY <1>0, <1>21 DEF TokenRevoked
  <2>. QED
    BY <2>1, Fewer DEF CacheWithinCap, Entries
<1>22. ASSUME NEW p \in Procs, Restart(p) PROVE CacheWithinCap'
  <2>1. \A q \in Procs, k \in Tokens : cache[q][k] = NoEntry => cache'[q][k] = NoEntry
    BY <1>0, <1>22 DEF Restart
  <2>. QED
    BY <2>1, Fewer DEF CacheWithinCap, Entries
<1>23. CASE Tick
  <2>1. \A p \in Procs, t \in Tokens : cache[p][t] = NoEntry => cache'[p][t] = NoEntry
    BY <1>0, <1>23 DEF Tick, NoEntry
  <2>. QED
    BY <2>1, Fewer DEF CacheWithinCap, Entries
<1>24. CASE UNCHANGED vars
  <2>1. \A p \in Procs, t \in Tokens : cache[p][t] = NoEntry => cache'[p][t] = NoEntry
    BY <1>0, <1>24 DEF vars
  <2>. QED
    BY <2>1, Fewer DEF CacheWithinCap, Entries
<1>. QED
  BY <1>1, <1>2, <1>3, <1>4, <1>5, <1>6, <1>7, <1>8, <1>9, <1>10, <1>11, <1>12,
     <1>13, <1>14, <1>15, <1>16, <1>17, <1>18, <1>19, <1>20, <1>21, <1>22,
     <1>23, <1>24
     DEF Next, Environment, NewRequest, ReqStep

\* What _cache_put is for: the cache of a process stays within its size, however
\* many tokens are used.
THEOREM CacheIsBounded == Spec => []CacheWithinCap
<1>1. Init => CacheWithinCap
  <2> SUFFICES ASSUME Init, NEW p \in Procs PROVE Cardinality(Entries(p)) <= CacheCap
    BY DEF CacheWithinCap, Entries
  <2>1. Entries(p) = {}
    BY DEF Init, Entries
  <2>2. Cardinality(Entries(p)) = 0
    BY <2>1, FS_EmptySet
  <2>. QED
    BY <2>2, AccessAssumptions
<1>. QED
  BY <1>1, AccessTypeCorrect, NextWithinCap, PTL DEF Spec

-----------------------------------------------------------------------------
(* The two audit lists *)

\* Who moves down keeps in number.
LEMMA Shifted ==
  ASSUME NEW A \in SUBSET Nat, IsFiniteSet(A)
  PROVE  IsFiniteSet({m + 1 : m \in A}) /\ Cardinality({m + 1 : m \in A}) = Cardinality(A)
<1> DEFINE B == {m + 1 : m \in A}
           f == [m \in A |-> m + 1]
<1>1. f \in Bijection(A, B)
  BY DEF Bijection, Injection, Surjection, IsInjective
<1>2. ExistsBijection(A, B)
  BY <1>1 DEF ExistsBijection
<1>. QED
  BY <1>2, FS_Bijection

\* The entries about an installation among the n newest.
About(i, n) == {m \in 1..n : audit[m].inst = i}

LEMMA AboutFinite ==
  ASSUME NEW i, NEW n \in Nat
  PROVE  IsFiniteSet(About(i, n)) /\ Place(i, n) = Cardinality(About(i, n))
         /\ Place(i, n) \in Nat /\ About(i, n) \in SUBSET Nat
<1>1. About(i, n) \subseteq 1..n /\ IsFiniteSet(1..n)
  BY FS_Interval DEF About
<1>2. IsFiniteSet(About(i, n))
  BY <1>1, FS_Subset
<1>. QED
  BY <1>1, <1>2, FS_CardinalityType DEF About, Place

\* What append does to the place of an entry.
LEMMA PlaceMoves ==
  ASSUME AccessTypeOK, NEW e \in Entry, AuditAppend(e), NEW i \in Insts,
         NEW n \in Nat, n + 1 \in 1..Len(audit')
  PROVE  Place(i, n + 1)' = IF e.inst = i THEN Place(i, n) + 1 ELSE Place(i, n)
<1> DEFINE A == About(i, n)
           B == {m + 1 : m \in A}
<1>1. /\ audit' = Push(audit, e, GlobalCap) /\ audit \in Seq(Entry)
      /\ GlobalCap \in Nat \ {0}
  BY Sizes DEF AuditAppend, AccessTypeOK, StoresTypeOK
<1>2. /\ audit'[1] = e /\ Len(audit') \in Nat
      /\ \A k \in 2..Len(audit') : audit'[k] = audit[k - 1]
  <2> DEFINE new == Push(audit, e, GlobalCap)
  <2>1. /\ new \in Seq(Entry) /\ new[1] = e
        /\ \A k \in 2..Len(new) : k - 1 \in 1..Len(audit) /\ new[k] = audit[k - 1]
    <3>1. audit \in Seq(Entry) /\ GlobalCap \in Nat \ {0}
      BY <1>1
    <3>. QED  BY <3>1, PushFacts
  <2>. QED
    BY <1>1, <2>1
<1>3. About(i, n + 1)' = IF e.inst = i THEN B \cup {1} ELSE B
  <2>1. \A k \in 2..(n + 1) : audit'[k] = audit[k - 1]
    <3>. HIDE DEF A, B
    <3>1. n + 1 <= Len(audit') /\ Len(audit') \in Nat
      BY <1>2
    <3>. QED
      BY <1>2, <3>1
  <2>2. B = {k \in 2..(n + 1) : audit'[k].inst = i}
    <3>1. ASSUME NEW m \in A PROVE m + 1 \in 2..(n + 1) /\ audit'[m + 1].inst = i
      <4>1. m \in 1..n /\ audit[m].inst = i
        BY DEF About
      <4>2. m + 1 \in 2..(n + 1) /\ (m + 1) - 1 = m
        BY <4>1
      <4>. QED
        BY <2>1, <4>1, <4>2
    <3>2. ASSUME NEW k \in 2..(n + 1), audit'[k].inst = i PROVE k \in B
      <4>1. k - 1 \in 1..n /\ audit[k - 1].inst = i /\ k = (k - 1) + 1
        BY <2>1, <3>2
      <4>. QED
        BY <4>1 DEF About
    <3>. QED
      BY <3>1, <3>2
  <2>3. About(i, n + 1)' = {k \in 1..(n + 1) : audit'[k].inst = i}
    BY DEF About
  <2>4. B = {k \in 1..(n + 1) : k # 1 /\ audit'[k].inst = i}
    <3> HIDE DEF B
    <3>. QED  BY <2>2
  <2>5. {k \in 1..(n + 1) : audit'[k].inst = i}
          = {k \in 1..(n + 1) : k # 1 /\ audit'[k].inst = i} \cup {k \in {1} : e.inst = i}
    BY <1>2
  <2> HIDE DEF B
  <2>. QED
    BY <2>3, <2>4, <2>5
<1>4. /\ IsFiniteSet(B) /\ Cardinality(B) = Place(i, n) /\ Place(i, n) \in Nat /\ 1 \notin B
      /\ A \in SUBSET Nat
  <2>1. IsFiniteSet(A) /\ A \in SUBSET Nat /\ Place(i, n) = Cardinality(A) /\ Place(i, n) \in Nat
    BY AboutFinite
  <2>2. 1 \notin B
    BY DEF About
  <2> HIDE DEF A
  <2>. QED
    BY <2>1, <2>2, Shifted
<1>5. Place(i, n + 1)' = Cardinality(About(i, n + 1)')
  BY DEF Place, About
<1> HIDE DEF A, B
<1>6. Cardinality(B \cup {1}) = Cardinality(B) + 1
  BY <1>4, FS_AddElement
<1>. QED
  BY <1>3, <1>4, <1>5, <1>6

LEMMA NextListsAgree ==
  ASSUME AccessTypeOK, ListsAgree, AuditMove
  PROVE  ListsAgree'
<1>1. CASE UNCHANGED <<audit, per_install>>
  BY <1>1 DEF ListsAgree, Place
<1>2. ASSUME NEW e \in Entry, AuditAppend(e) PROVE ListsAgree'
  <2> SUFFICES ASSUME NEW i \in Insts, NEW n \in 1..Len(audit'),
                      audit'[n].inst = i, Place(i, n)' <= PerInstallCap
               PROVE  /\ Place(i, n)' <= Len(per_install'[i])
                      /\ per_install'[i][Place(i, n)'] = audit'[n]
    BY DEF ListsAgree
  <2> DEFINE own == per_install[i]
             k == n - 1
  <2>1. /\ audit' = Push(audit, e, GlobalCap) /\ audit \in Seq(Entry)
        /\ GlobalCap \in Nat \ {0} /\ PerInstallCap \in Nat \ {0}
        /\ per_install \in [Insts -> Seq(Entry)] /\ own \in Seq(Entry)
        /\ per_install'[i] = IF e.inst = i THEN Push(own, e, PerInstallCap) ELSE own
    BY <1>2, Sizes, AccessAssumptions DEF AuditAppend, AccessTypeOK, StoresTypeOK
  <2>2. /\ audit'[1] = e /\ Len(audit') \in Nat
        /\ \A j \in 2..Len(audit') : j - 1 \in 1..Len(audit) /\ audit'[j] = audit[j - 1]
    <3> DEFINE new == Push(audit, e, GlobalCap)
    <3>1. /\ new \in Seq(Entry) /\ new[1] = e
          /\ \A j \in 2..Len(new) : j - 1 \in 1..Len(audit) /\ new[j] = audit[j - 1]
      <4>1. audit \in Seq(Entry) /\ GlobalCap \in Nat \ {0}
        BY <2>1
      <4>2. new \in Seq(Entry)
        BY <4>1, PushFacts
      <4>3. new[1] = e
        BY <4>1, PushFacts
      <4>4. \A j \in 2..Len(new) : j - 1 \in 1..Len(audit) /\ new[j] = audit[j - 1]
        BY <4>1, PushFacts
      <4>. QED  BY <4>2, <4>3, <4>4
    <3> HIDE DEF own
    <3>2. audit' = new
      BY <2>1
    <3>3. Len(new) \in Nat
      BY <3>1
    <3>. QED
      BY <3>1, <3>2, <3>3
  <2>3. /\ Len(own) \in Nat
        /\ e.inst = i =>
             /\ per_install'[i][1] = e
             /\ Len(per_install'[i]) = IF Len(own) < PerInstallCap THEN Len(own) + 1 ELSE PerInstallCap
             /\ \A j \in 2..Len(per_install'[i]) : per_install'[i][j] = own[j - 1]
    <3> HIDE DEF own
    <3> DEFINE new == Push(own, e, PerInstallCap)
    <3>1. own \in Seq(Entry) /\ PerInstallCap \in Nat \ {0}
      BY <2>1
    <3>2. /\ new[1] = e
          /\ \A j \in 2..Len(new) : j - 1 \in 1..Len(own) /\ new[j] = own[j - 1]
      BY <3>1, PushFacts
    <3>3. Len(own) \in Nat
      BY <3>1
    <3>4. e.inst = i => per_install'[i] = new
      BY <2>1
    <3>5. Len(new) = IF Len(own) < PerInstallCap THEN Len(own) + 1 ELSE PerInstallCap
      <4>1. CASE Len(own) < PerInstallCap
        BY <3>1, <4>1, PushFacts
      <4>2. CASE ~(Len(own) < PerInstallCap)
        BY <3>1, <4>2, PushFacts
      <4>. QED
        BY <4>1, <4>2
    <3> HIDE DEF new
    <3>. QED
      BY <3>2, <3>3, <3>4, <3>5
  <2>4. k \in Nat /\ k + 1 = n /\ k + 1 \in 1..Len(audit')
    BY <2>2
  <2>5. Place(i, n)' = IF e.inst = i THEN Place(i, k) + 1 ELSE Place(i, k)
    <3> HIDE DEF k
    <3>1. Place(i, k + 1)' = IF e.inst = i THEN Place(i, k) + 1 ELSE Place(i, k)
      BY <1>2, <2>4, PlaceMoves
    <3>. QED
      BY <2>4, <3>1
  <2>6. Place(i, k) \in Nat /\ IsFiniteSet(About(i, k)) /\ Place(i, k) = Cardinality(About(i, k))
    <3> HIDE DEF k
    <3>. QED  BY <2>4, AboutFinite
  <2>7. CASE n = 1
    <3>1. About(i, k) = {}
      BY <2>7 DEF About
    <3>2. Place(i, k) = 0
      BY <2>6, <3>1, FS_EmptySet
    <3> HIDE DEF own, k
    <3>. QED
      BY <2>1, <2>2, <2>3, <2>5, <2>7, <3>2
  <2>8. CASE n # 1
    <3>1. n \in 2..Len(audit')
      BY <2>8
    <3>2. k \in 1..Len(audit) /\ audit'[n] = audit[k] /\ audit[k].inst = i
      BY <2>2, <3>1
    <3>3. Place(i, k) >= 1
      <4>1. k \in About(i, k)
        BY <2>4, <3>2 DEF About
      <4>2. Place(i, k) # 0
        BY <2>6, <4>1, FS_EmptySet
      <4> HIDE DEF k
      <4>. QED
        BY <2>6, <4>2
    <3>4. Place(i, k) <= PerInstallCap
      <4> HIDE DEF k
      <4>. QED  BY <2>1, <2>5, <2>6
    <3>5. Place(i, k) <= Len(own) /\ own[Place(i, k)] = audit[k]
      <4> HIDE DEF k
      <4>. QED  BY <3>2, <3>4 DEF ListsAgree
    <3> HIDE DEF own, k
    <3>6. CASE e.inst = i
      <4>1. Place(i, n)' \in 2..Len(per_install'[i]) /\ Place(i, n)' - 1 = Place(i, k)
        <5>1. Place(i, n)' = Place(i, k) + 1
          BY <2>5, <3>6
        <5>2. Place(i, n)' <= PerInstallCap
          BY <2>1
        <5>3. Len(per_install'[i]) = IF Len(own) < PerInstallCap THEN Len(own) + 1 ELSE PerInstallCap
          BY <2>3, <3>6
        <5>4. Place(i, k) \in Nat /\ Len(own) \in Nat /\ PerInstallCap \in Nat
          BY <2>1, <2>3, <2>6
        <5>. QED
          BY <3>3, <3>5, <5>1, <5>2, <5>3, <5>4
      <4>2. per_install'[i][Place(i, n)'] = own[Place(i, n)' - 1]
        BY <2>3, <3>6, <4>1
      <4>. QED
        BY <3>2, <3>5, <4>1, <4>2
    <3>7. CASE e.inst # i
      BY <2>1, <2>5, <3>2, <3>5, <3>7
    <3>. QED
      BY <3>6, <3>7
  <2>. QED
    BY <2>7, <2>8
<1>. QED
  BY <1>1, <1>2 DEF AuditMove

\* The two audit lists tell one story, however operations of several processes
\* interleave and whichever entries have been trimmed from either.
THEOREM AuditListsAgree == Spec => []ListsAgree
<1>1. Init => ListsAgree
  BY DEF Init, ListsAgree
<1>. QED
  BY <1>1, AccessTypeCorrect, AuditStep, NextListsAgree, PTL DEF Spec
=============================================================================
