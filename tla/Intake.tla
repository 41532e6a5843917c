------------------------------- MODULE Intake -------------------------------
(***************************************************************************)
(* The webhook endpoint (webhook/server.py) up to JobQueue.enqueue: dedup  *)
(* of deliveries, the trigger test and the quotas of queue/quota.py.       *)
(*                                                                         *)
(* The handler awaits nothing after it has read the body, so one process   *)
(* serves one delivery at a time; several processes interleave between     *)
(* Redis commands, and each action is one command or MULTI pipeline.       *)
(* Requests refused before the first command (signature, JSON, header)     *)
(* change no state and are left out; GitHub always names its delivery.     *)
(***************************************************************************)
EXTENDS Integers, FiniteSets

CONSTANTS
    Delivery,      \* X-GitHub-Delivery ids
    Inst,          \* installations
    NoInst,        \* a delivery outside any installation (PAT mode)
    InstOf,        \* the installation of each delivery
    Actionable,    \* the deliveries that match a trigger
    Server,        \* webhook processes
    NoDelivery,
    Limit,         \* limits_for: hour, day, concurrent; 0 is off
    Window,        \* length of the hour and the day, in ticks
    Horizon,       \* the last tick
    IntakeBudget   \* how often each fault may occur

Bucket == {"hour", "day"}
IntakeFaults == {"death",        \* the handler ends early: Redis error, crash
                 "dedupExpiry",  \* DEDUP_TTL runs out
                 "concExpiry"}   \* the counter's TTL runs out
Tick == 0..Horizon

ASSUME InstAssumption   == NoInst \notin Inst /\ InstOf \in [Delivery -> Inst \cup {NoInst}]
ASSUME DeliveryAssumption == NoDelivery \notin Delivery /\ Actionable \subseteq Delivery
ASSUME ServerAssumption == IsFiniteSet(Server) /\ Server # {}
ASSUME LimitAssumption  == Limit \in [Bucket \cup {"concurrent"} -> Nat]
ASSUME WindowAssumption == Horizon \in Nat /\ Window \in [Bucket -> Nat \ {0}]
ASSUME IntakeBudgetAssumption == IntakeBudget \in [IntakeFaults -> Nat]

VARIABLES
    \* Redis
    seen,      \* keys dedup:<delivery>
    hits,      \* ZSET quota:<bucket>:<inst>: how many members have each score
    conc,      \* STRING quota:concurrent:<inst>; 0 when missing
    ttl,       \* the counter has a TTL
    \* memory of the processes
    spc,       \* the next Redis command of the handler
    sdel,      \* the delivery it serves
    snow,      \* `now` of check_and_consume
    \* environment and history
    clock,
    faults,    \* faults so far
    made,      \* jobs enqueued for a delivery
    paid       \* consumptions of an installation by tick

quotaVars  == <<hits, conc, ttl>>
serverVars == <<spc, sdel, snow>>
intakeVars == <<seen, hits, conc, ttl, spc, sdel, snow, clock, faults, made, paid>>

ServerPC == {"idle", "concurrent", "hour", "day", "consume", "enqueue"}

IntakeTypeOK ==
    /\ seen \subseteq Delivery
    /\ hits \in [Bucket -> [Inst -> [Tick -> Nat]]]
    /\ conc \in [Inst -> Int]
    /\ ttl \in [Inst -> BOOLEAN]
    /\ spc \in [Server -> ServerPC]
    /\ sdel \in [Server -> Delivery \cup {NoDelivery}]
    /\ \A s \in Server : spc[s] # "idle" => sdel[s] \in Actionable
    /\ \A s \in Server : spc[s] \notin {"idle", "enqueue"} => InstOf[sdel[s]] \in Inst
    /\ snow \in [Server -> Tick]
    /\ clock \in Tick
    /\ faults \in [IntakeFaults -> Nat]
    /\ made \in [Delivery -> Nat]
    /\ paid \in [Inst -> [Tick -> Nat]]

-----------------------------------------------------------------------------
\* What f counts for the members of S: a set of things, each numbered under the
\* member it is counted for, and how many there are.
Units(f, S) == UNION {{x} \X (1..f[x]) : x \in S}
Total(f, S) == Cardinality(Units(f, S))

Fault(k) == /\ faults[k] < IntakeBudget[k]
            /\ faults' = [faults EXCEPT ![k] = @ + 1]

Proceed(s, label) == spc' = [spc EXCEPT ![s] = label]

\* The handler of s ends: the delivery is accepted, refused with 429 or failed
\* with 500, which GitHub takes note of and the program does not.
Reply(s) ==
    /\ spc' = [spc EXCEPT ![s] = "idle"]
    /\ sdel' = [sdel EXCEPT ![s] = NoDelivery]
    /\ snow' = [snow EXCEPT ![s] = 0]

\* An installation outside check_and_consume's early return.
InstIn(s) == InstOf[sdel[s]]

IntakeInit ==
    /\ seen = {}
    /\ hits = [b \in Bucket |-> [i \in Inst |-> [t \in Tick |-> 0]]]
    /\ conc = [i \in Inst |-> 0]
    /\ ttl = [i \in Inst |-> FALSE]
    /\ spc = [s \in Server |-> "idle"]
    /\ sdel = [s \in Server |-> NoDelivery]
    /\ snow = [s \in Server |-> 0]
    /\ clock = 0
    /\ faults = [k \in IntakeFaults |-> 0]
    /\ made = [d \in Delivery |-> 0]
    /\ paid = [i \in Inst |-> [t \in Tick |-> 0]]

-----------------------------------------------------------------------------
\* The handler

\* already_seen: SET NX EX finds the key, and that is all.
Deduped(s, d) == spc[s] = "idle" /\ d \in seen /\ UNCHANGED intakeVars

\* already_seen marks the delivery, _is_actionable says no.
Ignored(s, d) ==
    /\ spc[s] = "idle"
    /\ d \notin seen \cup Actionable
    /\ seen' = seen \cup {d}
    /\ UNCHANGED <<quotaVars, serverVars, clock, faults, made, paid>>

\* Mutant: the delivery is looked up but marked nowhere.
ServeUnmarked(s, d) ==
    /\ spc[s] = "idle"
    /\ d \in Actionable \ seen
    /\ sdel' = [sdel EXCEPT ![s] = d]
    /\ Proceed(s, IF InstOf[d] = NoInst THEN "enqueue" ELSE "concurrent")
    /\ UNCHANGED <<seen, quotaVars, snow, clock, faults, made, paid>>

\* already_seen marks the delivery; without an installation no quota applies.
Serve(s, d) ==
    /\ spc[s] = "idle"
    /\ d \in Actionable \ seen
    /\ seen' = seen \cup {d}
    /\ sdel' = [sdel EXCEPT ![s] = d]
    /\ Proceed(s, IF InstOf[d] = NoInst THEN "enqueue" ELSE "concurrent")
    /\ UNCHANGED <<quotaVars, snow, clock, faults, made, paid>>

\* check_and_consume: GET the counter; then read the clock.
CheckConcurrent(s) ==
    /\ spc[s] = "concurrent"
    /\ IF Limit["concurrent"] > 0 /\ conc[InstIn(s)] >= Limit["concurrent"]
       THEN Reply(s)
       ELSE /\ Proceed(s, "hour")
            /\ snow' = [snow EXCEPT ![s] = clock]
            /\ UNCHANGED sdel
    /\ UNCHANGED <<seen, quotaVars, clock, faults, made, paid>>

\* Mutant: the window is one tick short.
TrimmedEarly(z, b, now) == [t \in Tick |-> IF t < now - Window[b] + 2 THEN 0 ELSE z[t]]

\* ZREMRANGEBYSCORE 0 (now - window).
Trimmed(z, b, now) == [t \in Tick |-> IF t <= now - Window[b] THEN 0 ELSE z[t]]

\* Mutant: the pipeline that counts a bucket charges it as well.
CheckBucketCharging(s, b) ==
    LET z == Trimmed(hits[b][InstIn(s)], b, snow[s]) IN
    /\ spc[s] = b
    /\ IF Limit[b] > 0 /\ Total(z, Tick) >= Limit[b]
       THEN Reply(s) /\ UNCHANGED hits
       ELSE /\ Proceed(s, IF b = "hour" THEN "day" ELSE "consume")
            /\ hits' = [hits EXCEPT ![b][InstIn(s)] = [z EXCEPT ![snow[s]] = @ + 1]]
            /\ UNCHANGED <<sdel, snow>>
    /\ UNCHANGED <<seen, conc, ttl, clock, faults, made, paid>>

\* check_and_consume: trim a bucket and count it, in one pipeline.
CheckBucket(s, b) ==
    LET z == Trimmed(hits[b][InstIn(s)], b, snow[s]) IN
    /\ spc[s] = b
    /\ hits' = IF Limit[b] = 0 THEN hits ELSE [hits EXCEPT ![b][InstIn(s)] = z]
    /\ IF Limit[b] > 0 /\ Total(z, Tick) >= Limit[b]
       THEN Reply(s)
       ELSE /\ Proceed(s, IF b = "hour" THEN "day" ELSE "consume")
            /\ UNCHANGED <<sdel, snow>>
    /\ UNCHANGED <<seen, conc, ttl, clock, faults, made, paid>>

\* Mutant: INCR without EXPIRE.
ConsumeForever(s) ==
    LET i == InstIn(s) IN
    /\ spc[s] = "consume"
    /\ hits' = [b \in Bucket |->
                   IF Limit[b] = 0 THEN hits[b]
                   ELSE [hits[b] EXCEPT ![i][snow[s]] = @ + 1]]
    /\ conc' = [conc EXCEPT ![i] = @ + 1]
    /\ paid' = [paid EXCEPT ![i][snow[s]] = @ + 1]
    /\ Proceed(s, "enqueue")
    /\ UNCHANGED <<seen, ttl, sdel, snow, clock, faults, made>>

\* All checks passed: ZADD every enabled bucket, INCR and EXPIRE the counter.
Consume(s) ==
    LET i == InstIn(s) IN
    /\ spc[s] = "consume"
    /\ hits' = [b \in Bucket |->
                   IF Limit[b] = 0 THEN hits[b]
                   ELSE [hits[b] EXCEPT ![i][snow[s]] = @ + 1]]
    /\ IF Limit["concurrent"] = 0 THEN UNCHANGED <<conc, ttl>>
       ELSE /\ conc' = [conc EXCEPT ![i] = @ + 1]
            /\ ttl' = [ttl EXCEPT ![i] = TRUE]
    /\ paid' = [paid EXCEPT ![i][snow[s]] = @ + 1]
    /\ Proceed(s, "enqueue")
    /\ UNCHANGED <<seen, sdel, snow, clock, faults, made>>

\* queue.enqueue and the answer 200.
EnqueueJob(s) ==
    /\ spc[s] = "enqueue"
    /\ made' = [made EXCEPT ![sdel[s]] = @ + 1]
    /\ Reply(s)
    /\ UNCHANGED <<seen, quotaVars, clock, faults, paid>>

\* The next command raises (answer 500) or the process dies.
HandlerDies(s) ==
    /\ spc[s] # "idle"
    /\ Fault("death")
    /\ Reply(s)
    /\ UNCHANGED <<seen, quotaVars, clock, made, paid>>

-----------------------------------------------------------------------------
\* release_concurrent, called by a worker for a job of installation i

\* DECR: a missing key becomes -1 and gets no TTL.
Decr(i) == conc' = [conc EXCEPT ![i] = @ - 1]

\* "if val < 0": SET 0, which also clears the TTL.
SetZero(i) == /\ conc' = [conc EXCEPT ![i] = 0]
              /\ ttl' = [ttl EXCEPT ![i] = FALSE]

-----------------------------------------------------------------------------
\* The environment

Advance ==
    /\ clock < Horizon
    /\ clock' = clock + 1
    /\ UNCHANGED <<seen, quotaVars, serverVars, faults, made, paid>>

DedupExpires(d) ==
    /\ d \in seen
    /\ Fault("dedupExpiry")
    /\ seen' = seen \ {d}
    /\ UNCHANGED <<quotaVars, serverVars, clock, made, paid>>

\* The counter's key goes when no job has been accepted for an hour.
ConcExpires(i) ==
    /\ ttl[i]
    /\ SetZero(i)
    /\ UNCHANGED <<seen, hits, serverVars, clock, made, paid>>

ServerStep(s) ==
    \/ CheckConcurrent(s) \/ \E b \in Bucket : CheckBucket(s, b)
    \/ Consume(s) \/ EnqueueJob(s)

Request(s, d) == Deduped(s, d) \/ Ignored(s, d) \/ Serve(s, d)

IntakeNext ==
    \/ \E s \in Server : ServerStep(s) \/ HandlerDies(s)
    \/ \E s \in Server, d \in Delivery : Request(s, d)
    \/ \E d \in Delivery : DedupExpires(d)
    \/ \E i \in Inst : ConcExpires(i) /\ Fault("concExpiry")
    \/ Advance

IntakeSpec == IntakeInit /\ [][IntakeNext]_intakeVars

-----------------------------------------------------------------------------
\* Properties

\* "Idempotence webhook" (docs/QUEUE_AND_OBSERVABILITY.md:49): a delivery is
\* enqueued once, however often GitHub sends it, to whichever processes, and
\* wherever they fail; once more only if its dedup key has run out.
OneJobPerDelivery ==
    \A d \in Delivery :
        made[d] + Cardinality({s \in Server : sdel[s] = d})
            <= 1 + faults["dedupExpiry"]

\* The jobs of an installation that are enqueued or about to be.
Backed(i) ==
    LET mine == {d \in Delivery : InstOf[d] = i} IN
    Total(made, mine) + Cardinality({s \in Server : spc[s] = "enqueue" /\ sdel[s] \in mine})

\* "consume on success" (quota.py:86): each of the three keys of an installation
\* counts its jobs that are enqueued or about to be.  None counts one that a
\* later bucket refused, only a handler that dies may leave a charge without a
\* job; a window that is not over and a counter that has not run out count all.
ChargedOnSuccess ==
    \A i \in Inst :
        /\ \A b \in Bucket : Limit[b] > 0 =>
              /\ Total(hits[b][i], Tick) <= Backed(i) + faults["death"]
              /\ clock < Window[b] => Total(hits[b][i], Tick) >= Backed(i)
        /\ Limit["concurrent"] > 0 =>
              /\ conc[i] <= Backed(i) + faults["death"]
              /\ faults["concExpiry"] = 0 => conc[i] >= Backed(i)

\* "max jobs accepted per installation per hour" and "per day" (quota.py:5-6):
\* checking and consuming are two round trips, so a window, wherever it
\* begins, may hold more than the limit: while it lasts by one job for each
\* further webhook process, and by as many again when it is over, since a
\* process that has read the clock in it may find its hits trimmed by one that
\* has read it later.  One process alone keeps the limit.
Span(b, t) == t..(t + Window[b] - 1) \cap Tick
WindowRespected ==
    \A i \in Inst, b \in Bucket, t \in Tick :
        Limit[b] > 0 =>
            LET accepted == Total(paid[i], Span(b, t))
                excess   == Cardinality(Server) - 1
            IN  /\ clock < t + Window[b] => accepted <= Limit[b] + excess
                /\ accepted <= Limit[b] + 2 * excess

=============================================================================
