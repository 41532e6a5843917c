---------------------------- MODULE IntakeProofs ----------------------------
(***************************************************************************)
(* Machine-checked proofs about Intake, for every set of deliveries,       *)
(* installations and webhook processes, whatever the limits are.           *)
(***************************************************************************)
EXTENDS Intake, FiniteSetTheorems, TLAPS

-----------------------------------------------------------------------------
(* Counting *)

LEMMA InUnits ==
  ASSUME NEW f, NEW S, NEW u
  PROVE  u \in Units(f, S) <=> \E x \in S : \E n \in 1..f[x] : u = <<x, n>>
  BY DEF Units

\* Nothing is counted.
LEMMA NoUnits ==
  ASSUME NEW f, NEW S, \A x \in S : f[x] = 0
  PROVE  IsFiniteSet(Units(f, S)) /\ Total(f, S) = 0
<1>1. Units(f, S) = {}
  BY InUnits
<1>. QED
  BY <1>1, FS_EmptySet DEF Total

\* The count is of the members only.
LEMMA SameUnits ==
  ASSUME NEW f, NEW g, NEW S, \A x \in S : g[x] = f[x]
  PROVE  Units(g, S) = Units(f, S) /\ Total(g, S) = Total(f, S)
<1>1. ASSUME NEW u PROVE u \in Units(g, S) <=> u \in Units(f, S)
  BY InUnits
<1>2. Units(g, S) = Units(f, S)
  BY <1>1
<1>. QED
  BY <1>2 DEF Total

\* One more for one member is one more.
LEMMA OneMoreUnit ==
  ASSUME NEW f, NEW g, NEW S, NEW x \in S, IsFiniteSet(Units(f, S)),
         f[x] \in Nat, g[x] = f[x] + 1, \A y \in S : y # x => g[y] = f[y]
  PROVE  /\ IsFiniteSet(Units(g, S)) /\ Total(g, S) = Total(f, S) + 1
         /\ Total(f, S) \in Nat
<1> DEFINE new == <<x, f[x] + 1>>
<1>1. new \notin Units(f, S)
  BY InUnits
<1>2. ASSUME NEW u PROVE u \in Units(g, S) <=> u \in Units(f, S) \cup {new}
  <2>1. ASSUME NEW y \in S, NEW n \in 1..g[y], u = <<y, n>>
        PROVE  u = new \/ \E z \in S : \E m \in 1..f[z] : u = <<z, m>>
    <3>1. CASE y # x
      BY <2>1, <3>1
    <3>2. CASE y = x /\ n = f[x] + 1
      BY <2>1, <3>2
    <3>3. CASE y = x /\ n # f[x] + 1
      <4>1. n \in 1..f[x]
        BY <2>1, <3>3
      <4>. QED
        BY <2>1, <3>3, <4>1
    <3>. QED
      BY <3>1, <3>2, <3>3
  <2>2. ASSUME NEW y \in S, NEW n \in 1..f[y] PROVE n \in 1..g[y]
    <3>1. CASE y = x
      BY <2>2, <3>1
    <3>2. CASE y # x
      BY <2>2, <3>2
    <3>. QED
      BY <3>1, <3>2
  <2>3. f[x] + 1 \in 1..g[x]
    OBVIOUS
  <2>4. u \in Units(g, S) <=> \E y \in S : \E n \in 1..g[y] : u = <<y, n>>
    BY InUnits
  <2>5. u \in Units(f, S) <=> \E y \in S : \E n \in 1..f[y] : u = <<y, n>>
    BY InUnits
  <2>6. u \in Units(g, S) => u \in Units(f, S) \/ u = new
    BY <2>1, <2>4, <2>5
  <2>7. u \in Units(f, S) => u \in Units(g, S)
    BY <2>2, <2>4, <2>5
  <2>8. new \in Units(g, S)
    BY <2>3, InUnits
  <2>. QED
    BY <2>6, <2>7, <2>8
<1>3. Units(g, S) = Units(f, S) \cup {new}
  BY <1>2
<1>. QED
  BY <1>1, <1>3, FS_AddElement, FS_CardinalityType DEF Total

\* Fewer members, and fewer things for each of them, are fewer things.
LEMMA FewerUnits ==
  ASSUME NEW f, NEW g, NEW S, NEW T, S \subseteq T, IsFiniteSet(Units(g, T)),
         \A x \in S : f[x] \in Nat /\ g[x] \in Nat /\ f[x] <= g[x]
  PROVE  /\ IsFiniteSet(Units(f, S)) /\ Total(f, S) <= Total(g, T)
         /\ Total(f, S) \in Nat /\ Total(g, T) \in Nat
<1>1. ASSUME NEW u \in Units(f, S) PROVE u \in Units(g, T)
  <2>1. PICK x \in S : \E n \in 1..f[x] : u = <<x, n>>
    BY InUnits
  <2>2. PICK n \in 1..f[x] : u = <<x, n>>
    BY <2>1
  <2>3. x \in T /\ n \in 1..g[x]
    OBVIOUS
  <2>. QED
    BY <2>2, <2>3, InUnits
<1>2. Units(f, S) \subseteq Units(g, T)
  BY <1>1
<1>. QED
  BY <1>2, FS_Subset, FS_CardinalityType DEF Total

-----------------------------------------------------------------------------
(* Types *)

\* A counter, a window and a process are what they are for.
QuotaType ==
    /\ hits \in [Bucket -> [Inst -> [Tick -> Nat]]]
    /\ conc \in [Inst -> Int] /\ ttl \in [Inst -> BOOLEAN]
ServerType ==
    /\ spc \in [Server -> ServerPC]
    /\ sdel \in [Server -> Delivery \cup {NoDelivery}]
    /\ \A s \in Server : spc[s] # "idle" => sdel[s] \in Actionable
    /\ \A s \in Server : spc[s] \notin {"idle", "enqueue"} => InstOf[sdel[s]] \in Inst
    /\ snow \in [Server -> Tick]
HistoryType ==
    /\ seen \subseteq Delivery /\ clock \in Tick
    /\ faults \in [IntakeFaults -> Nat]
    /\ made \in [Delivery -> Nat] /\ paid \in [Inst -> [Tick -> Nat]]

LEMMA TypeParts == IntakeTypeOK <=> QuotaType /\ ServerType /\ HistoryType
  BY DEF IntakeTypeOK, QuotaType, ServerType, HistoryType

LEMMA TrimType ==
  ASSUME NEW z \in [Tick -> Nat], NEW b, NEW now PROVE Trimmed(z, b, now) \in [Tick -> Nat]
  BY DEF Trimmed

LEMMA IntakeInitType == IntakeInit => IntakeTypeOK
  BY WindowAssumption DEF IntakeInit, IntakeTypeOK, ServerPC, Tick

\* Windows and counters.
LEMMA NextQuota ==
  ASSUME IntakeTypeOK, [IntakeNext]_intakeVars
  PROVE  QuotaType'
<1>0. QuotaType /\ ServerType /\ HistoryType
  BY TypeParts
<1>1. ASSUME NEW s \in Server, CheckConcurrent(s) PROVE QuotaType'
  BY <1>0, <1>1 DEF CheckConcurrent, QuotaType, quotaVars
<1>2. ASSUME NEW s \in Server, NEW b \in Bucket, CheckBucket(s, b)
      PROVE  QuotaType'
  <2>1. InstIn(s) \in Inst /\ hits[b][InstIn(s)] \in [Tick -> Nat]
    BY <1>0, <1>2 DEF CheckBucket, QuotaType, ServerType, InstIn, Bucket
  <2>2. Trimmed(hits[b][InstIn(s)], b, snow[s]) \in [Tick -> Nat]
    BY <2>1, TrimType
  <2>. QED
    BY <1>0, <1>2, <2>1, <2>2 DEF CheckBucket, QuotaType
<1>3. ASSUME NEW s \in Server, Consume(s) PROVE QuotaType'
  <2>1. InstIn(s) \in Inst /\ snow[s] \in Tick
    BY <1>0, <1>3 DEF Consume, ServerType, InstIn
  <2>2. conc' \in [Inst -> Int] /\ ttl' \in [Inst -> BOOLEAN]
    <3>1. \/ UNCHANGED <<conc, ttl>>
          \/ /\ conc' = [conc EXCEPT ![InstIn(s)] = @ + 1]
             /\ ttl' = [ttl EXCEPT ![InstIn(s)] = TRUE]
      BY <1>3 DEF Consume
    <3>2. conc \in [Inst -> Int] /\ ttl \in [Inst -> BOOLEAN]
      BY <1>0 DEF QuotaType
    <3>3. \A i \in Inst : [conc EXCEPT ![i] = @ + 1] \in [Inst -> Int]
      BY <3>2
    <3>4. \A i \in Inst : [ttl EXCEPT ![i] = TRUE] \in [Inst -> BOOLEAN]
      BY <3>2
    <3>. QED
      BY <2>1, <3>1, <3>2, <3>3, <3>4
  <2>3. hits' \in [Bucket -> [Inst -> [Tick -> Nat]]]
    BY <1>0, <1>3, <2>1 DEF Consume, QuotaType
  <2>. QED
    BY <2>2, <2>3 DEF QuotaType
<1>4. ASSUME NEW s \in Server, EnqueueJob(s) PROVE QuotaType'
  BY <1>0, <1>4 DEF EnqueueJob, QuotaType, quotaVars
<1>5. ASSUME NEW s \in Server, HandlerDies(s) PROVE QuotaType'
  BY <1>0, <1>5 DEF HandlerDies, QuotaType, quotaVars
<1>6. ASSUME NEW s \in Server, NEW d \in Delivery, Deduped(s, d)
      PROVE  QuotaType'
  BY <1>0, <1>6 DEF Deduped, intakeVars, quotaVars, QuotaType
<1>7. ASSUME NEW s \in Server, NEW d \in Delivery, Ignored(s, d)
      PROVE  QuotaType'
  BY <1>0, <1>7 DEF Ignored, QuotaType, quotaVars
<1>8. ASSUME NEW s \in Server, NEW d \in Delivery, Serve(s, d) PROVE QuotaType'
  BY <1>0, <1>8 DEF Serve, QuotaType, quotaVars
<1>9. ASSUME NEW d \in Delivery, DedupExpires(d) PROVE QuotaType'
  BY <1>0, <1>9 DEF DedupExpires, QuotaType, quotaVars
<1>10. ASSUME NEW i \in Inst, ConcExpires(i), Fault("concExpiry")
      PROVE  QuotaType'
  BY <1>0, <1>10 DEF ConcExpires, SetZero, QuotaType
<1>11. CASE Advance
  BY <1>0, <1>11 DEF Advance, QuotaType, quotaVars
<1>12. CASE UNCHANGED intakeVars
  BY <1>0, <1>12 DEF intakeVars, quotaVars, QuotaType
<1>. QED
  BY <1>1, <1>2, <1>3, <1>4, <1>5, <1>6, <1>7, <1>8, <1>9, <1>10, <1>11, <1>12
     DEF IntakeNext, ServerStep, Request

\* Handlers serve deliveries that match, and charge installations only.
LEMMA NextServer ==
  ASSUME IntakeTypeOK, [IntakeNext]_intakeVars
  PROVE  ServerType'
<1>0. QuotaType /\ ServerType /\ HistoryType
  BY TypeParts
<1>1. ASSUME NEW s \in Server, CheckConcurrent(s) PROVE ServerType'
  <2>1. 0 \in Tick
    BY WindowAssumption DEF Tick
  <2>. QED
    BY <1>0, <1>1, <2>1, ZenonT(60) DEF CheckConcurrent, Reply, Proceed, ServerType, ServerPC, HistoryType, Bucket
<1>2. ASSUME NEW s \in Server, NEW b \in Bucket, CheckBucket(s, b)
      PROVE  ServerType'
  <2>1. 0 \in Tick
    BY WindowAssumption DEF Tick
  <2>. QED
    BY <1>0, <1>2, <2>1 DEF CheckBucket, Reply, Proceed, ServerType, ServerPC, HistoryType, Bucket
<1>3. ASSUME NEW s \in Server, Consume(s) PROVE ServerType'
  BY <1>0, <1>3 DEF Consume, Proceed, ServerType, ServerPC
<1>4. ASSUME NEW s \in Server, EnqueueJob(s) PROVE ServerType'
  <2>1. 0 \in Tick
    BY WindowAssumption DEF Tick
  <2>. QED
    BY <1>0, <1>4, <2>1 DEF EnqueueJob, Reply, Proceed, ServerType, ServerPC, HistoryType, Bucket
<1>5. ASSUME NEW s \in Server, HandlerDies(s) PROVE ServerType'
  <2>1. 0 \in Tick
    BY WindowAssumption DEF Tick
  <2>. QED
    BY <1>0, <1>5, <2>1 DEF HandlerDies, Reply, Proceed, ServerType, ServerPC, HistoryType, Bucket
<1>6. ASSUME NEW s \in Server, NEW d \in Delivery, Deduped(s, d)
      PROVE  ServerType'
  BY <1>0, <1>6 DEF Deduped, intakeVars, serverVars, ServerType
<1>7. ASSUME NEW s \in Server, NEW d \in Delivery, Ignored(s, d)
      PROVE  ServerType'
  BY <1>0, <1>7 DEF Ignored, ServerType, serverVars
<1>8. ASSUME NEW s \in Server, NEW d \in Delivery, Serve(s, d) PROVE ServerType'
  BY <1>0, <1>8, InstAssumption, DeliveryAssumption DEF Serve, Proceed, ServerType, ServerPC
<1>9. ASSUME NEW d \in Delivery, DedupExpires(d) PROVE ServerType'
  BY <1>0, <1>9 DEF DedupExpires, ServerType, serverVars
<1>10. ASSUME NEW i \in Inst, ConcExpires(i), Fault("concExpiry")
      PROVE  ServerType'
  BY <1>0, <1>10 DEF ConcExpires, ServerType, serverVars
<1>11. CASE Advance
  BY <1>0, <1>11 DEF Advance, ServerType, serverVars
<1>12. CASE UNCHANGED intakeVars
  BY <1>0, <1>12 DEF intakeVars, serverVars, ServerType
<1>. QED
  BY <1>1, <1>2, <1>3, <1>4, <1>5, <1>6, <1>7, <1>8, <1>9, <1>10, <1>11, <1>12
     DEF IntakeNext, ServerStep, Request

\* The rest.
LEMMA NextHistory ==
  ASSUME IntakeTypeOK, [IntakeNext]_intakeVars
  PROVE  HistoryType'
<1>0. QuotaType /\ ServerType /\ HistoryType
  BY TypeParts
<1>1. ASSUME NEW s \in Server, CheckConcurrent(s) PROVE HistoryType'
  BY <1>0, <1>1 DEF CheckConcurrent, HistoryType
<1>2. ASSUME NEW s \in Server, NEW b \in Bucket, CheckBucket(s, b)
      PROVE  HistoryType'
  BY <1>0, <1>2 DEF CheckBucket, HistoryType
<1>3. ASSUME NEW s \in Server, Consume(s) PROVE HistoryType'
  <2>1. InstIn(s) \in Inst /\ snow[s] \in Tick
    BY <1>0, <1>3 DEF Consume, ServerType, InstIn
  <2>. QED
    BY <1>0, <1>3, <2>1 DEF Consume, HistoryType
<1>4. ASSUME NEW s \in Server, EnqueueJob(s) PROVE HistoryType'
  BY <1>0, <1>4, DeliveryAssumption DEF EnqueueJob, HistoryType, ServerType
<1>5. ASSUME NEW s \in Server, HandlerDies(s) PROVE HistoryType'
  BY <1>0, <1>5 DEF HandlerDies, HistoryType, Fault, IntakeFaults
<1>6. ASSUME NEW s \in Server, NEW d \in Delivery, Deduped(s, d)
      PROVE  HistoryType'
  BY <1>0, <1>6 DEF Deduped, intakeVars, HistoryType
<1>7. ASSUME NEW s \in Server, NEW d \in Delivery, Ignored(s, d)
      PROVE  HistoryType'
  BY <1>0, <1>7 DEF Ignored, HistoryType
<1>8. ASSUME NEW s \in Server, NEW d \in Delivery, Serve(s, d)
      PROVE  HistoryType'
  BY <1>0, <1>8 DEF Serve, HistoryType
<1>9. ASSUME NEW d \in Delivery, DedupExpires(d) PROVE HistoryType'
  BY <1>0, <1>9 DEF DedupExpires, HistoryType, Fault, IntakeFaults
<1>10. ASSUME NEW i \in Inst, ConcExpires(i), Fault("concExpiry")
      PROVE  HistoryType'
  BY <1>0, <1>10 DEF ConcExpires, HistoryType, Fault, IntakeFaults
<1>11. CASE Advance
  BY <1>0, <1>11, WindowAssumption DEF Advance, HistoryType, Tick
<1>12. CASE UNCHANGED intakeVars
  BY <1>0, <1>12 DEF intakeVars, HistoryType
<1>. QED
  BY <1>1, <1>2, <1>3, <1>4, <1>5, <1>6, <1>7, <1>8, <1>9, <1>10, <1>11, <1>12
     DEF IntakeNext, ServerStep, Request

\* Every variable keeps its type.
THEOREM IntakeTypeCorrect == IntakeSpec => []IntakeTypeOK
<1>1. IntakeTypeOK /\ [IntakeNext]_intakeVars => IntakeTypeOK'
  BY NextQuota, NextServer, NextHistory DEF IntakeTypeOK, QuotaType, ServerType, HistoryType
<1>. QED
  BY <1>1, IntakeInitType, PTL DEF IntakeSpec

-----------------------------------------------------------------------------
(* One job per delivery *)

Serving(d) == {s \in Server : sdel[s] = d}

\* A delivery may still be served as often as its dedup key is missing.
Tickets(d) == IF d \in seen THEN 0 ELSE 1

\* What was made, is being made and may be made is one job, and one more each
\* time the dedup key has run out.
OneTicket ==
    \A d \in Delivery :
        made[d] + Cardinality(Serving(d)) + Tickets(d) <= 1 + faults["dedupExpiry"]

LEMMA ServingFinite ==
  ASSUME NEW d
  PROVE  /\ IsFiniteSet(Serving(d)) /\ Cardinality(Serving(d)) \in Nat
         /\ IsFiniteSet(Serving(d)') /\ Cardinality(Serving(d)') \in Nat
<1>1. Serving(d) \subseteq Server /\ Serving(d)' \subseteq Server
  BY DEF Serving
<1>. QED
  BY <1>1, ServerAssumption, FS_Subset, FS_CardinalityType

\* Nobody takes it up.
LEMMA NoMoreServing ==
  ASSUME NEW d, Serving(d)' \subseteq Serving(d)
  PROVE  Cardinality(Serving(d)') <= Cardinality(Serving(d))
  BY ServingFinite, FS_Subset

\* One more is at most one more.
LEMMA AtMostOneMore ==
  ASSUME NEW A, IsFiniteSet(A), NEW x, NEW B, B \subseteq A \cup {x}
  PROVE  Cardinality(B) <= Cardinality(A) + 1
<1>1. /\ IsFiniteSet(A \cup {x}) /\ Cardinality(A) \in Nat
      /\ Cardinality(A \cup {x}) = IF x \in A THEN Cardinality(A) ELSE Cardinality(A) + 1
  BY FS_AddElement, FS_CardinalityType
<1>2. Cardinality(A \cup {x}) <= Cardinality(A) + 1 /\ Cardinality(A \cup {x}) \in Nat
  BY <1>1
<1>3. /\ IsFiniteSet(B) /\ Cardinality(B) <= Cardinality(A \cup {x})
      /\ Cardinality(B) \in Nat
  BY <1>1, FS_Subset, FS_CardinalityType
<1>. QED
  BY <1>1, <1>2, <1>3

\* A server takes a ticket in the one command that marks the delivery.
LEMMA NextTicket ==
  ASSUME IntakeTypeOK, OneTicket, [IntakeNext]_intakeVars
  PROVE  OneTicket'
<1>0. /\ spc \in [Server -> ServerPC] /\ sdel \in [Server -> Delivery \cup {NoDelivery}]
      /\ \A s \in Server : spc[s] # "idle" => sdel[s] \in Actionable
      /\ seen \subseteq Delivery /\ made \in [Delivery -> Nat]
      /\ faults \in [IntakeFaults -> Nat] /\ faults["dedupExpiry"] \in Nat
  BY DEF IntakeTypeOK, IntakeFaults
<1>1. ASSUME NEW s \in Server, CheckConcurrent(s) PROVE OneTicket'
  <2>1. /\ UNCHANGED <<seen, made>> /\ faults'["dedupExpiry"] = faults["dedupExpiry"]
        /\ \A d \in Delivery : Serving(d)' \subseteq Serving(d)
    BY <1>0, <1>1, DeliveryAssumption DEF CheckConcurrent, Reply, Serving
  <2>2. \A d \in Delivery : Cardinality(Serving(d)') <= Cardinality(Serving(d))
    BY <2>1, NoMoreServing
  <2>. QED
    BY <1>0, <2>1, <2>2, ServingFinite DEF OneTicket, Tickets
<1>2. ASSUME NEW s \in Server, NEW b \in Bucket, CheckBucket(s, b)
      PROVE  OneTicket'
  <2>1. /\ UNCHANGED <<seen, made>> /\ faults'["dedupExpiry"] = faults["dedupExpiry"]
        /\ \A d \in Delivery : Serving(d)' \subseteq Serving(d)
    BY <1>0, <1>2, DeliveryAssumption DEF CheckBucket, Reply, Serving
  <2>2. \A d \in Delivery : Cardinality(Serving(d)') <= Cardinality(Serving(d))
    BY <2>1, NoMoreServing
  <2>. QED
    BY <1>0, <2>1, <2>2, ServingFinite DEF OneTicket, Tickets
<1>3. ASSUME NEW s \in Server, Consume(s) PROVE OneTicket'
  <2>1. UNCHANGED <<seen, sdel, made>> /\ faults'["dedupExpiry"] = faults["dedupExpiry"]
    BY <1>0, <1>3 DEF Consume
  <2>. QED
    BY <2>1 DEF OneTicket, Serving, Tickets
<1>4. ASSUME NEW s \in Server, EnqueueJob(s) PROVE OneTicket'
  <2> DEFINE d == sdel[s]
  <2>1. /\ d \in Delivery /\ made' = [made EXCEPT ![d] = @ + 1] /\ UNCHANGED <<seen, faults>>
        /\ sdel' = [sdel EXCEPT ![s] = NoDelivery]
    BY <1>0, <1>4, DeliveryAssumption DEF EnqueueJob, Reply
  <2>2. PICK e \in Delivery : e = sdel[s]
    BY <2>1
  <2>3. ASSUME NEW c \in Delivery
        PROVE  made'[c] + Cardinality(Serving(c)') + Tickets(c)' <= 1 + faults["dedupExpiry"]
    <3>1. made[c] + Cardinality(Serving(c)) + Tickets(c) <= 1 + faults["dedupExpiry"]
      BY DEF OneTicket
    <3>2. Tickets(c)' = Tickets(c) /\ Tickets(c) \in Nat
      BY <2>1 DEF Tickets
    <3>3. CASE c = e
      <4>1. Serving(c)' = Serving(c) \ {s} /\ s \in Serving(c)
        BY <1>0, <2>1, <2>2, <3>3, DeliveryAssumption DEF Serving
      <4>2. Cardinality(Serving(c)') = Cardinality(Serving(c)) - 1
        BY <4>1, ServingFinite, FS_RemoveElement
      <4>3. made'[c] = made[c] + 1
        BY <1>0, <2>1, <2>2, <3>3
      <4>. QED
        BY <1>0, <3>1, <3>2, <4>2, <4>3, ServingFinite
    <3>4. CASE c # e
      <4>1. Serving(c)' \subseteq Serving(c) /\ made'[c] = made[c]
        BY <1>0, <2>1, <2>2, <3>4, DeliveryAssumption DEF Serving
      <4>2. Cardinality(Serving(c)') <= Cardinality(Serving(c))
        BY <4>1, NoMoreServing
      <4>. QED
        BY <1>0, <3>1, <3>2, <4>1, <4>2, ServingFinite
    <3>. QED
      BY <3>3, <3>4
  <2>. QED
    BY <2>1, <2>3 DEF OneTicket
<1>5. ASSUME NEW s \in Server, HandlerDies(s) PROVE OneTicket'
  <2>1. /\ UNCHANGED <<seen, made>> /\ faults'["dedupExpiry"] = faults["dedupExpiry"]
        /\ \A d \in Delivery : Serving(d)' \subseteq Serving(d)
    BY <1>0, <1>5, DeliveryAssumption DEF HandlerDies, Reply, Fault, IntakeFaults, Serving
  <2>2. \A d \in Delivery : Cardinality(Serving(d)') <= Cardinality(Serving(d))
    BY <2>1, NoMoreServing
  <2>. QED
    BY <1>0, <2>1, <2>2, ServingFinite DEF OneTicket, Tickets
<1>6. ASSUME NEW s \in Server, NEW d \in Delivery, Deduped(s, d)
      PROVE  OneTicket'
  <2>1. UNCHANGED <<seen, sdel, made>> /\ faults'["dedupExpiry"] = faults["dedupExpiry"]
    BY <1>0, <1>6 DEF Deduped, intakeVars, serverVars
  <2>. QED
    BY <2>1 DEF OneTicket, Serving, Tickets
<1>7. ASSUME NEW s \in Server, NEW d \in Delivery, Ignored(s, d)
      PROVE  OneTicket'
  <2>1. UNCHANGED <<sdel, made, faults>> /\ seen' = seen \cup {d}
    BY <1>7 DEF Ignored, serverVars
  <2>2. ASSUME NEW c \in Delivery
        PROVE  made[c] + Cardinality(Serving(c)') + Tickets(c)' <= 1 + faults["dedupExpiry"]
    <3>1. Serving(c)' = Serving(c)
      BY <2>1 DEF Serving
    <3>2. Tickets(c)' <= Tickets(c) /\ Tickets(c) \in Nat /\ Tickets(c)' \in Nat
      BY <2>1 DEF Tickets
    <3>3. made[c] + Cardinality(Serving(c)) + Tickets(c) <= 1 + faults["dedupExpiry"]
      BY DEF OneTicket
    <3>. QED
      BY <1>0, <3>1, <3>2, <3>3, ServingFinite
  <2>. QED
    BY <2>1, <2>2 DEF OneTicket
<1>8. ASSUME NEW s \in Server, NEW d \in Delivery, Serve(s, d) PROVE OneTicket'
  <2>1. /\ d \notin seen /\ seen' = seen \cup {d} /\ UNCHANGED <<made, faults>>
        /\ sdel' = [sdel EXCEPT ![s] = d]
    BY <1>8 DEF Serve
  <2>2. ASSUME NEW c \in Delivery
        PROVE  made[c] + Cardinality(Serving(c)') + Tickets(c)' <= 1 + faults["dedupExpiry"]
    <3>1. made[c] + Cardinality(Serving(c)) + Tickets(c) <= 1 + faults["dedupExpiry"]
      BY DEF OneTicket
    <3>2. CASE c = d
      <4>1. Tickets(d) = 1 /\ Tickets(d)' = 0
        BY <2>1 DEF Tickets
      <4>2. Serving(d)' \subseteq Serving(d) \cup {s}
        BY <1>0, <2>1 DEF Serving
      <4>3. Cardinality(Serving(d)') <= Cardinality(Serving(d)) + 1
        BY <4>2, AtMostOneMore, ServingFinite
      <4>. QED
        BY <1>0, <3>1, <3>2, <4>1, <4>3, ServingFinite
    <3>3. CASE c # d
      <4>1. Serving(c)' \subseteq Serving(c) /\ Tickets(c)' = Tickets(c) /\ Tickets(c) \in Nat
        BY <1>0, <2>1, <3>3 DEF Serving, Tickets
      <4>2. Cardinality(Serving(c)') <= Cardinality(Serving(c))
        BY <4>1, NoMoreServing
      <4>. QED
        BY <1>0, <3>1, <4>1, <4>2, ServingFinite
    <3>. QED
      BY <3>2, <3>3
  <2>. QED
    BY <2>1, <2>2 DEF OneTicket
<1>9. ASSUME NEW d \in Delivery, DedupExpires(d) PROVE OneTicket'
  <2>1. /\ UNCHANGED <<sdel, made>> /\ d \in seen /\ seen' = seen \ {d}
        /\ faults'["dedupExpiry"] = faults["dedupExpiry"] + 1
    BY <1>0, <1>9 DEF DedupExpires, Fault, IntakeFaults, serverVars
  <2>2. ASSUME NEW c \in Delivery
        PROVE  made[c] + Cardinality(Serving(c)') + Tickets(c)' <= 1 + faults["dedupExpiry"] + 1
    <3>1. Serving(c)' = Serving(c)
      BY <2>1 DEF Serving
    <3>2. Tickets(c)' <= Tickets(c) + 1 /\ Tickets(c) \in Nat /\ Tickets(c)' \in Nat
      BY <2>1 DEF Tickets
    <3>3. made[c] + Cardinality(Serving(c)) + Tickets(c) <= 1 + faults["dedupExpiry"]
      BY DEF OneTicket
    <3>. QED
      BY <1>0, <3>1, <3>2, <3>3, ServingFinite
  <2>. QED
    BY <1>0, <2>1, <2>2 DEF OneTicket
<1>10. ASSUME NEW i \in Inst, ConcExpires(i), Fault("concExpiry")
      PROVE  OneTicket'
  <2>1. UNCHANGED <<seen, sdel, made>> /\ faults'["dedupExpiry"] = faults["dedupExpiry"]
    BY <1>0, <1>10 DEF ConcExpires, Fault, serverVars, IntakeFaults
  <2>. QED
    BY <2>1 DEF OneTicket, Serving, Tickets
<1>11. CASE Advance
  <2>1. UNCHANGED <<seen, sdel, made>> /\ faults'["dedupExpiry"] = faults["dedupExpiry"]
    BY <1>0, <1>11 DEF Advance, serverVars
  <2>. QED
    BY <2>1 DEF OneTicket, Serving, Tickets
<1>12. CASE UNCHANGED intakeVars
  <2>1. UNCHANGED <<seen, sdel, made>> /\ faults'["dedupExpiry"] = faults["dedupExpiry"]
    BY <1>0, <1>12 DEF intakeVars, serverVars
  <2>. QED
    BY <2>1 DEF OneTicket, Serving, Tickets
<1>. QED
  BY <1>1, <1>2, <1>3, <1>4, <1>5, <1>6, <1>7, <1>8, <1>9, <1>10, <1>11, <1>12
     DEF IntakeNext, ServerStep, Request

\* A delivery is enqueued once, however often GitHub sends it, to whichever of any
\* number of processes, and wherever they fail; once more only if its dedup key
\* has run out.
THEOREM OneJobEach == IntakeSpec => []OneJobPerDelivery
<1>1. IntakeInit => OneTicket
  <2> SUFFICES ASSUME IntakeInit, NEW d \in Delivery
               PROVE  made[d] + Cardinality(Serving(d)) + Tickets(d) <= 1 + faults["dedupExpiry"]
    BY DEF OneTicket
  <2>1. Serving(d) = {}
    BY DeliveryAssumption DEF IntakeInit, Serving
  <2>2. Cardinality(Serving(d)) = 0
    BY <2>1, FS_EmptySet
  <2>3. made[d] = 0 /\ Tickets(d) = 1 /\ faults["dedupExpiry"] = 0
    BY DEF IntakeInit, Tickets, IntakeFaults
  <2>. QED
    BY <2>2, <2>3
<1>2. IntakeTypeOK /\ OneTicket => OneJobPerDelivery
  <2> SUFFICES ASSUME IntakeTypeOK, OneTicket, NEW d \in Delivery
               PROVE  made[d] + Cardinality({s \in Server : sdel[s] = d})
                        <= 1 + faults["dedupExpiry"]
    BY DEF OneJobPerDelivery
  <2>1. made[d] + Cardinality(Serving(d)) + Tickets(d) <= 1 + faults["dedupExpiry"]
    BY DEF OneTicket
  <2>2. Tickets(d) \in Nat /\ made[d] \in Nat /\ faults["dedupExpiry"] \in Nat
    BY DEF Tickets, IntakeTypeOK, IntakeFaults
  <2>3. Cardinality({s \in Server : sdel[s] = d}) = Cardinality(Serving(d))
    BY DEF Serving
  <2>. QED
    BY <2>1, <2>2, <2>3, ServingFinite
<1>. QED
  BY <1>1, <1>2, IntakeTypeCorrect, NextTicket, PTL DEF IntakeSpec

-----------------------------------------------------------------------------
(* What is charged is what is enqueued *)

Mine(i) == {d \in Delivery : InstOf[d] = i}
Due(i)  == {s \in Server : spc[s] = "enqueue" /\ sdel[s] \in Mine(i)}
Owed(i) == Total(made, Mine(i)) + Cardinality(Due(i))

\* What was consumed is owed or was paid for by a handler that died.
ChargedInv ==
    \A i \in Inst :
        /\ IsFiniteSet(Units(made, Mine(i))) /\ IsFiniteSet(Units(paid[i], Tick))
        /\ Owed(i) <= Total(paid[i], Tick)
        /\ Total(paid[i], Tick) <= Owed(i) + faults["death"]

LEMMA DueFinite ==
  ASSUME NEW i
  PROVE  /\ IsFiniteSet(Due(i)) /\ Cardinality(Due(i)) \in Nat
         /\ IsFiniteSet(Due(i)') /\ Cardinality(Due(i)') \in Nat
<1>1. Due(i) \subseteq Server /\ Due(i)' \subseteq Server
  BY DEF Due
<1>. QED
  BY <1>1, ServerAssumption, FS_Subset, FS_CardinalityType

LEMMA ChargedTypes ==
  ASSUME ChargedInv, NEW i \in Inst
  PROVE  /\ Total(made, Mine(i)) \in Nat /\ Total(paid[i], Tick) \in Nat
         /\ Cardinality(Due(i)) \in Nat /\ Owed(i) \in Nat
  BY DueFinite, FS_CardinalityType DEF ChargedInv, Total, Owed

\* A step that neither charges nor enqueues nor ends what is due.
LEMMA NothingDue ==
  ASSUME ChargedInv, UNCHANGED <<made, paid>>, faults'["death"] = faults["death"],
         \A i \in Inst : Due(i)' = Due(i)
  PROVE  ChargedInv'
<1>1. \A i \in Inst : Mine(i)' = Mine(i)
  BY DEF Mine
<1>2. \A i \in Inst : Owed(i)' = Owed(i)
  BY <1>1 DEF Owed
<1>. QED
  BY <1>1, <1>2 DEF ChargedInv

LEMMA NextCharged ==
  ASSUME IntakeTypeOK, ChargedInv, [IntakeNext]_intakeVars
  PROVE  ChargedInv'
<1>0. /\ spc \in [Server -> ServerPC] /\ sdel \in [Server -> Delivery \cup {NoDelivery}]
      /\ \A s \in Server : spc[s] # "idle" => sdel[s] \in Delivery
      /\ \A s \in Server : spc[s] \notin {"idle", "enqueue"} => InstOf[sdel[s]] \in Inst
      /\ snow \in [Server -> Tick]
      /\ made \in [Delivery -> Nat] /\ paid \in [Inst -> [Tick -> Nat]]
      /\ faults \in [IntakeFaults -> Nat] /\ faults["death"] \in Nat
  BY DeliveryAssumption DEF IntakeTypeOK, IntakeFaults
<1>1. ASSUME NEW s \in Server, CheckConcurrent(s) PROVE ChargedInv'
  <2>1. \A r \in Server : spc'[r] = "enqueue" <=> spc[r] = "enqueue"
    BY <1>0, <1>1 DEF CheckConcurrent, Reply, Proceed
  <2>2. \A r \in Server : spc[r] = "enqueue" => sdel'[r] = sdel[r]
    BY <1>0, <1>1 DEF CheckConcurrent, Reply
  <2>3. \A i \in Inst : Due(i)' = Due(i)
    BY <2>1, <2>2 DEF Due, Mine
  <2>. QED
    BY <1>1, <2>3, NothingDue DEF CheckConcurrent
<1>2. ASSUME NEW s \in Server, NEW b \in Bucket, CheckBucket(s, b)
      PROVE  ChargedInv'
  <2>1. \A r \in Server : spc'[r] = "enqueue" <=> spc[r] = "enqueue"
    BY <1>0, <1>2 DEF CheckBucket, Reply, Proceed, Bucket
  <2>2. \A r \in Server : spc[r] = "enqueue" => sdel'[r] = sdel[r]
    BY <1>0, <1>2 DEF CheckBucket, Reply, Bucket
  <2>3. \A i \in Inst : Due(i)' = Due(i)
    BY <2>1, <2>2 DEF Due, Mine
  <2>. QED
    BY <1>2, <2>3, NothingDue DEF CheckBucket
<1>3. ASSUME NEW s \in Server, Consume(s) PROVE ChargedInv'
  <2>1. /\ InstIn(s) \in Inst /\ sdel[s] \in Delivery /\ snow[s] \in Tick
        /\ spc[s] = "consume" /\ spc' = [spc EXCEPT ![s] = "enqueue"]
        /\ UNCHANGED <<sdel, made, faults>>
        /\ paid' = [paid EXCEPT ![InstIn(s)][snow[s]] = @ + 1]
    BY <1>0, <1>3 DEF Consume, Proceed, InstIn
  <2>2. ASSUME NEW i \in Inst
        PROVE  /\ IsFiniteSet(Units(made', Mine(i)')) /\ IsFiniteSet(Units(paid'[i], Tick))
               /\ Owed(i)' <= Total(paid'[i], Tick)
               /\ Total(paid'[i], Tick) <= Owed(i)' + faults'["death"]
    <3>1. Mine(i)' = Mine(i)
      BY DEF Mine
    <3>2. CASE i = InstIn(s)
      <4>1. paid[i] \in [Tick -> Nat] /\ paid'[i] = [paid[i] EXCEPT ![snow[s]] = @ + 1]
        BY <1>0, <2>1, <3>2
      <4>2. /\ paid[i][snow[s]] \in Nat /\ paid'[i][snow[s]] = paid[i][snow[s]] + 1
            /\ \A x \in Tick : x # snow[s] => paid'[i][x] = paid[i][x]
        BY <2>1, <4>1
      <4>3. /\ IsFiniteSet(Units(paid'[i], Tick))
            /\ Total(paid'[i], Tick) = Total(paid[i], Tick) + 1
        <5>0. PICK x \in Tick : x = snow[s]
          BY <2>1
        <5>1. PICK f, g : f = paid[i] /\ g = paid'[i]
          OBVIOUS
        <5>2. IsFiniteSet(Units(f, Tick))
          BY <5>1 DEF ChargedInv
        <5>3. f[x] \in Nat /\ g[x] = f[x] + 1 /\ \A y \in Tick : y # x => g[y] = f[y]
          BY <4>2, <5>0, <5>1
        <5>4. IsFiniteSet(Units(g, Tick)) /\ Total(g, Tick) = Total(f, Tick) + 1
          BY <5>2, <5>3, OneMoreUnit
        <5>. QED
          BY <5>1, <5>4
      <4>4. Due(i)' = Due(i) \cup {s} /\ s \notin Due(i)
        BY <1>0, <2>1, <3>2 DEF Due, Mine, InstIn
      <4>5. Cardinality(Due(i)') = Cardinality(Due(i)) + 1
        BY <4>4, DueFinite, FS_AddElement
      <4>6. Owed(i)' = Owed(i) + 1
        BY <2>1, <3>1, <4>5, ChargedTypes DEF Owed
      <4>. QED
        BY <1>0, <2>1, <3>1, <4>3, <4>6, ChargedTypes DEF ChargedInv
    <3>3. CASE i # InstIn(s)
      <4>1. paid'[i] = paid[i]
        BY <1>0, <2>1, <3>3
      <4>2. Due(i)' = Due(i)
        BY <1>0, <2>1, <3>3 DEF Due, Mine, InstIn
      <4>3. Owed(i)' = Owed(i)
        BY <2>1, <3>1, <4>2 DEF Owed
      <4>. QED
        BY <2>1, <3>1, <4>1, <4>3 DEF ChargedInv
    <3>. QED
      BY <3>2, <3>3
  <2>. QED
    BY <2>2 DEF ChargedInv
<1>4. ASSUME NEW s \in Server, EnqueueJob(s) PROVE ChargedInv'
  <2>1. /\ sdel[s] \in Delivery /\ spc[s] = "enqueue"
        /\ spc' = [spc EXCEPT ![s] = "idle"] /\ sdel' = [sdel EXCEPT ![s] = NoDelivery]
        /\ made' = [made EXCEPT ![sdel[s]] = @ + 1] /\ UNCHANGED <<paid, faults>>
    BY <1>0, <1>4 DEF EnqueueJob, Reply
  <2>2. PICK d \in Delivery : d = sdel[s]
    BY <2>1
  <2>3. /\ made[d] \in Nat /\ made'[d] = made[d] + 1
        /\ \A e \in Delivery : e # d => made'[e] = made[e]
    BY <1>0, <2>1, <2>2
  <2>4. ASSUME NEW i \in Inst
        PROVE  /\ IsFiniteSet(Units(made', Mine(i)')) /\ IsFiniteSet(Units(paid'[i], Tick))
               /\ Owed(i)' <= Total(paid'[i], Tick)
               /\ Total(paid'[i], Tick) <= Owed(i)' + faults'["death"]
    <3>1. Mine(i)' = Mine(i) /\ IsFiniteSet(Units(made, Mine(i)))
      BY DEF Mine, ChargedInv
    <3>2. CASE i = InstOf[d]
      <4>1. d \in Mine(i) /\ \A e \in Mine(i) : e # d => made'[e] = made[e]
        BY <2>3, <3>2 DEF Mine
      <4>2. /\ IsFiniteSet(Units(made', Mine(i)))
            /\ Total(made', Mine(i)) = Total(made, Mine(i)) + 1
        BY <2>3, <3>1, <4>1, OneMoreUnit
      <4>3. Due(i)' = Due(i) \ {s} /\ s \in Due(i)
        BY <1>0, <2>1, <2>2, <3>2 DEF Due, Mine
      <4>4. Cardinality(Due(i)') = Cardinality(Due(i)) - 1
        BY <4>3, DueFinite, FS_RemoveElement
      <4>5. Owed(i)' = Owed(i)
        BY <3>1, <4>2, <4>4, ChargedTypes DEF Owed
      <4>. QED
        BY <2>1, <3>1, <4>2, <4>5 DEF ChargedInv
    <3>3. CASE i # InstOf[d]
      <4>1. \A e \in Mine(i) : made'[e] = made[e]
        BY <2>3, <3>3 DEF Mine
      <4>2. Units(made', Mine(i)) = Units(made, Mine(i)) /\ Total(made', Mine(i)) = Total(made, Mine(i))
        BY <4>1, SameUnits
      <4>3. Due(i)' = Due(i)
        BY <1>0, <2>1, <2>2, <3>3 DEF Due, Mine
      <4>4. Owed(i)' = Owed(i)
        BY <3>1, <4>2, <4>3 DEF Owed
      <4>. QED
        BY <2>1, <3>1, <4>2, <4>4 DEF ChargedInv
    <3>. QED
      BY <3>2, <3>3
  <2>. QED
    BY <2>4 DEF ChargedInv
<1>5. ASSUME NEW s \in Server, HandlerDies(s) PROVE ChargedInv'
  <2>1. /\ spc' = [spc EXCEPT ![s] = "idle"] /\ sdel' = [sdel EXCEPT ![s] = NoDelivery]
        /\ UNCHANGED <<made, paid>> /\ faults'["death"] = faults["death"] + 1
    BY <1>0, <1>5 DEF HandlerDies, Reply, Fault, IntakeFaults
  <2>2. ASSUME NEW i \in Inst
        PROVE  /\ IsFiniteSet(Units(made', Mine(i)')) /\ IsFiniteSet(Units(paid'[i], Tick))
               /\ Owed(i)' <= Total(paid'[i], Tick)
               /\ Total(paid'[i], Tick) <= Owed(i)' + faults'["death"]
    <3>1. Mine(i)' = Mine(i)
      BY DEF Mine
    <3>2. Due(i)' \subseteq Due(i) /\ Due(i) \subseteq Due(i)' \cup {s}
      BY <1>0, <2>1 DEF Due, Mine
    <3>3. /\ Cardinality(Due(i)') <= Cardinality(Due(i))
          /\ Cardinality(Due(i)) <= Cardinality(Due(i)') + 1
      BY <3>2, DueFinite, FS_Subset, AtMostOneMore
    <3>4. Owed(i)' <= Owed(i) /\ Owed(i) <= Owed(i)' + 1 /\ Owed(i)' \in Nat
      BY <2>1, <3>1, <3>3, ChargedTypes, DueFinite DEF Owed
    <3>. QED
      BY <1>0, <2>1, <3>1, <3>4, ChargedTypes DEF ChargedInv
  <2>. QED
    BY <2>2 DEF ChargedInv
<1>6. ASSUME NEW s \in Server, NEW d \in Delivery, Request(s, d)
      PROVE  ChargedInv'
  <2>1. UNCHANGED <<made, paid, faults>>
    BY <1>6 DEF Request, Deduped, Ignored, Serve, intakeVars
  <2>2. \/ UNCHANGED <<spc, sdel>>
        \/ /\ spc[s] = "idle" /\ sdel' = [sdel EXCEPT ![s] = d]
           /\ spc' = [spc EXCEPT ![s] = IF InstOf[d] = NoInst THEN "enqueue" ELSE "concurrent"]
    BY <1>6 DEF Request, Deduped, Ignored, Serve, Proceed, intakeVars, serverVars
  <2>3. ASSUME NEW i \in Inst PROVE Due(i)' = Due(i)
    BY <1>0, <2>2, InstAssumption DEF Due, Mine
  <2>. QED
    BY <2>1, <2>3, NothingDue
<1>7. ASSUME NEW d \in Delivery, DedupExpires(d) PROVE ChargedInv'
  <2>1. UNCHANGED <<spc, sdel, made, paid>> /\ faults'["death"] = faults["death"]
    BY <1>0, <1>7 DEF DedupExpires, Fault, serverVars, IntakeFaults
  <2>. QED
    BY <2>1, NothingDue DEF Due, Mine
<1>8. ASSUME NEW i \in Inst, ConcExpires(i), Fault("concExpiry")
      PROVE  ChargedInv'
  <2>1. UNCHANGED <<spc, sdel, made, paid>> /\ faults'["death"] = faults["death"]
    BY <1>0, <1>8 DEF ConcExpires, Fault, serverVars, IntakeFaults
  <2>. QED
    BY <2>1, NothingDue DEF Due, Mine
<1>9. CASE Advance
  <2>1. UNCHANGED <<spc, sdel, made, paid, faults>>
    BY <1>9 DEF Advance, serverVars
  <2>. QED
    BY <2>1, NothingDue DEF Due, Mine
<1>10. CASE UNCHANGED intakeVars
  <2>1. UNCHANGED <<spc, sdel, made, paid, faults>>
    BY <1>10 DEF intakeVars, serverVars
  <2>. QED
    BY <2>1, NothingDue DEF Due, Mine
<1>. QED
  BY <1>1, <1>2, <1>3, <1>4, <1>5, <1>6, <1>7, <1>8, <1>9, <1>10
     DEF IntakeNext, ServerStep

LEMMA InitCharged == IntakeInit => ChargedInv
<1> SUFFICES ASSUME IntakeInit, NEW i \in Inst
             PROVE  /\ IsFiniteSet(Units(made, Mine(i))) /\ IsFiniteSet(Units(paid[i], Tick))
                    /\ Owed(i) <= Total(paid[i], Tick)
                    /\ Total(paid[i], Tick) <= Owed(i) + faults["death"]
  BY DEF ChargedInv
<1>1. \A d \in Mine(i) : made[d] = 0
  BY DEF IntakeInit, Mine
<1>2. \A t \in Tick : paid[i][t] = 0
  BY DEF IntakeInit
<1>3. Due(i) = {}
  BY DEF IntakeInit, Due
<1>4. Cardinality(Due(i)) = 0
  BY <1>3, FS_EmptySet
<1>5. faults["death"] = 0
  BY DEF IntakeInit, IntakeFaults
<1>6. IsFiniteSet(Units(made, Mine(i))) /\ Total(made, Mine(i)) = 0
  BY <1>1, NoUnits
<1>7. IsFiniteSet(Units(paid[i], Tick)) /\ Total(paid[i], Tick) = 0
  BY <1>2, NoUnits
<1>. QED
  BY <1>4, <1>5, <1>6, <1>7 DEF Owed

-----------------------------------------------------------------------------
(* Windows *)

Excess == Cardinality(Server) - 1
Accepted(i, b, t) == Total(paid[i], Span(b, t))

\* The servers that have read the clock in a window, and those of them that
\* have found room in the bucket.
Checking == {"hour", "day", "consume"}
Past(b) == IF b = "hour" THEN {"day", "consume"} ELSE {"consume"}
Holding(i, b, t) ==
    {s \in Server : spc[s] \in Checking /\ InstIn(s) = i /\ snow[s] \in Span(b, t)}
Passed(i, b, t) ==
    {s \in Server : spc[s] \in Past(b) /\ InstIn(s) = i /\ snow[s] \in Span(b, t)}

\* No consumption of the window has been trimmed.
Intact(i, b, t) == \A x \in Span(b, t) : paid[i][x] <= hits[b][i][x]

\* Servers have read the clock before, and what is younger than a window has
\* not been trimmed.
FreshInv ==
    /\ \A s \in Server : snow[s] <= clock
    /\ \A i \in Inst, b \in Bucket, x \in Tick :
         Limit[b] > 0 /\ x > clock - Window[b] => paid[i][x] <= hits[b][i][x]

\* As long as a window is intact, who has found room in it saw all there was.
\* Who trims it has read the clock later, so it is not one of those that hold it.
Bounded(i, b, t) ==
    /\ Intact(i, b, t) => Accepted(i, b, t) + Cardinality(Passed(i, b, t)) <= Limit[b] + Excess
    /\ ~Intact(i, b, t) => Accepted(i, b, t) + Cardinality(Holding(i, b, t)) <= Limit[b] + 2 * Excess

WindowInv == \A i \in Inst, b \in Bucket, t \in Tick : Limit[b] > 0 => Bounded(i, b, t)

LEMMA TickUnits ==
  ASSUME NEW f \in [Tick -> Nat], NEW S, S \subseteq Tick
  PROVE  IsFiniteSet(Units(f, S)) /\ Total(f, S) \in Nat
<1>1. IsFiniteSet(S)
  <2>1. IsFiniteSet(Tick)
    <3>1. 0 \in Int /\ Horizon \in Int
      BY WindowAssumption
    <3>2. IsFiniteSet(0..Horizon)
      BY <3>1, FS_Interval
    <3>. QED
      BY <3>2 DEF Tick
  <2>. QED
    BY <2>1, FS_Subset
<1>2. IsFiniteSet({{x} \X (1..f[x]) : x \in S})
  <2> DEFINE T == {{x} \X (1..f[x]) : x \in S}
             g == [x \in S |-> {x} \X (1..f[x])]
  <2>1. g \in Surjection(S, T)
    BY DEF Surjection
  <2>. QED
    BY <1>1, <2>1, FS_Surjection
<1>3. ASSUME NEW T \in {{x} \X (1..f[x]) : x \in S} PROVE IsFiniteSet(T)
  <2>1. PICK x \in S : T = {x} \X (1..f[x])
    OBVIOUS
  <2>2. 1 \in Int /\ f[x] \in Int
    OBVIOUS
  <2>3. IsFiniteSet(1..f[x])
    BY <2>2, FS_Interval
  <2>4. IsFiniteSet({x})
    BY FS_Singleton
  <2>. QED
    BY <2>1, <2>3, <2>4, FS_Product
<1>4. IsFiniteSet(Units(f, S))
  BY <1>2, <1>3, FS_UNION DEF Units
<1>. QED
  BY <1>4, FS_CardinalityType DEF Total

LEMMA HoldersFinite ==
  ASSUME NEW A, A \subseteq Server
  PROVE  /\ IsFiniteSet(A) /\ Cardinality(A) \in Nat /\ Cardinality(A) <= Excess + 1
         /\ Excess \in Nat
<1>1. Cardinality(Server) \in Nat /\ Cardinality(Server) # 0
  BY ServerAssumption, FS_CardinalityType, FS_EmptySet
<1>. QED
  BY <1>1, ServerAssumption, FS_Subset, FS_CardinalityType DEF Excess

LEMMA WindowTypes ==
  ASSUME IntakeTypeOK
  PROVE  /\ \A i \in Inst, b \in Bucket, t \in Tick : Accepted(i, b, t) \in Nat
         /\ \A b \in Bucket : Limit[b] \in Nat /\ Window[b] \in Nat \ {0}
         /\ \A b \in Bucket, t \in Tick, x \in Int :
              x \in Span(b, t) <=> x \in Tick /\ t <= x /\ x < t + Window[b]
<1>1. ASSUME NEW b \in Bucket PROVE Limit[b] \in Nat /\ Window[b] \in Nat \ {0}
  BY LimitAssumption, WindowAssumption
<1>2. ASSUME NEW b \in Bucket, NEW t \in Tick, NEW x \in Int
      PROVE  x \in Span(b, t) <=> x \in Tick /\ t <= x /\ x < t + Window[b]
  BY <1>1, WindowAssumption DEF Span, Tick
<1>3. ASSUME NEW i \in Inst, NEW b \in Bucket, NEW t \in Tick PROVE Accepted(i, b, t) \in Nat
  <2>1. paid[i] \in [Tick -> Nat] /\ Span(b, t) \subseteq Tick
    BY DEF IntakeTypeOK, Span
  <2>. QED
    BY <2>1, TickUnits DEF Accepted
<1>. QED
  BY <1>1, <1>2, <1>3

\* A window that is not over is intact.
LEMMA OpenIntact ==
  ASSUME IntakeTypeOK, FreshInv, NEW i \in Inst, NEW b \in Bucket, NEW t \in Tick,
         Limit[b] > 0, clock < t + Window[b]
  PROVE  Intact(i, b, t)
<1>1. clock \in Int /\ t \in Int /\ Tick \subseteq Int
  BY WindowAssumption DEF IntakeTypeOK, Tick
<1>2. ASSUME NEW x \in Span(b, t) PROVE paid[i][x] <= hits[b][i][x]
  <2>1. x \in Tick /\ x \in Int /\ t <= x
    BY <1>1, WindowTypes DEF Span
  <2>2. x > clock - Window[b]
    BY <1>1, <2>1, WindowTypes
  <2>. QED
    BY <2>1, <2>2 DEF FreshInv
<1>. QED
  BY <1>2 DEF Intact

\* A step after which the servers that are checking are no more than before.
LEMMA FewerHolders ==
  ASSUME IntakeTypeOK, NEW i \in Inst, NEW b \in Bucket, NEW t \in Tick, Limit[b] > 0,
         Bounded(i, b, t), hits'[b][i] = hits[b][i], paid'[i] = paid[i],
         Passed(i, b, t)' \subseteq Passed(i, b, t),
         ~Intact(i, b, t) => Holding(i, b, t)' \subseteq Holding(i, b, t)
  PROVE  Bounded(i, b, t)'
<1>1. (Intact(i, b, t)' <=> Intact(i, b, t)) /\ Accepted(i, b, t)' = Accepted(i, b, t)
  BY DEF Intact, Accepted, Span
<1>2. Holding(i, b, t) \subseteq Server /\ Passed(i, b, t) \subseteq Server
  BY DEF Holding, Passed
<1>3. /\ Cardinality(Passed(i, b, t)') <= Cardinality(Passed(i, b, t))
      /\ Cardinality(Passed(i, b, t)') \in Nat /\ Cardinality(Passed(i, b, t)) \in Nat
  BY <1>2, HoldersFinite, FS_Subset, FS_CardinalityType
<1>4. ASSUME ~Intact(i, b, t)
      PROVE  /\ Cardinality(Holding(i, b, t)') <= Cardinality(Holding(i, b, t))
             /\ Cardinality(Holding(i, b, t)') \in Nat /\ Cardinality(Holding(i, b, t)) \in Nat
  BY <1>2, <1>4, HoldersFinite, FS_Subset, FS_CardinalityType
<1>5. /\ Accepted(i, b, t) \in Nat /\ Limit[b] \in Nat /\ Excess \in Nat /\ Excess' = Excess
  BY <1>2, WindowTypes, HoldersFinite DEF Excess
<1>. QED
  BY <1>1, <1>3, <1>4, <1>5 DEF Bounded

LEMMA WindowFacts ==
  ASSUME IntakeTypeOK
  PROVE  /\ spc \in [Server -> ServerPC] /\ sdel \in [Server -> Delivery \cup {NoDelivery}]
         /\ \A s \in Server : spc[s] \in Checking => InstIn(s) \in Inst
         /\ snow \in [Server -> Tick] /\ clock \in Tick
         /\ hits \in [Bucket -> [Inst -> [Tick -> Nat]]]
         /\ paid \in [Inst -> [Tick -> Nat]]
  BY DEF IntakeTypeOK, Checking, InstIn

\* Reading the clock: a window that is not intact is over.
LEMMA ClockRead ==
  ASSUME IntakeTypeOK, FreshInv, WindowInv, NEW s \in Server, CheckConcurrent(s)
  PROVE  WindowInv'
<1>0. /\ UNCHANGED <<hits, paid, clock>> /\ spc[s] = "concurrent"
      /\ \/ spc' = [spc EXCEPT ![s] = "idle"]
         \/ /\ spc' = [spc EXCEPT ![s] = "hour"] /\ sdel' = sdel
            /\ snow' = [snow EXCEPT ![s] = clock]
      /\ \A r \in Server \ {s} : sdel'[r] = sdel[r] /\ snow'[r] = snow[r]
  BY WindowFacts DEF CheckConcurrent, Reply, Proceed, quotaVars
<1>1. ASSUME NEW i \in Inst, NEW b \in Bucket, NEW t \in Tick, Limit[b] > 0
      PROVE  Bounded(i, b, t)'
  <2>1. Passed(i, b, t)' \subseteq Passed(i, b, t)
    BY <1>0, WindowFacts DEF Passed, Past, InstIn, Span
  <2>2. ASSUME ~Intact(i, b, t), NEW r \in Holding(i, b, t)' PROVE r \in Holding(i, b, t)
    <3>1. r \in Server /\ spc'[r] \in Checking /\ InstIn(r)' = i /\ snow'[r] \in Span(b, t)
      BY DEF Holding, Span
    <3>2. CASE r # s
      BY <1>0, <3>1, <3>2, WindowFacts DEF Holding, InstIn, Span
    <3>3. CASE r = s
      <4>1. snow'[s] = clock
        BY <1>0, <3>1, <3>3, WindowFacts DEF Checking
      <4>2. clock < t + Window[b]
        BY <3>1, <3>3, <4>1, WindowFacts, WindowTypes, WindowAssumption DEF Tick
      <4>. QED
        BY <1>1, <2>2, <4>2, OpenIntact
    <3>. QED
      BY <3>2, <3>3
  <2>3. Bounded(i, b, t)
    BY <1>1 DEF WindowInv
  <2>. QED
    BY <1>0, <1>1, <2>1, <2>2, <2>3, FewerHolders
<1>. QED
  BY <1>1 DEF WindowInv

\* Trimming and counting a bucket.
LEMMA BucketChecked ==
  ASSUME IntakeTypeOK, FreshInv, WindowInv, NEW s \in Server, NEW c \in Bucket, CheckBucket(s, c)
  PROVE  WindowInv'
<1> DEFINE z == Trimmed(hits[c][InstIn(s)], c, snow[s])
<1>0. /\ paid' = paid /\ spc[s] = c /\ InstIn(s) \in Inst /\ snow[s] \in Tick
      /\ \A r \in Server \ {s} : spc'[r] = spc[r] /\ sdel'[r] = sdel[r] /\ snow'[r] = snow[r]
      /\ \/ spc'[s] = "idle"
         \/ /\ spc'[s] = IF c = "hour" THEN "day" ELSE "consume"
            /\ sdel'[s] = sdel[s] /\ snow'[s] = snow[s]
            /\ Limit[c] > 0 => ~(Total(z, Tick) >= Limit[c])
      /\ hits' = IF Limit[c] = 0 THEN hits ELSE [hits EXCEPT ![c][InstIn(s)] = z]
  <2>1. InstIn(s) \in Inst
    BY WindowFacts DEF CheckBucket, Checking, Bucket
  <2>. QED
    BY <2>1, WindowFacts DEF CheckBucket, Reply, Proceed
<1>1. ASSUME NEW i \in Inst, NEW b \in Bucket, NEW t \in Tick, Limit[b] > 0
      PROVE  Bounded(i, b, t)'
  <2>0. Bounded(i, b, t)
    BY <1>1 DEF WindowInv
  <2>1. Holding(i, b, t)' \subseteq Holding(i, b, t)
    BY <1>0, WindowFacts DEF Holding, Checking, InstIn, Span, Bucket
  <2>2. \A r \in Passed(i, b, t)' : r # s => r \in Passed(i, b, t)
    BY <1>0, WindowFacts DEF Passed, InstIn, Span
  <2>3. CASE ~(b = c /\ i = InstIn(s))
    <3>1. hits'[b][i] = hits[b][i]
      BY <1>0, <2>3, WindowFacts
    <3>2. Passed(i, b, t)' \subseteq Passed(i, b, t)
      <4>1. s \in Passed(i, b, t)' => s \in Passed(i, b, t)
        BY <1>0, <2>3, WindowFacts DEF Passed, Past, InstIn, Span, Bucket
      <4>. QED
        BY <2>2, <4>1
    <3>. QED
      BY <1>0, <1>1, <2>0, <2>1, <3>1, <3>2, FewerHolders
  <2>4. CASE b = c /\ i = InstIn(s)
    <3>1. hits[b][i] \in [Tick -> Nat] /\ z \in [Tick -> Nat] /\ hits'[b][i] = z
      <4>1. Limit[c] # 0
        BY <1>1, <2>4, WindowTypes
      <4>. QED
        BY <1>0, <2>4, <4>1, WindowFacts, TrimType
    <3>2. \A x \in Tick : z[x] <= hits[b][i][x]
      <4> DEFINE y == hits[b][i]
      <4>1. y \in [Tick -> Nat] /\ \A x \in Tick : z[x] = y[x] \/ z[x] = 0
        BY <2>4, <3>1 DEF Trimmed
      <4>2. z \in [Tick -> Nat]
        BY <3>1
      <4> HIDE DEF y, z
      <4>3. \A x \in Tick : z[x] <= y[x]
        BY <4>1, <4>2
      <4>. QED
        BY <4>3 DEF y
    <3>3. /\ Holding(i, b, t) \subseteq Server /\ Holding(i, b, t)' \subseteq Server
          /\ Passed(i, b, t) \subseteq Server /\ Passed(i, b, t)' \subseteq Server
      BY DEF Holding, Passed
    <3>4. /\ Accepted(i, b, t) \in Nat /\ Accepted(i, b, t)' = Accepted(i, b, t)
          /\ Limit[b] \in Nat /\ Excess \in Nat /\ Excess' = Excess
      BY <1>0, <3>3, WindowTypes, HoldersFinite DEF Accepted, Span, Excess
    <3>5. Span(b, t)' = Span(b, t) /\ Span(b, t) \subseteq Tick
      BY DEF Span
    <3>6. ASSUME Intact(i, b, t)'
          PROVE  Accepted(i, b, t) + Cardinality(Passed(i, b, t)') <= Limit[b] + Excess
      <4>1. \A x \in Span(b, t) : paid[i][x] <= z[x]
        BY <1>0, <3>1, <3>5, <3>6 DEF Intact
      <4>2. Intact(i, b, t)
        <5>1. \A x \in Span(b, t) : /\ paid[i][x] \in Nat /\ z[x] \in Nat /\ hits[b][i][x] \in Nat
                                    /\ z[x] <= hits[b][i][x] /\ paid[i][x] <= z[x]
          BY <3>1, <3>2, <3>5, <4>1, WindowFacts
        <5>. QED
          BY <5>1 DEF Intact
      <4>3. CASE s \notin Passed(i, b, t)' \/ s \in Passed(i, b, t)
        <5>1. Passed(i, b, t)' \subseteq Passed(i, b, t)
          BY <2>2, <4>3
        <5>2. /\ Cardinality(Passed(i, b, t)') <= Cardinality(Passed(i, b, t))
              /\ Cardinality(Passed(i, b, t)') \in Nat /\ Cardinality(Passed(i, b, t)) \in Nat
          BY <3>3, <5>1, HoldersFinite, FS_Subset, FS_CardinalityType
        <5>. QED
          BY <2>0, <3>4, <4>2, <5>2 DEF Bounded
      <4>4. CASE s \in Passed(i, b, t)'
        <5>1. ~(Total(z, Tick) >= Limit[b])
          BY <1>0, <1>1, <2>4, <4>4 DEF Passed, Past
        <5>2. paid[i] \in [Tick -> Nat] /\ IsFiniteSet(Units(z, Tick))
          BY <3>1, WindowFacts, TickUnits
        <5>3. Accepted(i, b, t) <= Total(z, Tick) /\ Total(z, Tick) \in Nat
          <6>1. \A x \in Span(b, t) : paid[i][x] \in Nat /\ z[x] \in Nat /\ paid[i][x] <= z[x]
            BY <3>1, <3>5, <4>1, <5>2
          <6>2. PICK f, g : f = paid[i] /\ g = z
            OBVIOUS
          <6>3. Total(f, Span(b, t)) <= Total(g, Tick) /\ Total(g, Tick) \in Nat
            BY <3>5, <5>2, <6>1, <6>2, FewerUnits
          <6>. QED
            BY <6>2, <6>3 DEF Accepted
        <5>4. Accepted(i, b, t) + 1 <= Limit[b]
          BY <3>4, <5>1, <5>3
        <5>5. Cardinality(Passed(i, b, t)') <= Excess + 1 /\ Cardinality(Passed(i, b, t)') \in Nat
          BY <3>3, HoldersFinite
        <5>. QED
          BY <3>4, <5>4, <5>5
      <4>. QED
        BY <4>3, <4>4
    <3>7. ASSUME ~Intact(i, b, t)'
          PROVE  Accepted(i, b, t) + Cardinality(Holding(i, b, t)') <= Limit[b] + 2 * Excess
      <4>1. CASE ~Intact(i, b, t)
        <5>1. /\ Cardinality(Holding(i, b, t)') <= Cardinality(Holding(i, b, t))
              /\ Cardinality(Holding(i, b, t)') \in Nat /\ Cardinality(Holding(i, b, t)) \in Nat
          BY <2>1, <3>3, HoldersFinite, FS_Subset, FS_CardinalityType
        <5>. QED
          BY <2>0, <3>4, <4>1, <5>1 DEF Bounded
      <4>2. CASE Intact(i, b, t)
        <5>1. PICK x \in Span(b, t) : ~(paid[i][x] <= z[x])
          BY <1>0, <3>1, <3>5, <3>7 DEF Intact
        <5>2. paid[i][x] <= hits[b][i][x]
          BY <4>2, <5>1 DEF Intact
        <5>3. x \in Tick /\ z[x] # hits[b][i][x]
          BY <3>5, <5>1, <5>2
        <5>4. x <= snow[s] - Window[b]
          BY <2>4, <5>3 DEF Trimmed
        <5>5. snow[s] \notin Span(b, t)
          <6>1. x \in Int /\ snow[s] \in Int /\ t \in Int /\ Window[b] \in Int /\ t <= x
            BY <1>0, <5>1, <5>3, WindowTypes, WindowAssumption DEF Tick
          <6>2. ~(snow[s] <= t + Window[b] - 1)
            BY <5>4, <6>1
          <6>. QED
            BY <6>1, <6>2 DEF Span
        <5>6. s \notin Holding(i, b, t)'
          BY <2>1, <5>5 DEF Holding
        <5>7. Cardinality(Holding(i, b, t)') <= Excess /\ Cardinality(Holding(i, b, t)') \in Nat
          <6>1. Holding(i, b, t)' \subseteq Server \ {s}
            BY <3>3, <5>6
          <6>2. IsFiniteSet(Server \ {s}) /\ Cardinality(Server \ {s}) = Excess
            BY ServerAssumption, FS_RemoveElement DEF Excess
          <6>. QED
            BY <6>1, <6>2, FS_Subset, FS_CardinalityType
        <5>8. Accepted(i, b, t) <= Limit[b] + Excess
          <6>1. Accepted(i, b, t) + Cardinality(Passed(i, b, t)) <= Limit[b] + Excess
            BY <2>0, <4>2 DEF Bounded
          <6>2. Cardinality(Passed(i, b, t)) \in Nat
            BY <3>3, HoldersFinite
          <6>. QED
            BY <3>4, <6>1, <6>2
        <5>. QED
          BY <3>4, <5>7, <5>8
      <4>. QED
        BY <4>1, <4>2
    <3>. QED
      BY <3>4, <3>6, <3>7 DEF Bounded
  <2>. QED
    BY <2>3, <2>4
<1>. QED
  BY <1>1 DEF WindowInv

\* Consuming: the server leaves those that have passed when it is counted.
LEMMA Consumed ==
  ASSUME IntakeTypeOK, WindowInv, NEW s \in Server, Consume(s)
  PROVE  WindowInv'
<1>0. /\ spc[s] = "consume" /\ InstIn(s) \in Inst /\ snow[s] \in Tick
      /\ spc' = [spc EXCEPT ![s] = "enqueue"] /\ UNCHANGED <<sdel, snow>>
      /\ paid' = [paid EXCEPT ![InstIn(s)][snow[s]] = @ + 1]
      /\ hits' = [b \in Bucket |->
                    IF Limit[b] = 0 THEN hits[b]
                    ELSE [hits[b] EXCEPT ![InstIn(s)][snow[s]] = @ + 1]]
  BY WindowFacts DEF Consume, Proceed, Checking
<1>1. ASSUME NEW i \in Inst, NEW b \in Bucket, NEW t \in Tick, Limit[b] > 0
      PROVE  Bounded(i, b, t)'
  <2>0. Bounded(i, b, t)
    BY <1>1 DEF WindowInv
  <2>1. Holding(i, b, t)' = Holding(i, b, t) \ {s} /\ Passed(i, b, t)' = Passed(i, b, t) \ {s}
    BY <1>0, WindowFacts DEF Holding, Passed, Past, Checking, InstIn, Span
  <2>2. CASE i # InstIn(s)
    <3>1. hits'[b][i] = hits[b][i] /\ paid'[i] = paid[i]
      BY <1>0, <2>2, WindowFacts
    <3>. QED
      BY <1>1, <2>0, <2>1, <3>1, FewerHolders
  <2>3. CASE i = InstIn(s)
    <3>1. /\ paid[i] \in [Tick -> Nat] /\ paid'[i] = [paid[i] EXCEPT ![snow[s]] = @ + 1]
          /\ hits[b][i] \in [Tick -> Nat] /\ hits'[b][i] = [hits[b][i] EXCEPT ![snow[s]] = @ + 1]
      <4>1. Limit[b] # 0
        BY <1>1, WindowTypes
      <4>. QED
        BY <1>0, <2>3, <4>1, WindowFacts
    <3>2. Span(b, t)' = Span(b, t) /\ Span(b, t) \subseteq Tick
      BY DEF Span
    <3>3. Intact(i, b, t)' <=> Intact(i, b, t)
      <4>1. ASSUME NEW x \in Tick
            PROVE  paid'[i][x] <= hits'[b][i][x] <=> paid[i][x] <= hits[b][i][x]
        <5>1. CASE x = snow[s]
          BY <3>1, <5>1
        <5>2. CASE x # snow[s]
          BY <3>1, <5>2
        <5>. QED
          BY <5>1, <5>2
      <4>. QED
        BY <3>2, <4>1 DEF Intact
    <3>4. /\ Holding(i, b, t) \subseteq Server /\ Passed(i, b, t) \subseteq Server
          /\ Accepted(i, b, t) \in Nat /\ Limit[b] \in Nat
      BY WindowTypes DEF Holding, Passed
    <3>5. /\ IsFiniteSet(Holding(i, b, t)) /\ Cardinality(Holding(i, b, t)) \in Nat
          /\ IsFiniteSet(Passed(i, b, t)) /\ Cardinality(Passed(i, b, t)) \in Nat
          /\ Excess \in Nat /\ Excess' = Excess
      BY <3>4, HoldersFinite DEF Excess
    <3>6. CASE snow[s] \in Span(b, t)
      <4>1. s \in Holding(i, b, t) /\ s \in Passed(i, b, t)
        BY <1>0, <2>3, <3>6 DEF Holding, Passed, Checking, Past
      <4>2. /\ Cardinality(Holding(i, b, t)') = Cardinality(Holding(i, b, t)) - 1
            /\ Cardinality(Passed(i, b, t)') = Cardinality(Passed(i, b, t)) - 1
        <5>1. Cardinality(Holding(i, b, t) \ {s}) = Cardinality(Holding(i, b, t)) - 1
          BY <3>5, <4>1, FS_RemoveElement
        <5>2. Cardinality(Passed(i, b, t) \ {s}) = Cardinality(Passed(i, b, t)) - 1
          BY <3>5, <4>1, FS_RemoveElement
        <5>. QED
          BY <2>1, <5>1, <5>2
      <4>3. Accepted(i, b, t)' = Accepted(i, b, t) + 1
        <5>1. PICK x \in Span(b, t) : x = snow[s]
          BY <3>6
        <5>2. PICK f, g : f = paid[i] /\ g = paid'[i]
          OBVIOUS
        <5>3. IsFiniteSet(Units(f, Span(b, t)))
          BY <3>1, <3>2, <5>2, TickUnits
        <5>4. /\ f[x] \in Nat /\ g[x] = f[x] + 1
              /\ \A y \in Span(b, t) : y # x => g[y] = f[y]
          BY <1>0, <3>1, <3>2, <5>1, <5>2
        <5>5. Total(g, Span(b, t)) = Total(f, Span(b, t)) + 1
          BY <5>3, <5>4, OneMoreUnit
        <5>. QED
          BY <3>2, <5>2, <5>5 DEF Accepted
      <4>. QED
        BY <2>0, <3>3, <3>4, <3>5, <4>2, <4>3 DEF Bounded
    <3>7. CASE snow[s] \notin Span(b, t)
      <4>1. Holding(i, b, t)' = Holding(i, b, t) /\ Passed(i, b, t)' = Passed(i, b, t)
        BY <2>1, <3>7 DEF Holding, Passed
      <4>2. \A x \in Span(b, t) : paid'[i][x] = paid[i][x]
        BY <3>1, <3>2, <3>7
      <4>3. Accepted(i, b, t)' = Accepted(i, b, t)
        <5>1. PICK f, g : f = paid[i] /\ g = paid'[i]
          OBVIOUS
        <5>2. Total(g, Span(b, t)) = Total(f, Span(b, t))
          BY <4>2, <5>1, SameUnits
        <5>. QED
          BY <3>2, <5>1, <5>2 DEF Accepted
      <4>. QED
        BY <2>0, <3>3, <3>5, <4>1, <4>3 DEF Bounded
    <3>. QED
      BY <3>6, <3>7
  <2>. QED
    BY <2>2, <2>3
<1>. QED
  BY <1>1 DEF WindowInv

\* No other step lets a server into a window.
LEMMA Elsewhere ==
  ASSUME IntakeTypeOK, WindowInv, UNCHANGED <<hits, paid>>,
         \A s \in Server : spc'[s] \in Checking =>
           spc'[s] = spc[s] /\ sdel'[s] = sdel[s] /\ snow'[s] = snow[s]
  PROVE  WindowInv'
<1>1. ASSUME NEW i \in Inst, NEW b \in Bucket, NEW t \in Tick, Limit[b] > 0
      PROVE  Bounded(i, b, t)'
  <2>1. Passed(i, b, t)' \subseteq Passed(i, b, t)
    BY DEF Passed, Past, Checking, InstIn, Span
  <2>2. Holding(i, b, t)' \subseteq Holding(i, b, t)
    BY DEF Holding, Checking, InstIn, Span
  <2>3. Bounded(i, b, t)
    BY <1>1 DEF WindowInv
  <2>. QED
    BY <1>1, <2>1, <2>2, <2>3, FewerHolders
<1>. QED
  BY <1>1 DEF WindowInv

LEMMA NextWindow ==
  ASSUME IntakeTypeOK, FreshInv, WindowInv, [IntakeNext]_intakeVars
  PROVE  WindowInv'
<1>1. ASSUME NEW s \in Server, CheckConcurrent(s) PROVE WindowInv'
  BY <1>1, ClockRead
<1>2. ASSUME NEW s \in Server, NEW b \in Bucket, CheckBucket(s, b)
      PROVE  WindowInv'
  BY <1>2, BucketChecked
<1>3. ASSUME NEW s \in Server, Consume(s) PROVE WindowInv'
  BY <1>3, Consumed
<1>4. ASSUME NEW s \in Server, EnqueueJob(s) \/ HandlerDies(s) PROVE WindowInv'
  <2>1. /\ UNCHANGED <<hits, paid>> /\ spc' = [spc EXCEPT ![s] = "idle"]
        /\ \A r \in Server \ {s} : sdel'[r] = sdel[r] /\ snow'[r] = snow[r]
    BY <1>4, WindowFacts DEF EnqueueJob, HandlerDies, Reply, quotaVars
  <2>2. \A r \in Server : spc'[r] \in Checking =>
          spc'[r] = spc[r] /\ sdel'[r] = sdel[r] /\ snow'[r] = snow[r]
    BY <2>1, WindowFacts DEF Checking
  <2>. QED
    BY <2>1, <2>2, Elsewhere
<1>5. ASSUME NEW s \in Server, NEW d \in Delivery, Request(s, d)
      PROVE  WindowInv'
  <2>1. UNCHANGED <<hits, paid, snow>>
    BY <1>5 DEF Request, Deduped, Ignored, Serve, intakeVars, quotaVars, serverVars
  <2>2. \/ UNCHANGED <<spc, sdel>>
        \/ /\ sdel' = [sdel EXCEPT ![s] = d]
           /\ spc' = [spc EXCEPT ![s] = IF InstOf[d] = NoInst THEN "enqueue" ELSE "concurrent"]
    BY <1>5 DEF Request, Deduped, Ignored, Serve, Proceed, intakeVars, serverVars
  <2>3. \A r \in Server : spc'[r] \in Checking =>
          spc'[r] = spc[r] /\ sdel'[r] = sdel[r] /\ snow'[r] = snow[r]
    BY <2>1, <2>2, WindowFacts DEF Checking
  <2>. QED
    BY <2>1, <2>3, Elsewhere
<1>6. ASSUME NEW d \in Delivery, DedupExpires(d) PROVE WindowInv'
  BY <1>6, Elsewhere DEF DedupExpires, quotaVars, serverVars
<1>7. ASSUME NEW i \in Inst, ConcExpires(i) PROVE WindowInv'
  BY <1>7, Elsewhere DEF ConcExpires, serverVars
<1>8. CASE Advance
  BY <1>8, Elsewhere DEF Advance, quotaVars, serverVars
<1>9. CASE UNCHANGED intakeVars
  BY <1>9, Elsewhere DEF intakeVars, quotaVars, serverVars
<1>. QED
  BY <1>1, <1>2, <1>3, <1>4, <1>5, <1>6, <1>7, <1>8, <1>9 DEF IntakeNext, ServerStep

\* What is younger than a window is never trimmed, whoever trims.
LEMMA NextFresh ==
  ASSUME IntakeTypeOK, FreshInv, [IntakeNext]_intakeVars
  PROVE  FreshInv'
<1>0. /\ \A s \in Server : snow[s] \in Nat /\ snow[s] <= clock
      /\ clock \in Nat /\ Tick \subseteq Nat /\ 0 \in Tick
      /\ \A b \in Bucket : Window[b] \in Nat
  BY WindowFacts, WindowAssumption DEF FreshInv, Tick
<1>1. ASSUME UNCHANGED <<hits, paid>>, clock' \in Nat, clock <= clock',
             \A s \in Server : snow'[s] = snow[s] \/ snow'[s] = 0 \/ snow'[s] = clock
      PROVE  FreshInv'
  <2>1. \A s \in Server : snow'[s] <= clock'
    BY <1>0, <1>1
  <2>2. ASSUME NEW i \in Inst, NEW b \in Bucket, NEW x \in Tick, Limit[b] > 0,
               x > clock' - Window[b]
        PROVE  paid[i][x] <= hits[b][i][x]
    <3>1. x > clock - Window[b]
      BY <1>0, <1>1, <2>2
    <3>. QED
      BY <2>2, <3>1 DEF FreshInv
  <2>. QED
    BY <1>1, <2>1, <2>2 DEF FreshInv
<1>2. ASSUME NEW s \in Server, CheckConcurrent(s) PROVE FreshInv'
  BY <1>0, <1>1, <1>2, WindowFacts DEF CheckConcurrent, Reply, quotaVars
<1>3. ASSUME NEW s \in Server, NEW c \in Bucket, CheckBucket(s, c)
      PROVE  FreshInv'
  <2> DEFINE z == Trimmed(hits[c][InstIn(s)], c, snow[s])
  <2>1. /\ UNCHANGED <<paid, clock>> /\ InstIn(s) \in Inst
        /\ hits' = IF Limit[c] = 0 THEN hits ELSE [hits EXCEPT ![c][InstIn(s)] = z]
        /\ \A r \in Server : snow'[r] = snow[r] \/ snow'[r] = 0
    BY <1>3, WindowFacts DEF CheckBucket, Reply, Checking, Bucket
  <2>2. \A r \in Server : snow'[r] <= clock'
    BY <1>0, <2>1
  <2>3. ASSUME NEW i \in Inst, NEW b \in Bucket, NEW x \in Tick, Limit[b] > 0,
               x > clock - Window[b]
        PROVE  paid[i][x] <= hits'[b][i][x]
    <3>1. paid[i][x] <= hits[b][i][x]
      BY <2>3 DEF FreshInv
    <3>2. CASE hits'[b][i] = hits[b][i]
      BY <3>1, <3>2
    <3>3. CASE hits'[b][i] = Trimmed(hits[b][i], b, snow[s])
      <4>1. ~(x <= snow[s] - Window[b])
        BY <1>0, <2>3
      <4>2. hits'[b][i][x] = hits[b][i][x]
        BY <3>3, <4>1 DEF Trimmed
      <4>. QED
        BY <3>1, <4>2
    <3>. QED
      BY <2>1, <3>2, <3>3, WindowFacts
  <2>. QED
    BY <2>1, <2>2, <2>3 DEF FreshInv
<1>4. ASSUME NEW s \in Server, Consume(s) PROVE FreshInv'
  <2>1. /\ InstIn(s) \in Inst /\ snow[s] \in Tick /\ UNCHANGED <<snow, clock>>
        /\ paid' = [paid EXCEPT ![InstIn(s)][snow[s]] = @ + 1]
        /\ hits' = [b \in Bucket |->
                      IF Limit[b] = 0 THEN hits[b]
                      ELSE [hits[b] EXCEPT ![InstIn(s)][snow[s]] = @ + 1]]
    BY <1>4, WindowFacts DEF Consume, Checking
  <2>2. ASSUME NEW i \in Inst, NEW b \in Bucket, NEW x \in Tick, Limit[b] > 0,
               x > clock - Window[b]
        PROVE  paid'[i][x] <= hits'[b][i][x]
    <3>1. paid[i][x] <= hits[b][i][x]
      BY <2>2 DEF FreshInv
    <3>2. /\ paid[i] \in [Tick -> Nat] /\ hits[b][i] \in [Tick -> Nat]
          /\ Limit[b] # 0
      BY <2>2, WindowFacts, WindowTypes
    <3>3. CASE i = InstIn(s) /\ x = snow[s]
      <4>1. paid'[i][x] = paid[i][x] + 1 /\ hits'[b][i][x] = hits[b][i][x] + 1
        BY <2>1, <3>2, <3>3, WindowFacts
      <4>. QED
        BY <3>1, <3>2, <4>1
    <3>4. CASE ~(i = InstIn(s) /\ x = snow[s])
      <4>1. paid'[i][x] = paid[i][x] /\ hits'[b][i][x] = hits[b][i][x]
        BY <2>1, <3>2, <3>4, WindowFacts
      <4>. QED
        BY <3>1, <4>1
    <3>. QED
      BY <3>3, <3>4
  <2>. QED
    BY <1>0, <2>1, <2>2 DEF FreshInv
<1>5. ASSUME NEW s \in Server, EnqueueJob(s) \/ HandlerDies(s) PROVE FreshInv'
  <2>1. UNCHANGED <<hits, paid, clock>> /\ \A r \in Server : snow'[r] = snow[r] \/ snow'[r] = 0
    BY <1>5, WindowFacts DEF EnqueueJob, HandlerDies, Reply, quotaVars
  <2>. QED
    BY <1>0, <1>1, <2>1
<1>6. ASSUME NEW s \in Server, NEW d \in Delivery, Request(s, d) PROVE FreshInv'
  BY <1>0, <1>1, <1>6 DEF Request, Deduped, Ignored, Serve, intakeVars, quotaVars, serverVars
<1>7. ASSUME NEW d \in Delivery, DedupExpires(d) PROVE FreshInv'
  BY <1>0, <1>1, <1>7 DEF DedupExpires, quotaVars, serverVars
<1>8. ASSUME NEW i \in Inst, ConcExpires(i) PROVE FreshInv'
  BY <1>0, <1>1, <1>8 DEF ConcExpires, serverVars
<1>9. CASE Advance
  BY <1>0, <1>1, <1>9 DEF Advance, quotaVars, serverVars
<1>10. CASE UNCHANGED intakeVars
  BY <1>0, <1>1, <1>10 DEF intakeVars, quotaVars, serverVars
<1>. QED
  BY <1>2, <1>3, <1>4, <1>5, <1>6, <1>7, <1>8, <1>9, <1>10 DEF IntakeNext, ServerStep

LEMMA InitFresh == IntakeInit => FreshInv
<1> SUFFICES ASSUME IntakeInit PROVE FreshInv
  OBVIOUS
<1>1. \A i \in Inst, b \in Bucket, x \in Tick : paid[i][x] = 0 /\ hits[b][i][x] = 0
  BY DEF IntakeInit
<1>. QED
  BY <1>1 DEF FreshInv, IntakeInit

\* A window exceeds its limit by one job for each further process while it lasts,
\* and by as many again when it is over.
THEOREM WindowIsRespected == IntakeSpec => []WindowRespected
<1>1. IntakeInit => FreshInv /\ WindowInv
  <2> SUFFICES ASSUME IntakeInit PROVE FreshInv /\ WindowInv
    OBVIOUS
  <2>1. \A i \in Inst, b \in Bucket, x \in Tick : paid[i][x] = 0 /\ hits[b][i][x] = 0
    BY DEF IntakeInit
  <2>2. FreshInv
    BY InitFresh
  <2>3. ASSUME NEW i \in Inst, NEW b \in Bucket, NEW t \in Tick, Limit[b] > 0
        PROVE  Bounded(i, b, t)
    <3>1. Span(b, t) \subseteq Tick
      BY DEF Span
    <3>2. Intact(i, b, t)
      BY <2>1, <3>1 DEF Intact
    <3>3. Accepted(i, b, t) = 0
      <4>1. PICK f : f = paid[i]
        OBVIOUS
      <4>2. Total(f, Span(b, t)) = 0
        BY <2>1, <3>1, <4>1, NoUnits
      <4>. QED
        BY <4>1, <4>2 DEF Accepted
    <3>4. Passed(i, b, t) = {}
      BY DEF Passed, Past, IntakeInit
    <3>5. Cardinality(Passed(i, b, t)) = 0
      BY <3>4, FS_EmptySet
    <3>6. Excess \in Nat /\ Limit[b] \in Nat
      BY HoldersFinite, LimitAssumption
    <3>. QED
      BY <3>2, <3>3, <3>5, <3>6 DEF Bounded
  <2>. QED
    BY <2>2, <2>3 DEF WindowInv
<1>2. IntakeTypeOK /\ FreshInv /\ WindowInv => WindowRespected
  <2> SUFFICES ASSUME IntakeTypeOK, FreshInv, WindowInv,
                      NEW i \in Inst, NEW b \in Bucket, NEW t \in Tick, Limit[b] > 0
               PROVE  /\ clock < t + Window[b] => Accepted(i, b, t) <= Limit[b] + Excess
                      /\ Accepted(i, b, t) <= Limit[b] + 2 * Excess
    BY DEF WindowRespected, Accepted, Excess
  <2>1. /\ Accepted(i, b, t) \in Nat /\ Limit[b] \in Nat /\ Excess \in Nat
        /\ Cardinality(Passed(i, b, t)) \in Nat /\ Cardinality(Holding(i, b, t)) \in Nat
    <3>1. Passed(i, b, t) \subseteq Server /\ Holding(i, b, t) \subseteq Server
      BY DEF Passed, Holding
    <3>. QED
      BY <3>1, WindowTypes, HoldersFinite
  <2>2. Bounded(i, b, t)
    BY DEF WindowInv
  <2>3. clock < t + Window[b] => Intact(i, b, t)
    BY OpenIntact
  <2>. QED
    BY <2>1, <2>2, <2>3 DEF Bounded
<1>3. IntakeTypeOK /\ FreshInv /\ WindowInv /\ [IntakeNext]_intakeVars => FreshInv' /\ WindowInv'
  BY NextFresh, NextWindow
<1>. QED
  BY <1>1, <1>2, <1>3, IntakeTypeCorrect, PTL DEF IntakeSpec

-----------------------------------------------------------------------------
(* The three keys count what was consumed *)

\* Trimming and expiry only take away; a counter that has not run out has all.
KeysInv ==
    /\ \A i \in Inst, b \in Bucket, x \in Tick : hits[b][i][x] <= paid[i][x]
    /\ Limit["concurrent"] > 0 =>
          \A i \in Inst : /\ conc[i] <= Total(paid[i], Tick)
                          /\ faults["concExpiry"] = 0 => conc[i] = Total(paid[i], Tick)

LEMMA InitKeys == IntakeInit => KeysInv
<1> SUFFICES ASSUME IntakeInit PROVE KeysInv
  OBVIOUS
<1>1. \A i \in Inst, b \in Bucket, x \in Tick : paid[i][x] = 0 /\ hits[b][i][x] = 0
  BY DEF IntakeInit
<1>2. ASSUME NEW i \in Inst PROVE conc[i] = Total(paid[i], Tick)
  <2>1. PICK f : f = paid[i]
    OBVIOUS
  <2>2. Total(f, Tick) = 0
    BY <1>1, <2>1, NoUnits DEF Bucket
  <2>. QED
    BY <2>1, <2>2 DEF IntakeInit
<1>3. \A i \in Inst : conc[i] = 0
  BY DEF IntakeInit
<1>. QED
  BY <1>1, <1>2, <1>3 DEF KeysInv

\* One more consumption of an installation at a tick.
LEMMA PaidOnce ==
  ASSUME IntakeTypeOK, NEW i \in Inst, NEW t \in Tick, paid' = [paid EXCEPT ![i][t] = @ + 1]
  PROVE  /\ paid'[i][t] = paid[i][t] + 1 /\ Total(paid'[i], Tick) = Total(paid[i], Tick) + 1
         /\ \A j \in Inst, x \in Tick : j # i \/ x # t => paid'[j][x] = paid[j][x]
         /\ \A j \in Inst : j # i => paid'[j] = paid[j]
<1>1. paid \in [Inst -> [Tick -> Nat]]
  BY WindowFacts
<1>2. PICK f, g : f = paid[i] /\ g = paid'[i]
  OBVIOUS
<1>3. f[t] \in Nat /\ g[t] = f[t] + 1 /\ \A x \in Tick : x # t => g[x] = f[x]
  BY <1>1, <1>2
<1>4. IsFiniteSet(Units(f, Tick))
  BY <1>1, <1>2, TickUnits
<1>5. Total(g, Tick) = Total(f, Tick) + 1
  BY <1>3, <1>4, OneMoreUnit
<1>. QED
  BY <1>1, <1>2, <1>3, <1>5

LEMMA NextKeys ==
  ASSUME IntakeTypeOK, KeysInv, [IntakeNext]_intakeVars
  PROVE  KeysInv'
<1>0. /\ \A i \in Inst : conc[i] \in Int /\ Total(paid[i], Tick) \in Nat
      /\ \A i \in Inst, b \in Bucket, x \in Tick : hits[b][i][x] \in Nat /\ paid[i][x] \in Nat
      /\ faults \in [IntakeFaults -> Nat] /\ Limit["concurrent"] \in Nat
  <2>1. \A i \in Inst : conc[i] \in Int /\ paid[i] \in [Tick -> Nat]
    BY DEF IntakeTypeOK
  <2>2. \A i \in Inst : Total(paid[i], Tick) \in Nat
    BY <2>1, TickUnits
  <2>. QED
    BY <2>1, <2>2, LimitAssumption DEF IntakeTypeOK
<1>1. ASSUME UNCHANGED <<hits, conc, paid>>, faults'["concExpiry"] = faults["concExpiry"]
      PROVE  KeysInv'
  BY <1>1 DEF KeysInv
<1>2. ASSUME NEW s \in Server, CheckConcurrent(s) PROVE KeysInv'
  BY <1>1, <1>2 DEF CheckConcurrent, quotaVars
<1>3. ASSUME NEW s \in Server, NEW c \in Bucket, CheckBucket(s, c) PROVE KeysInv'
  <2>1. /\ UNCHANGED <<conc, paid, faults>> /\ InstIn(s) \in Inst
        /\ hits' = IF Limit[c] = 0 THEN hits
                   ELSE [hits EXCEPT ![c][InstIn(s)] = Trimmed(hits[c][InstIn(s)], c, snow[s])]
    BY <1>3, WindowFacts DEF CheckBucket, Checking, Bucket
  <2>2. ASSUME NEW i \in Inst, NEW b \in Bucket, NEW x \in Tick
        PROVE  hits'[b][i][x] = hits[b][i][x] \/ hits'[b][i][x] = 0
    <3>1. \/ hits'[b][i] = hits[b][i]
          \/ hits'[b][i] = Trimmed(hits[b][i], b, snow[s])
      BY <2>1, WindowFacts
    <3>. QED
      BY <3>1 DEF Trimmed
  <2>3. \A i \in Inst, b \in Bucket, x \in Tick : hits'[b][i][x] <= paid[i][x]
    BY <1>0, <2>2 DEF KeysInv
  <2>. QED
    BY <2>1, <2>3 DEF KeysInv
<1>4. ASSUME NEW s \in Server, Consume(s) PROVE KeysInv'
  <2>1. /\ InstIn(s) \in Inst /\ snow[s] \in Tick /\ UNCHANGED faults
        /\ paid' = [paid EXCEPT ![InstIn(s)][snow[s]] = @ + 1]
        /\ hits' = [b \in Bucket |->
                      IF Limit[b] = 0 THEN hits[b]
                      ELSE [hits[b] EXCEPT ![InstIn(s)][snow[s]] = @ + 1]]
        /\ Limit["concurrent"] > 0 => conc' = [conc EXCEPT ![InstIn(s)] = @ + 1]
    BY <1>0, <1>4, WindowFacts DEF Consume, Checking
  <2>2. /\ paid'[InstIn(s)][snow[s]] = paid[InstIn(s)][snow[s]] + 1
        /\ Total(paid'[InstIn(s)], Tick) = Total(paid[InstIn(s)], Tick) + 1
        /\ \A j \in Inst, x \in Tick :
             j # InstIn(s) \/ x # snow[s] => paid'[j][x] = paid[j][x]
        /\ \A j \in Inst : j # InstIn(s) => paid'[j] = paid[j]
    BY <2>1, PaidOnce
  <2>3. ASSUME NEW i \in Inst, NEW b \in Bucket, NEW x \in Tick
        PROVE  hits'[b][i][x] <= paid'[i][x]
    <3>1. hits[b][i][x] <= paid[i][x]
      BY DEF KeysInv
    <3>2. CASE i = InstIn(s) /\ x = snow[s]
      <4>1. hits'[b][i][x] = hits[b][i][x] + 1 \/ hits'[b][i][x] = hits[b][i][x]
        BY <2>1, <3>2, WindowFacts
      <4>2. paid'[i][x] = paid[i][x] + 1
        BY <2>2, <3>2
      <4>. QED
        BY <1>0, <3>1, <4>1, <4>2
    <3>3. CASE ~(i = InstIn(s) /\ x = snow[s])
      <4>1. hits'[b][i][x] = hits[b][i][x]
        BY <2>1, <3>3, WindowFacts
      <4>. QED
        BY <2>2, <3>1, <3>3, <4>1
    <3>. QED
      BY <3>2, <3>3
  <2>4. ASSUME Limit["concurrent"] > 0, NEW i \in Inst
        PROVE  /\ conc'[i] <= Total(paid'[i], Tick)
               /\ faults'["concExpiry"] = 0 => conc'[i] = Total(paid'[i], Tick)
    <3>1. /\ conc[i] <= Total(paid[i], Tick)
          /\ faults["concExpiry"] = 0 => conc[i] = Total(paid[i], Tick)
      BY <2>4 DEF KeysInv
    <3>2. CASE i = InstIn(s)
      <4>1. conc'[i] = conc[i] + 1
        BY <2>1, <2>4, <3>2 DEF IntakeTypeOK
      <4>2. Total(paid'[i], Tick) = Total(paid[i], Tick) + 1
        BY <2>2, <3>2
      <4>. QED
        BY <1>0, <2>1, <3>1, <4>1, <4>2
    <3>3. CASE i # InstIn(s)
      <4>1. conc'[i] = conc[i]
        BY <2>1, <2>4, <3>3 DEF IntakeTypeOK
      <4>. QED
        BY <2>1, <2>2, <3>1, <3>3, <4>1
    <3>. QED
      BY <3>2, <3>3
  <2>. QED
    BY <2>3, <2>4 DEF KeysInv
<1>5. ASSUME NEW s \in Server, EnqueueJob(s) PROVE KeysInv'
  BY <1>1, <1>5 DEF EnqueueJob, quotaVars
<1>6. ASSUME NEW s \in Server, HandlerDies(s) PROVE KeysInv'
  BY <1>0, <1>1, <1>6 DEF HandlerDies, Fault, IntakeFaults, quotaVars
<1>7. ASSUME NEW s \in Server, NEW d \in Delivery, Request(s, d) PROVE KeysInv'
  BY <1>1, <1>7 DEF Request, Deduped, Ignored, Serve, intakeVars, quotaVars
<1>8. ASSUME NEW d \in Delivery, DedupExpires(d) PROVE KeysInv'
  BY <1>0, <1>1, <1>8 DEF DedupExpires, Fault, IntakeFaults, quotaVars
<1>9. ASSUME NEW i \in Inst, ConcExpires(i), Fault("concExpiry") PROVE KeysInv'
  <2>1. /\ UNCHANGED <<hits, paid>> /\ faults'["concExpiry"] # 0
        /\ conc' = [conc EXCEPT ![i] = 0]
    BY <1>0, <1>9 DEF ConcExpires, SetZero, Fault, IntakeFaults
  <2>2. \A j \in Inst : conc'[j] = conc[j] \/ conc'[j] = 0
    BY <2>1 DEF IntakeTypeOK
  <2>. QED
    BY <1>0, <2>1, <2>2 DEF KeysInv
<1>10. CASE Advance
  BY <1>1, <1>10 DEF Advance, quotaVars
<1>11. CASE UNCHANGED intakeVars
  BY <1>1, <1>11 DEF intakeVars, quotaVars
<1>. QED
  BY <1>2, <1>3, <1>4, <1>5, <1>6, <1>7, <1>8, <1>9, <1>10, <1>11 DEF IntakeNext, ServerStep

\* "consume on success": the sorted sets and the counter of an installation
\* count jobs that are enqueued or about to be, and nothing a later bucket
\* refused; only a handler that dies leaves a charge without a job.  While no
\* window is over, and no counter has run out, they count every one of them.
THEOREM SuccessIsCharged == IntakeSpec => []ChargedOnSuccess
<1>1. IntakeTypeOK /\ ChargedInv /\ KeysInv /\ FreshInv => ChargedOnSuccess
  <2> SUFFICES ASSUME IntakeTypeOK, ChargedInv, KeysInv, FreshInv, NEW i \in Inst
               PROVE  /\ \A b \in Bucket : Limit[b] > 0 =>
                            /\ Total(hits[b][i], Tick) <= Backed(i) + faults["death"]
                            /\ clock < Window[b] => Total(hits[b][i], Tick) >= Backed(i)
                      /\ Limit["concurrent"] > 0 =>
                            /\ conc[i] <= Backed(i) + faults["death"]
                            /\ faults["concExpiry"] = 0 => conc[i] >= Backed(i)
    BY DEF ChargedOnSuccess
  <2>1. Backed(i) = Owed(i)
    BY DEF Backed, Owed, Due, Mine
  <2>2. /\ Owed(i) <= Total(paid[i], Tick) /\ Total(paid[i], Tick) <= Owed(i) + faults["death"]
        /\ Owed(i) \in Nat /\ Total(paid[i], Tick) \in Nat
        /\ faults["death"] \in Nat /\ conc[i] \in Int
    BY ChargedTypes DEF ChargedInv, IntakeTypeOK, IntakeFaults
  <2>3. ASSUME NEW b \in Bucket, Limit[b] > 0
        PROVE  /\ Total(hits[b][i], Tick) <= Total(paid[i], Tick) /\ Total(hits[b][i], Tick) \in Nat
               /\ clock < Window[b] => Total(paid[i], Tick) <= Total(hits[b][i], Tick)
    <3>1. PICK f, g : f = hits[b][i] /\ g = paid[i]
      OBVIOUS
    <3>2. f \in [Tick -> Nat] /\ g \in [Tick -> Nat]
      BY <3>1, WindowFacts
    <3>3. IsFiniteSet(Units(f, Tick)) /\ IsFiniteSet(Units(g, Tick))
      BY <3>2, TickUnits
    <3>4. \A x \in Tick : f[x] <= g[x]
      BY <3>1 DEF KeysInv
    <3>5. Total(f, Tick) <= Total(g, Tick) /\ Total(f, Tick) \in Nat
      BY <3>2, <3>3, <3>4, FewerUnits
    <3>6. ASSUME clock < Window[b] PROVE Total(g, Tick) <= Total(f, Tick)
      <4>1. \A x \in Tick : x > clock - Window[b]
        BY <3>6, WindowFacts, WindowTypes, WindowAssumption DEF Tick
      <4>2. \A x \in Tick : g[x] <= f[x]
        BY <2>3, <3>1, <4>1 DEF FreshInv
      <4>. QED
        BY <3>2, <3>3, <4>2, FewerUnits
    <3>. QED
      BY <3>1, <3>5, <3>6
  <2>4. \A b \in Bucket : Limit[b] > 0 =>
           /\ Total(hits[b][i], Tick) <= Backed(i) + faults["death"]
           /\ clock < Window[b] => Total(hits[b][i], Tick) >= Backed(i)
    BY <2>1, <2>2, <2>3
  <2>5. Limit["concurrent"] > 0 =>
           /\ conc[i] <= Backed(i) + faults["death"]
           /\ faults["concExpiry"] = 0 => conc[i] >= Backed(i)
    BY <2>1, <2>2 DEF KeysInv
  <2>. QED
    BY <2>4, <2>5
<1>2. IntakeTypeOK /\ FreshInv /\ [IntakeNext]_intakeVars => FreshInv'
  BY NextFresh
<1>3. IntakeInit => FreshInv
  BY InitFresh
<1>4. IntakeTypeOK /\ ChargedInv /\ [IntakeNext]_intakeVars => ChargedInv'
  BY NextCharged
<1>5. IntakeTypeOK /\ KeysInv /\ [IntakeNext]_intakeVars => KeysInv'
  BY NextKeys
<1>. QED
  BY <1>1, <1>2, <1>3, <1>4, <1>5, InitCharged, InitKeys, IntakeTypeCorrect, PTL DEF IntakeSpec
=============================================================================
