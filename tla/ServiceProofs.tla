--------------------------- MODULE ServiceProofs ---------------------------
(***************************************************************************)
(* Machine-checked proofs about the concurrency counter of Service, for    *)
(* every set of jobs, installations, workers and webhook processes.        *)
(***************************************************************************)
EXTENDS Service, Sequences, FiniteSetTheorems, TLAPS

-----------------------------------------------------------------------------
(* Cardinalities *)

LEMMA CardGrows ==
  ASSUME NEW A, NEW B, IsFiniteSet(B), A \subseteq B
  PROVE  /\ IsFiniteSet(A) /\ Cardinality(A) <= Cardinality(B)
         /\ Cardinality(A) \in Nat /\ Cardinality(B) \in Nat
  BY FS_Subset, FS_CardinalityType

LEMMA CardGains ==
  ASSUME NEW A, NEW B, NEW x, IsFiniteSet(B), x \notin A, A \cup {x} \subseteq B
  PROVE  /\ IsFiniteSet(A) /\ Cardinality(A) + 1 <= Cardinality(B)
         /\ Cardinality(A) \in Nat /\ Cardinality(B) \in Nat
<1>1. IsFiniteSet(A) /\ Cardinality(A) \in Nat /\ Cardinality(B) \in Nat
  BY CardGrows
<1>2. IsFiniteSet(A \cup {x}) /\ Cardinality(A \cup {x}) = Cardinality(A) + 1
  BY <1>1, FS_AddElement
<1>3. Cardinality(A \cup {x}) <= Cardinality(B)
  BY CardGrows
<1>. QED
  BY <1>1, <1>2, <1>3

LEMMA CardLoses ==
  ASSUME NEW A, NEW B, NEW x, IsFiniteSet(B), A \subseteq B \cup {x}
  PROVE  /\ IsFiniteSet(A) /\ Cardinality(A) <= Cardinality(B) + 1
         /\ Cardinality(A) \in Nat /\ Cardinality(B) \in Nat
<1>1. /\ IsFiniteSet(B \cup {x}) /\ Cardinality(B) \in Nat
      /\ Cardinality(B \cup {x}) <= Cardinality(B) + 1
  BY FS_AddElement, FS_CardinalityType
<1>2. IsFiniteSet(A) /\ Cardinality(A) <= Cardinality(B \cup {x})
      /\ Cardinality(A) \in Nat /\ Cardinality(B \cup {x}) \in Nat
  BY <1>1, CardGrows
<1>. QED
  BY <1>1, <1>2

-----------------------------------------------------------------------------
(* Types, as far as the counter needs them *)

QueueFunctions ==
    /\ queue \in Seq(Job) /\ hash \in [Job -> J!JobHash]
    /\ pc \in [Worker -> J!WorkerPC] /\ att \in [Worker -> Nat]
    /\ job \in [Worker -> Job \cup {NoJob}]
    /\ \A w \in Worker : J!Working(w) => job[w] \in Job
    /\ spent \in [J!Kinds -> Nat]

IntakeFunctions ==
    /\ conc \in [Inst -> Int]
    /\ spc \in [Server -> I!ServerPC] /\ sdel \in [Server -> Job \cup {NoDelivery}]
    /\ \A s \in Server : spc[s] # "idle" => sdel[s] \in Job
    /\ faults \in [I!IntakeFaults -> Nat]

\* A worker that is between its DECR and its SET 0 is at that step.
ClampType ==
    /\ clamping \in [Worker -> BOOLEAN]
    /\ \A w \in Worker : clamping[w] => pc[w] = "quota"

Functions == QueueFunctions /\ IntakeFunctions /\ ClampType

LEMMA InitFunctions == Init => Functions
<1> SUFFICES ASSUME Init PROVE Functions
  OBVIOUS
<1>1. QueueFunctions
  BY DEF Init, J!Init, QueueFunctions, J!WorkerPC, J!JobHash, J!JobStatus, J!Working
<1>2. IntakeFunctions
  BY DEF Init, I!IntakeInit, IntakeFunctions, I!ServerPC
<1>3. ClampType
  BY DEF Init, ClampType
<1>. QED
  BY <1>1, <1>2, <1>3 DEF Functions

LEMMA SpendGrows ==
  ASSUME NEW k \in J!Kinds, spent \in [J!Kinds -> Nat], J!Spend(k)
  PROVE  /\ spent' \in [J!Kinds -> Nat] /\ spent'[k] = spent[k] + 1
         /\ \A x \in J!Kinds : spent'[x] >= spent[x]
  BY DEF J!Spend

\* A step of the queue keeps its types.
LEMMA QueueStepTypes ==
  ASSUME QueueFunctions, QueueStep
  PROVE  QueueFunctions'
<1> USE DEF J!redisVars, J!adminVars, J!Goto
<1>0. QueueFunctions
  OBVIOUS
<1>1. ASSUME NEW w \in Worker, J!Start(w) PROVE QueueFunctions'
  BY <1>0, <1>1
     DEF J!Start, QueueFunctions, J!Kinds, J!WorkerPC, J!Working, J!JobHash,
         J!JobStatus, J!Missing
<1>2. ASSUME NEW w \in Worker, J!RecoverOne(w), pc[w] # "quota"
      PROVE  QueueFunctions'
  BY <1>0, <1>2
     DEF J!RecoverOne, J!LPush, QueueFunctions, J!Kinds, J!WorkerPC, J!Working,
         J!JobHash, J!JobStatus, J!Missing
<1>3. ASSUME NEW w \in Worker, J!RecoverDone(w), pc[w] # "quota"
      PROVE  QueueFunctions'
  BY <1>0, <1>3
     DEF J!RecoverDone, J!NextRound, QueueFunctions, J!Kinds, J!WorkerPC,
         J!Working, J!JobHash, J!JobStatus, J!Missing
<1>4. ASSUME NEW w \in Worker, J!Claim(w), pc[w] # "quota" PROVE QueueFunctions'
  BY <1>0, <1>4, SMTT(30)
     DEF J!Claim, QueueFunctions, J!Kinds, J!WorkerPC, J!Working, J!JobHash,
         J!JobStatus, J!Missing
<1>5. ASSUME NEW w \in Worker, J!ClaimTimeout(w), pc[w] # "quota"
      PROVE  QueueFunctions'
  BY <1>0, <1>5
     DEF J!ClaimTimeout, J!NextRound, QueueFunctions, J!Kinds, J!WorkerPC,
         J!Working, J!JobHash, J!JobStatus, J!Missing
<1>6. ASSUME NEW w \in Worker, J!Load(w), pc[w] # "quota" PROVE QueueFunctions'
  BY <1>0, <1>6, ZenonT(60)
     DEF J!Load, QueueFunctions, J!Kinds, J!WorkerPC, J!Working, J!JobHash,
         J!JobStatus, J!Missing
<1>7. ASSUME NEW w \in Worker, J!Drop(w), pc[w] # "quota" PROVE QueueFunctions'
  BY <1>0, <1>7
     DEF J!Drop, J!NextRound, J!LRem, QueueFunctions, J!Kinds, J!WorkerPC,
         J!Working, J!JobHash, J!JobStatus, J!Missing
<1>8. ASSUME NEW w \in Worker, J!AcquireLock(w), pc[w] # "quota"
      PROVE  QueueFunctions'
  BY <1>0, <1>8
     DEF J!AcquireLock, QueueFunctions, J!Kinds, J!WorkerPC, J!Working,
         J!JobHash, J!JobStatus, J!Missing
<1>9. ASSUME NEW w \in Worker, J!PushBusy(w), pc[w] # "quota"
      PROVE  QueueFunctions'
  BY <1>0, <1>9
     DEF J!PushBusy, J!LPush, QueueFunctions, J!Kinds, J!WorkerPC, J!Working,
         J!JobHash, J!JobStatus, J!Missing
<1>10. ASSUME NEW w \in Worker, J!BeginRun(w), pc[w] # "quota"
      PROVE  QueueFunctions'
  <2>1. job[w] \in Job /\ att[w] \in Nat
    BY <1>0, <1>10 DEF J!BeginRun, QueueFunctions, J!Working
  <2> DEFINE n == att[w] + 1
             Becomes(status, label) ==
               /\ hash' = [hash EXCEPT ![job[w]] = [status |-> status, attempts |-> n]]
               /\ pc' = [pc EXCEPT ![w] = label]
  <2>2. n \in Nat /\ att' = [att EXCEPT ![w] = n] /\ UNCHANGED <<queue, job, spent>>
    BY <2>1, <1>10 DEF J!BeginRun
  <2>3. \/ Becomes("running", "dispatch") \/ Becomes("dead", "toDlq")
        \/ Becomes("pending", "backoff")
    BY <1>10 DEF J!BeginRun, J!Update
  <2>4. PICK status \in J!JobStatus, label \in J!WorkerPC \ {"down", "recover", "claim"} :
          Becomes(status, label)
    <3> HIDE DEF Becomes
    <3>. QED
      BY <2>3 DEF J!WorkerPC, J!JobStatus
  <2>5. [status |-> status, attempts |-> n] \in J!JobHash
    BY <2>2 DEF J!JobHash
  <2>6. /\ hash' \in [Job -> J!JobHash] /\ att' \in [Worker -> Nat]
        /\ pc' \in [Worker -> J!WorkerPC]
    BY <1>0, <2>1, <2>2, <2>4, <2>5 DEF QueueFunctions
  <2>7. \A v \in Worker : J!Working(v)' => job'[v] \in Job
    BY <1>0, <2>1, <2>2, <2>4 DEF QueueFunctions, J!Working
  <2>. QED
    BY <1>0, <2>2, <2>6, <2>7 DEF QueueFunctions
<1>11. ASSUME NEW w \in Worker, J!RunSucceeds(w), pc[w] # "quota"
      PROVE  QueueFunctions'
  BY <1>0, <1>11
     DEF J!RunSucceeds, J!Update, QueueFunctions, J!Kinds, J!WorkerPC,
         J!Working, J!JobHash, J!JobStatus, J!Missing
<1>12. ASSUME NEW w \in Worker, J!RunFails(w), pc[w] # "quota"
      PROVE  QueueFunctions'
  <2>1. job[w] \in Job /\ att[w] \in Nat
    BY <1>0, <1>12 DEF J!RunFails, QueueFunctions, J!Working
  <2> DEFINE n == att[w] + 1
             Becomes(status, label) ==
               /\ hash' = [hash EXCEPT ![job[w]] = [status |-> status, attempts |-> n]]
               /\ pc' = [pc EXCEPT ![w] = label]
  <2>2. n \in Nat /\ att' = [att EXCEPT ![w] = n] /\ UNCHANGED <<queue, job, spent>>
    BY <2>1, <1>12 DEF J!RunFails
  <2>3. \/ Becomes("running", "dispatch") \/ Becomes("dead", "toDlq")
        \/ Becomes("pending", "backoff")
    BY <1>12 DEF J!RunFails, J!Update
  <2>4. PICK status \in J!JobStatus, label \in J!WorkerPC \ {"down", "recover", "claim"} :
          Becomes(status, label)
    <3> HIDE DEF Becomes
    <3>. QED
      BY <2>3 DEF J!WorkerPC, J!JobStatus
  <2>5. [status |-> status, attempts |-> n] \in J!JobHash
    BY <2>2 DEF J!JobHash
  <2>6. /\ hash' \in [Job -> J!JobHash] /\ att' \in [Worker -> Nat]
        /\ pc' \in [Worker -> J!WorkerPC]
    BY <1>0, <2>1, <2>2, <2>4, <2>5 DEF QueueFunctions
  <2>7. \A v \in Worker : J!Working(v)' => job'[v] \in Job
    BY <1>0, <2>1, <2>2, <2>4 DEF QueueFunctions, J!Working
  <2>. QED
    BY <1>0, <2>2, <2>6, <2>7 DEF QueueFunctions
<1>13. ASSUME NEW w \in Worker, J!PushDead(w), pc[w] # "quota"
      PROVE  QueueFunctions'
  BY <1>0, <1>13
     DEF J!PushDead, QueueFunctions, J!Kinds, J!WorkerPC, J!Working, J!JobHash,
         J!JobStatus, J!Missing
<1>14. ASSUME NEW w \in Worker, J!PushRetry(w), pc[w] # "quota"
      PROVE  QueueFunctions'
  BY <1>0, <1>14
     DEF J!PushRetry, J!LPush, QueueFunctions, J!Kinds, J!WorkerPC, J!Working,
         J!JobHash, J!JobStatus, J!Missing
<1>15. ASSUME NEW w \in Worker, J!ReleaseLock(w), pc[w] # "quota"
      PROVE  QueueFunctions'
  BY <1>0, <1>15
     DEF J!ReleaseLock, QueueFunctions, J!Kinds, J!WorkerPC, J!Working,
         J!JobHash, J!JobStatus, J!Missing
<1>16. ASSUME NEW w \in Worker, J!Ack(w), pc[w] # "quota" PROVE QueueFunctions'
  BY <1>0, <1>16
     DEF J!Ack, J!NextRound, J!LRem, QueueFunctions, J!Kinds, J!WorkerPC,
         J!Working, J!JobHash, J!JobStatus, J!Missing
<1>17. ASSUME NEW w \in Worker, J!ClaimFails(w) PROVE QueueFunctions'
  BY <1>0, <1>17
     DEF J!ClaimFails, J!NextRound, J!Spend, QueueFunctions, J!Kinds,
         J!WorkerPC, J!Working, J!JobHash, J!JobStatus, J!Missing
<1>18. ASSUME NEW w \in Worker, J!RetryRaises(w) PROVE QueueFunctions'
  BY <1>0, <1>18
     DEF J!RetryRaises, J!Spend, QueueFunctions, J!Kinds, J!WorkerPC, J!Working,
         J!JobHash, J!JobStatus, J!Missing
<1>19. ASSUME NEW w \in Worker, J!ReleaseFails(w) PROVE QueueFunctions'
  BY <1>0, <1>19, SMTT(30)
     DEF J!ReleaseFails, J!Spend, QueueFunctions, J!Kinds, J!WorkerPC,
         J!Working, J!JobHash, J!JobStatus, J!Missing
<1>20. ASSUME NEW r \in Repo, J!LockExpires(r)
      PROVE  QueueFunctions'
  BY <1>0, <1>20
     DEF J!LockExpires, J!Spend, QueueFunctions, J!Kinds, J!WorkerPC, J!Working,
         J!JobHash, J!JobStatus, J!Missing
<1>21. ASSUME NEW w \in Worker, J!ReleaseQuota(w), pc[w] # "quota"
      PROVE  QueueFunctions'
  BY <1>21 DEF J!ReleaseQuota
<1>. QED
  BY <1>1, <1>2, <1>3, <1>4, <1>5, <1>6, <1>7, <1>8, <1>9, <1>10, <1>11, <1>12,
     <1>13, <1>14, <1>15, <1>16, <1>17, <1>18, <1>19, <1>20, <1>21
     DEF QueueStep, J!WorkerStep

\* It leaves the counter and whoever is paying it back alone.
LEMMA QueueStepFrame ==
  ASSUME QueueFunctions, QueueStep
  PROVE  /\ \A k \in J!Kinds : spent'[k] >= spent[k]
         /\ \A v \in Worker : pc[v] = "quota" => pc'[v] = "quota" /\ job'[v] = job[v]
<1> USE DEF J!redisVars, J!adminVars, J!Goto
<1>0. QueueFunctions
  OBVIOUS
<1>1. ASSUME NEW w \in Worker, J!Start(w)
      PROVE  /\ \A k \in J!Kinds : spent'[k] >= spent[k]
         /\ \A v \in Worker : pc[v] = "quota" => pc'[v] = "quota" /\ job'[v] = job[v]
  BY <1>0, <1>1 DEF J!Start, QueueFunctions, J!Kinds
<1>2. ASSUME NEW w \in Worker, J!RecoverOne(w), pc[w] # "quota"
      PROVE  /\ \A k \in J!Kinds : spent'[k] >= spent[k]
         /\ \A v \in Worker : pc[v] = "quota" => pc'[v] = "quota" /\ job'[v] = job[v]
  BY <1>0, <1>2 DEF J!RecoverOne, J!LPush, QueueFunctions, J!Kinds
<1>3. ASSUME NEW w \in Worker, J!RecoverDone(w), pc[w] # "quota"
      PROVE  /\ \A k \in J!Kinds : spent'[k] >= spent[k]
         /\ \A v \in Worker : pc[v] = "quota" => pc'[v] = "quota" /\ job'[v] = job[v]
  BY <1>0, <1>3 DEF J!RecoverDone, J!NextRound, QueueFunctions, J!Kinds
<1>4. ASSUME NEW w \in Worker, J!Claim(w), pc[w] # "quota"
      PROVE  /\ \A k \in J!Kinds : spent'[k] >= spent[k]
         /\ \A v \in Worker : pc[v] = "quota" => pc'[v] = "quota" /\ job'[v] = job[v]
  BY <1>0, <1>4 DEF J!Claim, QueueFunctions, J!Kinds
<1>5. ASSUME NEW w \in Worker, J!ClaimTimeout(w), pc[w] # "quota"
      PROVE  /\ \A k \in J!Kinds : spent'[k] >= spent[k]
         /\ \A v \in Worker : pc[v] = "quota" => pc'[v] = "quota" /\ job'[v] = job[v]
  BY <1>0, <1>5 DEF J!ClaimTimeout, J!NextRound, QueueFunctions, J!Kinds
<1>6. ASSUME NEW w \in Worker, J!Load(w), pc[w] # "quota"
      PROVE  /\ \A k \in J!Kinds : spent'[k] >= spent[k]
         /\ \A v \in Worker : pc[v] = "quota" => pc'[v] = "quota" /\ job'[v] = job[v]
  BY <1>0, <1>6 DEF J!Load, QueueFunctions, J!Kinds
<1>7. ASSUME NEW w \in Worker, J!Drop(w), pc[w] # "quota"
      PROVE  /\ \A k \in J!Kinds : spent'[k] >= spent[k]
         /\ \A v \in Worker : pc[v] = "quota" => pc'[v] = "quota" /\ job'[v] = job[v]
  BY <1>0, <1>7 DEF J!Drop, J!NextRound, J!LRem, QueueFunctions, J!Kinds
<1>8. ASSUME NEW w \in Worker, J!AcquireLock(w), pc[w] # "quota"
      PROVE  /\ \A k \in J!Kinds : spent'[k] >= spent[k]
         /\ \A v \in Worker : pc[v] = "quota" => pc'[v] = "quota" /\ job'[v] = job[v]
  BY <1>0, <1>8 DEF J!AcquireLock, QueueFunctions, J!Kinds
<1>9. ASSUME NEW w \in Worker, J!PushBusy(w), pc[w] # "quota"
      PROVE  /\ \A k \in J!Kinds : spent'[k] >= spent[k]
         /\ \A v \in Worker : pc[v] = "quota" => pc'[v] = "quota" /\ job'[v] = job[v]
  BY <1>0, <1>9 DEF J!PushBusy, J!LPush, QueueFunctions, J!Kinds
<1>10. ASSUME NEW w \in Worker, J!BeginRun(w), pc[w] # "quota"
      PROVE  /\ \A k \in J!Kinds : spent'[k] >= spent[k]
         /\ \A v \in Worker : pc[v] = "quota" => pc'[v] = "quota" /\ job'[v] = job[v]
  BY <1>0, <1>10 DEF J!BeginRun, J!Update, QueueFunctions, J!Kinds
<1>11. ASSUME NEW w \in Worker, J!RunSucceeds(w), pc[w] # "quota"
      PROVE  /\ \A k \in J!Kinds : spent'[k] >= spent[k]
         /\ \A v \in Worker : pc[v] = "quota" => pc'[v] = "quota" /\ job'[v] = job[v]
  BY <1>0, <1>11 DEF J!RunSucceeds, J!Update, QueueFunctions, J!Kinds
<1>12. ASSUME NEW w \in Worker, J!RunFails(w), pc[w] # "quota"
      PROVE  /\ \A k \in J!Kinds : spent'[k] >= spent[k]
         /\ \A v \in Worker : pc[v] = "quota" => pc'[v] = "quota" /\ job'[v] = job[v]
  BY <1>0, <1>12 DEF J!RunFails, J!Update, QueueFunctions, J!Kinds
<1>13. ASSUME NEW w \in Worker, J!PushDead(w), pc[w] # "quota"
      PROVE  /\ \A k \in J!Kinds : spent'[k] >= spent[k]
         /\ \A v \in Worker : pc[v] = "quota" => pc'[v] = "quota" /\ job'[v] = job[v]
  BY <1>0, <1>13 DEF J!PushDead, QueueFunctions, J!Kinds
<1>14. ASSUME NEW w \in Worker, J!PushRetry(w), pc[w] # "quota"
      PROVE  /\ \A k \in J!Kinds : spent'[k] >= spent[k]
         /\ \A v \in Worker : pc[v] = "quota" => pc'[v] = "quota" /\ job'[v] = job[v]
  BY <1>0, <1>14 DEF J!PushRetry, J!LPush, QueueFunctions, J!Kinds
<1>15. ASSUME NEW w \in Worker, J!ReleaseLock(w), pc[w] # "quota"
      PROVE  /\ \A k \in J!Kinds : spent'[k] >= spent[k]
         /\ \A v \in Worker : pc[v] = "quota" => pc'[v] = "quota" /\ job'[v] = job[v]
  BY <1>0, <1>15 DEF J!ReleaseLock, QueueFunctions, J!Kinds
<1>16. ASSUME NEW w \in Worker, J!Ack(w), pc[w] # "quota"
      PROVE  /\ \A k \in J!Kinds : spent'[k] >= spent[k]
         /\ \A v \in Worker : pc[v] = "quota" => pc'[v] = "quota" /\ job'[v] = job[v]
  BY <1>0, <1>16 DEF J!Ack, J!NextRound, J!LRem, QueueFunctions, J!Kinds
<1>17. ASSUME NEW w \in Worker, J!ClaimFails(w)
      PROVE  /\ \A k \in J!Kinds : spent'[k] >= spent[k]
         /\ \A v \in Worker : pc[v] = "quota" => pc'[v] = "quota" /\ job'[v] = job[v]
  BY <1>0, <1>17 DEF J!ClaimFails, J!NextRound, J!Spend, QueueFunctions, J!Kinds
<1>18. ASSUME NEW w \in Worker, J!RetryRaises(w)
      PROVE  /\ \A k \in J!Kinds : spent'[k] >= spent[k]
         /\ \A v \in Worker : pc[v] = "quota" => pc'[v] = "quota" /\ job'[v] = job[v]
  BY <1>0, <1>18 DEF J!RetryRaises, J!Spend, QueueFunctions, J!Kinds
<1>19. ASSUME NEW w \in Worker, J!ReleaseFails(w)
      PROVE  /\ \A k \in J!Kinds : spent'[k] >= spent[k]
         /\ \A v \in Worker : pc[v] = "quota" => pc'[v] = "quota" /\ job'[v] = job[v]
  BY <1>0, <1>19 DEF J!ReleaseFails, J!Spend, QueueFunctions, J!Kinds
<1>20. ASSUME NEW r \in Repo, J!LockExpires(r)
      PROVE  /\ \A k \in J!Kinds : spent'[k] >= spent[k]
         /\ \A v \in Worker : pc[v] = "quota" => pc'[v] = "quota" /\ job'[v] = job[v]
  BY <1>0, <1>20 DEF J!LockExpires, J!Spend, QueueFunctions, J!Kinds
<1>21. ASSUME NEW w \in Worker, J!ReleaseQuota(w), pc[w] # "quota"
      PROVE  /\ \A k \in J!Kinds : spent'[k] >= spent[k]
         /\ \A v \in Worker : pc[v] = "quota" => pc'[v] = "quota" /\ job'[v] = job[v]
  BY <1>21 DEF J!ReleaseQuota
<1>. QED
  BY <1>1, <1>2, <1>3, <1>4, <1>5, <1>6, <1>7, <1>8, <1>9, <1>10, <1>11, <1>12,
     <1>13, <1>14, <1>15, <1>16, <1>17, <1>18, <1>19, <1>20, <1>21
     DEF QueueStep, J!WorkerStep

\* A webhook process moves one delivery on.
LEMMA IntakeStepTypes ==
  ASSUME IntakeFunctions, IntakeStep
  PROVE  IntakeFunctions'
<1> USE DEF IntakeFunctions, I!ServerPC, I!Proceed, I!Reply, I!quotaVars, I!serverVars
<1>1. ASSUME NEW s \in Server, I!CheckConcurrent(s) PROVE IntakeFunctions'
  BY <1>1 DEF I!CheckConcurrent
<1>2. ASSUME NEW s \in Server, NEW b \in I!Bucket, I!CheckBucket(s, b)
      PROVE  IntakeFunctions'
  BY <1>2 DEF I!CheckBucket, I!Bucket
<1>3. ASSUME NEW s \in Server, I!Consume(s) PROVE IntakeFunctions'
  BY <1>3 DEF I!Consume
<1>4. ASSUME NEW s \in Server, I!HandlerDies(s) PROVE IntakeFunctions'
  BY <1>4 DEF I!HandlerDies, I!Fault, I!IntakeFaults
<1>5. ASSUME NEW s \in Server, NEW d \in Job, I!Request(s, d) PROVE IntakeFunctions'
  BY <1>5 DEF I!Request, I!Deduped, I!Ignored, I!Serve, I!intakeVars
<1>. QED
  BY <1>1, <1>2, <1>3, <1>4, <1>5 DEF IntakeStep

\* Whoever pays pays an installation's counter.
LEMMA PayeeInst ==
  ASSUME QueueFunctions, NEW w \in Worker, pc[w] = "quota"
  PROVE  Payee(w) \in Inst
  BY ServiceAssumption DEF QueueFunctions, J!Working, Payee

LEMMA NextFunctions ==
  ASSUME Functions, [Next]_serviceVars
  PROVE  Functions'
<1>0. QueueFunctions /\ IntakeFunctions /\ ClampType
  BY DEF Functions
<1> USE DEF J!Goto, J!redisVars, J!adminVars
<1>1. ASSUME NEW s \in Server, Submit(s) PROVE Functions'
  <2>1. sdel[s] \in Job
    BY <1>0, <1>1 DEF Submit, I!EnqueueJob, IntakeFunctions
  <2>2. QueueFunctions'
    BY <1>0, <1>1, <2>1
       DEF Submit, J!Enqueue, J!Update, J!LPush, QueueFunctions, J!JobHash, J!JobStatus, J!Working
  <2>3. IntakeFunctions'
    BY <1>0, <1>1
       DEF Submit, I!EnqueueJob, I!Reply, I!quotaVars, IntakeFunctions, I!ServerPC
  <2>4. ClampType'
    BY <1>0, <1>1 DEF Submit, J!Enqueue, ClampType
  <2>. QED
    BY <2>2, <2>3, <2>4 DEF Functions
<1>2. ASSUME NEW w \in Worker, Release(w) PROVE Functions'
  <2>1. QueueFunctions'
    BY <1>0, <1>2 DEF Release, J!ReleaseQuota, queueVars, QueueFunctions, J!WorkerPC, J!Working
  <2>2. IntakeFunctions'
    <3>1. Payee(w) \in Inst
      BY <1>0, <1>2, PayeeInst DEF Release
    <3>. QED
      BY <1>0, <1>2, <3>1 DEF Release, I!Decr, IntakeFunctions
  <2>3. ClampType'
    BY <1>0, <1>2 DEF Release, J!ReleaseQuota, queueVars, QueueFunctions, ClampType
  <2>. QED
    BY <2>1, <2>2, <2>3 DEF Functions
<1>3. ASSUME NEW w \in Worker, Clamp(w) PROVE Functions'
  <2>1. QueueFunctions'
    BY <1>0, <1>3 DEF Clamp, J!ReleaseQuota, QueueFunctions, J!WorkerPC, J!Working
  <2>2. IntakeFunctions'
    <3>1. Payee(w) \in Inst
      BY <1>0, <1>3, PayeeInst DEF Clamp, ClampType
    <3>. QED
      BY <1>0, <1>3, <3>1 DEF Clamp, I!SetZero, IntakeFunctions
  <2>3. ClampType'
    BY <1>0, <1>3 DEF Clamp, J!ReleaseQuota, QueueFunctions, ClampType
  <2>. QED
    BY <2>1, <2>2, <2>3 DEF Functions
<1>4. ASSUME NEW w \in Worker, ReleaseFails(w) PROVE Functions'
  <2>1. QueueFunctions'
    BY <1>0, <1>4, SpendGrows
       DEF ReleaseFails, QueueFunctions, J!WorkerPC, J!Working, J!Kinds
  <2>2. IntakeFunctions'
    BY <1>0, <1>4 DEF ReleaseFails, intakeVars, IntakeFunctions
  <2>3. ClampType'
    BY <1>0, <1>4 DEF ReleaseFails, QueueFunctions, ClampType
  <2>. QED
    BY <2>1, <2>2, <2>3 DEF Functions
<1>5. ASSUME NEW w \in Worker, WorkerDies(w) PROVE Functions'
  <2>1. QueueFunctions'
    BY <1>0, <1>5, SpendGrows
       DEF WorkerDies, J!Crash, QueueFunctions, J!WorkerPC, J!Working, J!Kinds
  <2>2. IntakeFunctions'
    BY <1>0, <1>5 DEF WorkerDies, intakeVars, IntakeFunctions
  <2>3. ClampType'
    BY <1>0, <1>5 DEF WorkerDies, J!Crash, QueueFunctions, ClampType
  <2>. QED
    BY <2>1, <2>2, <2>3 DEF Functions
<1>6. CASE QueueStep
  <2>1. IntakeFunctions'
    BY <1>0, <1>6 DEF QueueStep, intakeVars, IntakeFunctions
  <2>2. ClampType'
    BY <1>0, <1>6, QueueStepFrame DEF QueueStep, ClampType
  <2>. QED
    BY <1>0, <1>6, <2>1, <2>2, QueueStepTypes DEF Functions
<1>7. CASE IntakeStep
  <2>1. QueueFunctions' /\ ClampType'
    BY <1>0, <1>7 DEF IntakeStep, queueVars, QueueFunctions, J!Working, ClampType
  <2>. QED
    BY <1>0, <1>7, <2>1, IntakeStepTypes DEF Functions
<1>8. ASSUME NEW i \in Inst, CounterExpires(i) PROVE Functions'
  <2>1. QueueFunctions' /\ ClampType'
    BY <1>0, <1>8 DEF CounterExpires, queueVars, QueueFunctions, J!Working, ClampType
  <2>2. IntakeFunctions'
    BY <1>0, <1>8
       DEF CounterExpires, I!ConcExpires, I!SetZero, I!Fault, I!IntakeFaults, I!serverVars,
           IntakeFunctions
  <2>. QED
    BY <2>1, <2>2 DEF Functions
<1>9. CASE UNCHANGED serviceVars
  BY <1>0, <1>9
     DEF serviceVars, queueVars, intakeVars, Functions, QueueFunctions, J!Working,
         IntakeFunctions, ClampType
<1>. QED
  BY <1>1, <1>2, <1>3, <1>4, <1>5, <1>6, <1>7, <1>8, <1>9 DEF Next

-----------------------------------------------------------------------------
(* The counter and zero *)

\* The workers that are between the DECR and the SET 0 of a counter.
Clamped(i) == {w \in Worker : clamping[w] /\ Payee(w) = i}

\* What a counter is below zero is a worker about to set it to zero, or one
\* that died or failed there.
FloorInv ==
    \A i \in Inst :
        conc[i] + Cardinality(Clamped(i)) + spent["crash"] + spent["error"] >= 0

LEMMA ClampedFinite ==
  ASSUME NEW i
  PROVE  IsFiniteSet(Clamped(i)) /\ Cardinality(Clamped(i)) \in Nat
         /\ IsFiniteSet(Clamped(i)') /\ Cardinality(Clamped(i)') \in Nat
<1>1. Clamped(i) \subseteq Worker /\ Clamped(i)' \subseteq Worker /\ IsFiniteSet(Worker)
  BY ServiceAssumption DEF Clamped
<1>. QED
  BY <1>1, CardGrows

Faulted == spent["crash"] + spent["error"]

LEMMA FaultedType ==
  ASSUME Functions, Functions'
  PROVE  /\ Faulted \in Nat /\ Faulted' \in Nat
         /\ spent["crash"] \in Nat /\ spent["error"] \in Nat
         /\ spent'["crash"] \in Nat /\ spent'["error"] \in Nat
<1>1. spent["crash"] \in Nat /\ spent["error"] \in Nat
  BY DEF Functions, QueueFunctions, J!Kinds
<1>2. spent'["crash"] \in Nat /\ spent'["error"] \in Nat
  BY DEF Functions, QueueFunctions, J!Kinds
<1>. QED
  BY <1>1, <1>2 DEF Faulted

\* What a step may do to the counter of an installation.
FloorMove(i) ==
    \/ conc'[i] >= 0 /\ Faulted' >= Faulted
    \/ conc'[i] >= conc[i] /\ Clamped(i) \subseteq Clamped(i)' /\ Faulted' >= Faulted
    \/ /\ conc'[i] = conc[i] - 1 /\ Faulted' >= Faulted
       /\ \E w \in Worker : w \notin Clamped(i) /\ Clamped(i) \cup {w} \subseteq Clamped(i)'
    \/ /\ conc'[i] = conc[i] /\ Faulted' >= Faulted + 1
       /\ \E w \in Worker : Clamped(i) \subseteq Clamped(i)' \cup {w}

LEMMA FloorMoves ==
  ASSUME Functions, FloorInv, \A i \in Inst : FloorMove(i), Functions'
  PROVE  FloorInv'
<1> SUFFICES ASSUME NEW i \in Inst
             PROVE  (conc[i] + Cardinality(Clamped(i)) + spent["crash"] + spent["error"] >= 0)'
  BY DEF FloorInv
<1>1. /\ conc[i] \in Int /\ conc'[i] \in Int /\ Faulted \in Nat /\ Faulted' \in Nat
      /\ spent["crash"] \in Nat /\ spent["error"] \in Nat
      /\ spent'["crash"] \in Nat /\ spent'["error"] \in Nat
  BY FaultedType DEF Functions, IntakeFunctions
<1>2. /\ IsFiniteSet(Clamped(i)') /\ Cardinality(Clamped(i)) \in Nat
      /\ Cardinality(Clamped(i)') \in Nat
  BY ClampedFinite
<1>3. conc[i] + Cardinality(Clamped(i)) + Faulted >= 0
  BY <1>1, <1>2 DEF FloorInv, Faulted
<1> SUFFICES conc'[i] + Cardinality(Clamped(i)') + Faulted' >= 0
  BY <1>1, <1>2 DEF Faulted
<1>4. CASE conc'[i] >= 0
  BY <1>1, <1>2, <1>4
<1>5. CASE conc'[i] >= conc[i] /\ Clamped(i) \subseteq Clamped(i)' /\ Faulted' >= Faulted
  <2>1. Cardinality(Clamped(i)) <= Cardinality(Clamped(i)')
    BY <1>2, <1>5, CardGrows
  <2>. QED
    BY <1>1, <1>2, <1>3, <1>5, <2>1
<1>6. ASSUME conc'[i] = conc[i] - 1, Faulted' >= Faulted, NEW w \in Worker,
             w \notin Clamped(i), Clamped(i) \cup {w} \subseteq Clamped(i)'
      PROVE  conc'[i] + Cardinality(Clamped(i)') + Faulted' >= 0
  <2>1. Cardinality(Clamped(i)) + 1 <= Cardinality(Clamped(i)')
    BY <1>2, <1>6, CardGains
  <2>. QED
    BY <1>1, <1>2, <1>3, <1>6, <2>1
<1>7. ASSUME conc'[i] = conc[i], Faulted' >= Faulted + 1, NEW w \in Worker,
             Clamped(i) \subseteq Clamped(i)' \cup {w}
      PROVE  conc'[i] + Cardinality(Clamped(i)') + Faulted' >= 0
  <2>1. Cardinality(Clamped(i)) <= Cardinality(Clamped(i)') + 1
    BY <1>2, <1>7, CardLoses
  <2>. QED
    BY <1>1, <1>2, <1>3, <1>7, <2>1
<1>8. FloorMove(i)
  OBVIOUS
<1>. QED
  BY <1>4, <1>5, <1>6, <1>7, <1>8 DEF FloorMove

\* Every step does one of these to each counter.
LEMMA NextFloor ==
  ASSUME Functions, [Next]_serviceVars, NEW i \in Inst
  PROVE  FloorMove(i)
<1>0. QueueFunctions /\ IntakeFunctions /\ ClampType /\ Functions'
  BY NextFunctions DEF Functions
<1> USE DEF J!redisVars, J!adminVars
<1>1. ASSUME NEW s \in Server, Submit(s) PROVE FloorMove(i)
  BY <1>0, <1>1, FaultedType
     DEF Submit, J!Enqueue, I!EnqueueJob, I!quotaVars, FloorMove, Clamped, Payee, Faulted,
         IntakeFunctions
<1>2. ASSUME NEW w \in Worker, Release(w) PROVE FloorMove(i)
  <2>0. Payee(w) \in Inst /\ ~clamping[w]
    BY <1>0, <1>2, PayeeInst DEF Release
  <2>1. UNCHANGED <<job, spent>> /\ Faulted' = Faulted
    BY <1>2 DEF Release, J!ReleaseQuota, queueVars, Faulted
  <2>2. CASE i # Payee(w)
    <3>1. conc'[i] = conc[i]
      BY <1>0, <1>2, <2>2 DEF Release, I!Decr, IntakeFunctions
    <3>2. Clamped(i) \subseteq Clamped(i)'
      BY <1>0, <1>2, <2>0, <2>1 DEF Release, Clamped, Payee, ClampType
    <3>. QED
      BY <1>0, <2>1, <3>1, <3>2, FaultedType DEF FloorMove, IntakeFunctions
  <2>3. CASE i = Payee(w) /\ conc[i] > 0
    <3>1. conc'[i] >= 0
      BY <1>0, <1>2, <2>3 DEF Release, I!Decr, IntakeFunctions
    <3>. QED
      BY <1>0, <2>1, <3>1, FaultedType DEF FloorMove
  <2>4. CASE i = Payee(w) /\ ~(conc[i] > 0)
    <3>1. conc'[i] = conc[i] - 1
      BY <1>0, <1>2, <2>4 DEF Release, I!Decr, IntakeFunctions
    <3>2. clamping' = [clamping EXCEPT ![w] = TRUE]
      BY <1>2, <2>4 DEF Release
    <3>3. w \notin Clamped(i) /\ Clamped(i) \cup {w} \subseteq Clamped(i)'
      BY <1>0, <2>0, <2>1, <2>4, <3>2 DEF Clamped, Payee, ClampType
    <3>. QED
      BY <1>0, <2>1, <3>1, <3>3, FaultedType DEF FloorMove
  <2>. QED
    BY <2>2, <2>3, <2>4
<1>3. ASSUME NEW w \in Worker, Clamp(w) PROVE FloorMove(i)
  <2>0. Payee(w) \in Inst
    BY <1>0, <1>3, PayeeInst DEF Clamp, ClampType
  <2>1. UNCHANGED <<job, spent>> /\ Faulted' = Faulted
    BY <1>3 DEF Clamp, J!ReleaseQuota, Faulted
  <2>2. CASE i # Payee(w)
    <3>1. conc'[i] = conc[i]
      BY <1>0, <1>3, <2>2 DEF Clamp, I!SetZero, IntakeFunctions
    <3>2. Clamped(i) \subseteq Clamped(i)'
      BY <1>0, <1>3, <2>1, <2>2 DEF Clamp, Clamped, Payee, ClampType
    <3>. QED
      BY <1>0, <2>1, <3>1, <3>2, FaultedType DEF FloorMove, IntakeFunctions
  <2>3. CASE i = Payee(w)
    <3>1. conc'[i] = 0
      BY <1>0, <1>3, <2>3 DEF Clamp, I!SetZero, IntakeFunctions
    <3>. QED
      BY <1>0, <2>1, <3>1, FaultedType DEF FloorMove
  <2>. QED
    BY <2>2, <2>3
<1>4. ASSUME NEW w \in Worker, ReleaseFails(w) PROVE FloorMove(i)
  <2>1. Faulted' = Faulted + 1
    BY <1>0, <1>4 DEF ReleaseFails, J!Spend, Faulted, QueueFunctions, J!Kinds
  <2>2. conc'[i] = conc[i] /\ UNCHANGED job
    BY <1>4 DEF ReleaseFails, intakeVars
  <2>3. Clamped(i) \subseteq Clamped(i)' \cup {w}
    BY <1>0, <1>4, <2>2 DEF ReleaseFails, Clamped, Payee, ClampType
  <2>. QED
    BY <1>0, <2>1, <2>2, <2>3, FaultedType DEF FloorMove
<1>5. ASSUME NEW w \in Worker, WorkerDies(w) PROVE FloorMove(i)
  <2>1. Faulted' = Faulted + 1
    BY <1>0, <1>5 DEF WorkerDies, J!Crash, J!Spend, Faulted, QueueFunctions, J!Kinds
  <2>2. conc'[i] = conc[i] /\ job' = [job EXCEPT ![w] = NoJob]
    BY <1>5 DEF WorkerDies, J!Crash, intakeVars
  <2>3. Clamped(i) \subseteq Clamped(i)' \cup {w}
    BY <1>0, <1>5, <2>2 DEF WorkerDies, Clamped, Payee, ClampType, QueueFunctions
  <2>. QED
    BY <1>0, <2>1, <2>2, <2>3, FaultedType DEF FloorMove
<1>6. CASE QueueStep
  <2>1. conc' = conc /\ clamping' = clamping
    BY <1>6 DEF QueueStep, intakeVars
  <2>2. Faulted' >= Faulted
    BY <1>0, <1>6, QueueStepFrame, FaultedType DEF Faulted, J!Kinds
  <2>3. Clamped(i) \subseteq Clamped(i)'
    BY <1>0, <1>6, <2>1, QueueStepFrame DEF Clamped, Payee, ClampType
  <2>4. conc[i] \in Int
    BY <1>0 DEF IntakeFunctions
  <2>. QED
    BY <2>1, <2>2, <2>3, <2>4 DEF FloorMove
<1>7. CASE IntakeStep
  <2>1. UNCHANGED <<job, spent, clamping>>
    BY <1>7 DEF IntakeStep, queueVars
  <2>2. Faulted' >= Faulted
    BY <1>0, <2>1, FaultedType DEF Faulted
  <2>3. Clamped(i) \subseteq Clamped(i)'
    BY <2>1 DEF Clamped, Payee
  <2>4. conc'[i] >= conc[i]
    <3> USE DEF I!quotaVars, IntakeFunctions
    <3>1. ASSUME NEW s \in Server, I!Consume(s) PROVE conc'[i] >= conc[i]
      BY <1>0, <3>1 DEF I!Consume
    <3>2. UNCHANGED conc \/ \E s \in Server : I!Consume(s)
      BY <1>7 DEF IntakeStep, I!CheckConcurrent, I!CheckBucket, I!HandlerDies, I!Request,
                  I!Deduped, I!Ignored, I!Serve, I!intakeVars
    <3>. QED
      BY <1>0, <3>1, <3>2
  <2>. QED
    BY <2>2, <2>3, <2>4 DEF FloorMove
<1>8. ASSUME NEW k \in Inst, CounterExpires(k) PROVE FloorMove(i)
  <2>1. UNCHANGED <<job, spent, clamping>> /\ Faulted' = Faulted
    BY <1>8 DEF CounterExpires, queueVars, Faulted
  <2>2. conc'[i] \in {0, conc[i]}
    BY <1>0, <1>8 DEF CounterExpires, I!ConcExpires, I!SetZero, IntakeFunctions
  <2>3. Clamped(i) \subseteq Clamped(i)'
    BY <2>1 DEF Clamped, Payee
  <2>4. conc[i] \in Int
    BY <1>0 DEF IntakeFunctions
  <2>. QED
    BY <1>0, <2>1, <2>2, <2>3, <2>4, FaultedType DEF FloorMove
<1>9. CASE UNCHANGED serviceVars
  <2>1. UNCHANGED <<conc, job, spent, clamping>>
    BY <1>9 DEF serviceVars, queueVars, intakeVars
  <2>. QED
    BY <1>0, <2>1, FaultedType DEF FloorMove, Clamped, Payee, Faulted, IntakeFunctions
<1>. QED
  BY <1>1, <1>2, <1>3, <1>4, <1>5, <1>6, <1>7, <1>8, <1>9 DEF Next

\* A counter is below zero only while a worker is between its DECR and its SET
\* 0, or because one died or failed there.  The invariant says so for each
\* installation: every DECR below zero has a worker of its own to undo it.
THEOREM CounterHasFloor == Spec => []CounterNotNegative
<1> DEFINE Inv == Functions /\ FloorInv
<1>1. Init => Inv
  <2> SUFFICES ASSUME Init PROVE Inv
    OBVIOUS
  <2>1. ASSUME NEW i \in Inst
        PROVE  conc[i] + Cardinality(Clamped(i)) + spent["crash"] + spent["error"] >= 0
    BY <2>1, ClampedFinite DEF Init, J!Init, I!IntakeInit, J!Kinds
  <2>. QED
    BY <2>1, InitFunctions DEF FloorInv
<1>2. Inv /\ [Next]_serviceVars => Inv'
  BY NextFunctions, NextFloor, FloorMoves
<1>3. Inv => CounterNotNegative
  <2> SUFFICES ASSUME Inv, NEW i \in Inst
               PROVE  conc[i] + Cardinality({w \in Worker : clamping[w]})
                        + spent["crash"] + spent["error"] >= 0
    BY DEF CounterNotNegative
  <2> DEFINE all == {w \in Worker : clamping[w]}
  <2>1. IsFiniteSet(all)
    BY ServiceAssumption, CardGrows
  <2>2. /\ Cardinality(Clamped(i)) <= Cardinality(all)
        /\ Cardinality(Clamped(i)) \in Nat /\ Cardinality(all) \in Nat
    <3>1. Clamped(i) \subseteq all
      BY DEF Clamped
    <3> HIDE DEF all
    <3>. QED
      BY <2>1, <3>1, CardGrows
  <2>3. conc[i] \in Int /\ spent["crash"] \in Nat /\ spent["error"] \in Nat
    BY DEF Functions, IntakeFunctions, QueueFunctions, J!Kinds
  <2>4. conc[i] + Cardinality(Clamped(i)) + spent["crash"] + spent["error"] >= 0
    BY DEF FloorInv
  <2> HIDE DEF all
  <2>5. conc[i] + Cardinality(all) + spent["crash"] + spent["error"] >= 0
    BY <2>2, <2>3, <2>4
  <2>. QED
    BY <2>5 DEF all
<1>. QED
  BY <1>1, <1>2, <1>3, PTL DEF Spec

-----------------------------------------------------------------------------
(* What backs the counter *)

Pays(w) == pc[w] \in {"toDlq", "release", "quota"}
Begun(w) == pc[w] \notin {"down", "recover", "claim", "load", "drop"}
Live(j) == hash[j].status \in {"pending", "running"}
Known(j) == hash[j].status # "none"

\* The jobs that are in flight or over and not paid back.
Backing(i) == InFlight(i) \cup {job[w] : w \in Paying(i)}

LEMMA BackingElements ==
  ASSUME NEW i, NEW j
  PROVE  j \in Backing(i) <=>
             \/ j \in Job /\ InstOf[j] = i /\ Live(j)
             \/ \E w \in Worker : Pays(w) /\ job[w] = j /\ InstOf[j] = i
  BY DEF Backing, InFlight, Paying, Live, Pays

LEMMA BackingElementsNext ==
  ASSUME NEW i, NEW j
  PROVE  j \in Backing(i)' <=>
             \/ j \in Job /\ InstOf[j] = i /\ Live(j)'
             \/ \E w \in Worker : Pays(w)' /\ job'[w] = j /\ InstOf[j] = i
  BY DEF Backing, InFlight, Paying, Live, Pays

\* A job that a worker runs has been enqueued.
RunsKnown == \A w \in Worker : Begun(w) => Known(job[w])

\* What one step of worker w does to jobs and payments: its job stays in flight
\* until the worker owes the payment for it.
HandsOn(w) ==
    /\ \A v \in Worker \ {w} : pc'[v] = pc[v] /\ job'[v] = job[v]
    /\ \A j \in Job : j # job[w] => hash'[j] = hash[j]
    /\ Pays(w) => Pays(w)' /\ job'[w] = job[w]
    /\ Pays(w)' => job'[w] = job[w]
    /\ \A j \in Job : (j = job[w] /\ Live(j)) => (Live(j)' \/ (Pays(w)' /\ job'[w] = j))

\* It does not lose sight of a job that was enqueued.
KeepsKnown ==
    /\ \A j \in Job : Known(j) => Known(j)'
    /\ \A w \in Worker : Begun(w)' => \/ Begun(w) /\ job'[w] = job[w]
                                      \/ job'[w] \in Job /\ Known(job'[w])

\* Every step of the queue hands on so.
LEMMA QueueStepHands ==
  ASSUME QueueFunctions, QueueStep
  PROVE  (\E v \in Worker : HandsOn(v)) \/ UNCHANGED <<pc, job, hash>>
<1> USE DEF J!redisVars, J!adminVars, J!Goto
<1>0. QueueFunctions
  OBVIOUS
<1>1. ASSUME NEW w \in Worker, J!Start(w)
      PROVE  (\E v \in Worker : HandsOn(v)) \/ UNCHANGED <<pc, job, hash>>
  <2>1. HandsOn(w)
    BY <1>0, <1>1 DEF J!Start, HandsOn, Pays, Live, QueueFunctions, J!Working, J!JobHash
  <2>. QED
    BY <2>1
<1>2. ASSUME NEW w \in Worker, J!RecoverOne(w), pc[w] # "quota"
      PROVE  (\E v \in Worker : HandsOn(v)) \/ UNCHANGED <<pc, job, hash>>
  <2>1. HandsOn(w)
    BY <1>0, <1>2 DEF J!RecoverOne, HandsOn, Pays, Live, QueueFunctions, J!Working, J!JobHash
  <2>. QED
    BY <2>1
<1>3. ASSUME NEW w \in Worker, J!RecoverDone(w), pc[w] # "quota"
      PROVE  (\E v \in Worker : HandsOn(v)) \/ UNCHANGED <<pc, job, hash>>
  <2>1. HandsOn(w)
    BY <1>0, <1>3 DEF J!RecoverDone, J!NextRound, HandsOn, Pays, Live, QueueFunctions, J!Working, J!JobHash
  <2>. QED
    BY <2>1
<1>4. ASSUME NEW w \in Worker, J!Claim(w), pc[w] # "quota"
      PROVE  (\E v \in Worker : HandsOn(v)) \/ UNCHANGED <<pc, job, hash>>
  <2>1. HandsOn(w)
    BY <1>0, <1>4 DEF J!Claim, HandsOn, Pays, Live, QueueFunctions, J!Working, J!JobHash
  <2>. QED
    BY <2>1
<1>5. ASSUME NEW w \in Worker, J!ClaimTimeout(w), pc[w] # "quota"
      PROVE  (\E v \in Worker : HandsOn(v)) \/ UNCHANGED <<pc, job, hash>>
  <2>1. HandsOn(w)
    BY <1>0, <1>5 DEF J!ClaimTimeout, J!NextRound, HandsOn, Pays, Live, QueueFunctions, J!Working, J!JobHash
  <2>. QED
    BY <2>1
<1>6. ASSUME NEW w \in Worker, J!Load(w), pc[w] # "quota"
      PROVE  (\E v \in Worker : HandsOn(v)) \/ UNCHANGED <<pc, job, hash>>
  <2>1. HandsOn(w)
    BY <1>0, <1>6 DEF J!Load, HandsOn, Pays, Live, QueueFunctions, J!Working, J!JobHash
  <2>. QED
    BY <2>1
<1>7. ASSUME NEW w \in Worker, J!Drop(w), pc[w] # "quota"
      PROVE  (\E v \in Worker : HandsOn(v)) \/ UNCHANGED <<pc, job, hash>>
  <2>1. HandsOn(w)
    BY <1>0, <1>7 DEF J!Drop, J!NextRound, HandsOn, Pays, Live, QueueFunctions, J!Working, J!JobHash
  <2>. QED
    BY <2>1
<1>8. ASSUME NEW w \in Worker, J!AcquireLock(w), pc[w] # "quota"
      PROVE  (\E v \in Worker : HandsOn(v)) \/ UNCHANGED <<pc, job, hash>>
  <2>1. HandsOn(w)
    BY <1>0, <1>8 DEF J!AcquireLock, HandsOn, Pays, Live, QueueFunctions, J!Working, J!JobHash
  <2>. QED
    BY <2>1
<1>9. ASSUME NEW w \in Worker, J!PushBusy(w), pc[w] # "quota"
      PROVE  (\E v \in Worker : HandsOn(v)) \/ UNCHANGED <<pc, job, hash>>
  <2>1. HandsOn(w)
    BY <1>0, <1>9 DEF J!PushBusy, HandsOn, Pays, Live, QueueFunctions, J!Working, J!JobHash
  <2>. QED
    BY <2>1
<1>10. ASSUME NEW w \in Worker, J!BeginRun(w), pc[w] # "quota"
      PROVE  (\E v \in Worker : HandsOn(v)) \/ UNCHANGED <<pc, job, hash>>
  <2>1. HandsOn(w)
    BY <1>0, <1>10 DEF J!BeginRun, J!Update, HandsOn, Pays, Live, QueueFunctions, J!Working, J!JobHash
  <2>. QED
    BY <2>1
<1>11. ASSUME NEW w \in Worker, J!RunSucceeds(w), pc[w] # "quota"
      PROVE  (\E v \in Worker : HandsOn(v)) \/ UNCHANGED <<pc, job, hash>>
  <2>1. HandsOn(w)
    BY <1>0, <1>11 DEF J!RunSucceeds, J!Update, HandsOn, Pays, Live, QueueFunctions, J!Working, J!JobHash
  <2>. QED
    BY <2>1
<1>12. ASSUME NEW w \in Worker, J!RunFails(w), pc[w] # "quota"
      PROVE  (\E v \in Worker : HandsOn(v)) \/ UNCHANGED <<pc, job, hash>>
  <2>1. HandsOn(w)
    BY <1>0, <1>12 DEF J!RunFails, J!Update, HandsOn, Pays, Live, QueueFunctions, J!Working, J!JobHash
  <2>. QED
    BY <2>1
<1>13. ASSUME NEW w \in Worker, J!PushDead(w), pc[w] # "quota"
      PROVE  (\E v \in Worker : HandsOn(v)) \/ UNCHANGED <<pc, job, hash>>
  <2>1. HandsOn(w)
    BY <1>0, <1>13 DEF J!PushDead, HandsOn, Pays, Live, QueueFunctions, J!Working, J!JobHash
  <2>. QED
    BY <2>1
<1>14. ASSUME NEW w \in Worker, J!PushRetry(w), pc[w] # "quota"
      PROVE  (\E v \in Worker : HandsOn(v)) \/ UNCHANGED <<pc, job, hash>>
  <2>1. HandsOn(w)
    BY <1>0, <1>14 DEF J!PushRetry, HandsOn, Pays, Live, QueueFunctions, J!Working, J!JobHash
  <2>. QED
    BY <2>1
<1>15. ASSUME NEW w \in Worker, J!ReleaseLock(w), pc[w] # "quota"
      PROVE  (\E v \in Worker : HandsOn(v)) \/ UNCHANGED <<pc, job, hash>>
  <2>1. HandsOn(w)
    BY <1>0, <1>15 DEF J!ReleaseLock, HandsOn, Pays, Live, QueueFunctions, J!Working, J!JobHash
  <2>. QED
    BY <2>1
<1>16. ASSUME NEW w \in Worker, J!Ack(w), pc[w] # "quota"
      PROVE  (\E v \in Worker : HandsOn(v)) \/ UNCHANGED <<pc, job, hash>>
  <2>1. HandsOn(w)
    BY <1>0, <1>16 DEF J!Ack, J!NextRound, HandsOn, Pays, Live, QueueFunctions, J!Working, J!JobHash
  <2>. QED
    BY <2>1
<1>17. ASSUME NEW w \in Worker, J!ClaimFails(w)
      PROVE  (\E v \in Worker : HandsOn(v)) \/ UNCHANGED <<pc, job, hash>>
  <2>1. HandsOn(w)
    BY <1>0, <1>17 DEF J!ClaimFails, J!NextRound, HandsOn, Pays, Live, QueueFunctions, J!Working, J!JobHash
  <2>. QED
    BY <2>1
<1>18. ASSUME NEW w \in Worker, J!RetryRaises(w)
      PROVE  (\E v \in Worker : HandsOn(v)) \/ UNCHANGED <<pc, job, hash>>
  <2>1. HandsOn(w)
    BY <1>0, <1>18 DEF J!RetryRaises, HandsOn, Pays, Live, QueueFunctions, J!Working, J!JobHash
  <2>. QED
    BY <2>1
<1>19. ASSUME NEW w \in Worker, J!ReleaseFails(w)
      PROVE  (\E v \in Worker : HandsOn(v)) \/ UNCHANGED <<pc, job, hash>>
  <2>1. HandsOn(w)
    BY <1>0, <1>19 DEF J!ReleaseFails, HandsOn, Pays, Live, QueueFunctions, J!Working, J!JobHash
  <2>. QED
    BY <2>1
<1>20. ASSUME NEW r \in Repo, J!LockExpires(r)
      PROVE  (\E v \in Worker : HandsOn(v)) \/ UNCHANGED <<pc, job, hash>>
  BY <1>20 DEF J!LockExpires
<1>21. ASSUME NEW w \in Worker, J!ReleaseQuota(w), pc[w] # "quota"
      PROVE  (\E v \in Worker : HandsOn(v)) \/ UNCHANGED <<pc, job, hash>>
  BY <1>21 DEF J!ReleaseQuota
<1>. QED
  BY <1>1, <1>2, <1>3, <1>4, <1>5, <1>6, <1>7, <1>8, <1>9, <1>10, <1>11, <1>12,
     <1>13, <1>14, <1>15, <1>16, <1>17, <1>18, <1>19, <1>20, <1>21
     DEF QueueStep, J!WorkerStep

\* And knows the jobs it runs.
LEMMA QueueStepKnown ==
  ASSUME QueueFunctions, QueueStep
  PROVE  KeepsKnown
<1> USE DEF J!redisVars, J!adminVars, J!Goto
<1>0. QueueFunctions
  OBVIOUS
<1>1. ASSUME NEW w \in Worker, J!Start(w) PROVE KeepsKnown
  BY <1>0, <1>1
     DEF J!Start, KeepsKnown, Known, Begun, QueueFunctions, J!Working,
         J!JobHash, J!Missing
<1>2. ASSUME NEW w \in Worker, J!RecoverOne(w), pc[w] # "quota" PROVE KeepsKnown
  BY <1>0, <1>2
     DEF J!RecoverOne, J!LPush, KeepsKnown, Known, Begun, QueueFunctions,
         J!Working, J!JobHash, J!Missing
<1>3. ASSUME NEW w \in Worker, J!RecoverDone(w), pc[w] # "quota"
      PROVE  KeepsKnown
  BY <1>0, <1>3
     DEF J!RecoverDone, J!NextRound, KeepsKnown, Known, Begun, QueueFunctions,
         J!Working, J!JobHash, J!Missing
<1>4. ASSUME NEW w \in Worker, J!Claim(w), pc[w] # "quota" PROVE KeepsKnown
  BY <1>0, <1>4
     DEF J!Claim, KeepsKnown, Known, Begun, QueueFunctions, J!Working,
         J!JobHash, J!Missing
<1>5. ASSUME NEW w \in Worker, J!ClaimTimeout(w), pc[w] # "quota"
      PROVE  KeepsKnown
  BY <1>0, <1>5
     DEF J!ClaimTimeout, J!NextRound, KeepsKnown, Known, Begun, QueueFunctions,
         J!Working, J!JobHash, J!Missing
<1>6. ASSUME NEW w \in Worker, J!Load(w), pc[w] # "quota" PROVE KeepsKnown
  BY <1>0, <1>6
     DEF J!Load, KeepsKnown, Known, Begun, QueueFunctions, J!Working, J!JobHash,
         J!Missing
<1>7. ASSUME NEW w \in Worker, J!Drop(w), pc[w] # "quota" PROVE KeepsKnown
  BY <1>0, <1>7
     DEF J!Drop, J!NextRound, J!LRem, KeepsKnown, Known, Begun, QueueFunctions,
         J!Working, J!JobHash, J!Missing
<1>8. ASSUME NEW w \in Worker, J!AcquireLock(w), pc[w] # "quota"
      PROVE  KeepsKnown
  BY <1>0, <1>8
     DEF J!AcquireLock, KeepsKnown, Known, Begun, QueueFunctions, J!Working,
         J!JobHash, J!Missing
<1>9. ASSUME NEW w \in Worker, J!PushBusy(w), pc[w] # "quota" PROVE KeepsKnown
  BY <1>0, <1>9
     DEF J!PushBusy, J!LPush, KeepsKnown, Known, Begun, QueueFunctions,
         J!Working, J!JobHash, J!Missing
<1>10. ASSUME NEW w \in Worker, J!BeginRun(w), pc[w] # "quota" PROVE KeepsKnown
  BY <1>0, <1>10
     DEF J!BeginRun, J!Update, KeepsKnown, Known, Begun, QueueFunctions,
         J!Working, J!JobHash, J!Missing
<1>11. ASSUME NEW w \in Worker, J!RunSucceeds(w), pc[w] # "quota"
      PROVE  KeepsKnown
  BY <1>0, <1>11
     DEF J!RunSucceeds, J!Update, KeepsKnown, Known, Begun, QueueFunctions,
         J!Working, J!JobHash, J!Missing
<1>12. ASSUME NEW w \in Worker, J!RunFails(w), pc[w] # "quota" PROVE KeepsKnown
  <2>1. job[w] \in Job
    BY <1>0, <1>12 DEF J!RunFails, QueueFunctions, J!Working
  <2>2. PICK status \in {"dead", "pending"}, label \in {"toDlq", "backoff"} :
          /\ hash' = [hash EXCEPT ![job[w]] = [status |-> status, attempts |-> att[w] + 1]]
          /\ pc' = [pc EXCEPT ![w] = label]
    BY <1>12 DEF J!RunFails, J!Update
  <2>3. pc[w] = "dispatch" /\ UNCHANGED job
    BY <1>12 DEF J!RunFails
  <2>4. \A j \in Job : Known(j) => Known(j)'
    BY <1>0, <2>1, <2>2 DEF Known, QueueFunctions
  <2>. QED
    BY <1>0, <2>1, <2>2, <2>3, <2>4 DEF KeepsKnown, Begun, QueueFunctions
<1>13. ASSUME NEW w \in Worker, J!PushDead(w), pc[w] # "quota" PROVE KeepsKnown
  BY <1>0, <1>13
     DEF J!PushDead, KeepsKnown, Known, Begun, QueueFunctions, J!Working,
         J!JobHash, J!Missing
<1>14. ASSUME NEW w \in Worker, J!PushRetry(w), pc[w] # "quota" PROVE KeepsKnown
  BY <1>0, <1>14
     DEF J!PushRetry, J!LPush, KeepsKnown, Known, Begun, QueueFunctions,
         J!Working, J!JobHash, J!Missing
<1>15. ASSUME NEW w \in Worker, J!ReleaseLock(w), pc[w] # "quota"
      PROVE  KeepsKnown
  BY <1>0, <1>15
     DEF J!ReleaseLock, KeepsKnown, Known, Begun, QueueFunctions, J!Working,
         J!JobHash, J!Missing
<1>16. ASSUME NEW w \in Worker, J!Ack(w), pc[w] # "quota" PROVE KeepsKnown
  BY <1>0, <1>16
     DEF J!Ack, J!NextRound, J!LRem, KeepsKnown, Known, Begun, QueueFunctions,
         J!Working, J!JobHash, J!Missing
<1>17. ASSUME NEW w \in Worker, J!ClaimFails(w) PROVE KeepsKnown
  BY <1>0, <1>17
     DEF J!ClaimFails, J!NextRound, J!Spend, KeepsKnown, Known, Begun,
         QueueFunctions, J!Working, J!JobHash, J!Missing
<1>18. ASSUME NEW w \in Worker, J!RetryRaises(w) PROVE KeepsKnown
  BY <1>0, <1>18
     DEF J!RetryRaises, J!Spend, KeepsKnown, Known, Begun, QueueFunctions,
         J!Working, J!JobHash, J!Missing
<1>19. ASSUME NEW w \in Worker, J!ReleaseFails(w) PROVE KeepsKnown
  BY <1>0, <1>19
     DEF J!ReleaseFails, J!Spend, KeepsKnown, Known, Begun, QueueFunctions,
         J!Working, J!JobHash, J!Missing
<1>20. ASSUME NEW r \in Repo, J!LockExpires(r)
      PROVE  KeepsKnown
  BY <1>0, <1>20
     DEF J!LockExpires, J!Spend, KeepsKnown, Known, Begun, QueueFunctions,
         J!Working, J!JobHash, J!Missing
<1>21. ASSUME NEW w \in Worker, J!ReleaseQuota(w), pc[w] # "quota"
      PROVE  KeepsKnown
  BY <1>21 DEF J!ReleaseQuota
<1>. QED
  BY <1>1, <1>2, <1>3, <1>4, <1>5, <1>6, <1>7, <1>8, <1>9, <1>10, <1>11, <1>12,
     <1>13, <1>14, <1>15, <1>16, <1>17, <1>18, <1>19, <1>20, <1>21
     DEF QueueStep, J!WorkerStep

LEMMA InitKnown == Init => RunsKnown
  BY DEF Init, J!Init, RunsKnown, Begun

LEMMA NextKnown ==
  ASSUME Functions, RunsKnown, [Next]_serviceVars
  PROVE  RunsKnown'
<1>0. QueueFunctions /\ ClampType
  BY DEF Functions
<1>1. ASSUME KeepsKnown PROVE RunsKnown'
  <2> SUFFICES ASSUME NEW w \in Worker, Begun(w)' PROVE Known(job[w])'
    BY DEF RunsKnown
  <2>1. CASE Begun(w) /\ job'[w] = job[w]
    <3>1. Known(job[w]) /\ job[w] \in Job
      BY <1>0, <2>1 DEF RunsKnown, QueueFunctions, Begun, J!Working
    <3>2. hash'[job[w]].status # "none"
      BY <1>1, <3>1 DEF KeepsKnown, Known
    <3>. QED
      BY <2>1, <3>2 DEF Known
  <2>2. CASE job'[w] \in Job /\ Known(job'[w])
    <3>1. hash'[job'[w]].status # "none"
      BY <1>1, <2>2 DEF KeepsKnown, Known
    <3>. QED
      BY <3>1 DEF Known
  <2>. QED
    BY <1>1, <2>1, <2>2 DEF KeepsKnown
<1>7. ASSUME QueueStep PROVE KeepsKnown
  BY <1>0, <1>7, QueueStepKnown
<1> USE DEF KeepsKnown, Known, Begun, J!Goto, J!redisVars
<1>2. ASSUME NEW s \in Server, Submit(s) PROVE KeepsKnown
  BY <1>0, <1>2 DEF Submit, J!Enqueue, J!Update, QueueFunctions
<1>3. ASSUME NEW w \in Worker, Release(w) PROVE KeepsKnown
  BY <1>0, <1>3 DEF Release, J!ReleaseQuota, queueVars, QueueFunctions
<1>4. ASSUME NEW w \in Worker, Clamp(w) PROVE KeepsKnown
  BY <1>0, <1>4 DEF Clamp, J!ReleaseQuota, QueueFunctions
<1>5. ASSUME NEW w \in Worker, ReleaseFails(w) PROVE KeepsKnown
  BY <1>0, <1>5 DEF ReleaseFails, QueueFunctions
<1>6. ASSUME NEW w \in Worker, WorkerDies(w) PROVE KeepsKnown
  BY <1>0, <1>6 DEF WorkerDies, J!Crash, QueueFunctions
<1>8. ASSUME UNCHANGED queueVars PROVE KeepsKnown
  <2>1. UNCHANGED <<pc, job, hash>>
    BY <1>8 DEF queueVars
  <2>. QED
    BY <2>1
<1> HIDE DEF KeepsKnown
<1>. QED
  BY <1>1, <1>2, <1>3, <1>4, <1>5, <1>6, <1>7, <1>8
     DEF Next, IntakeStep, CounterExpires, serviceVars

-----------------------------------------------------------------------------
(* The counter and what backs it *)

\* What was left behind by a handler, a worker or a release that failed.
Lost == faults["death"] + spent["crash"] + spent["error"]

LEMMA LostType ==
  ASSUME Functions, Functions'
  PROVE  /\ Lost \in Nat /\ Lost' \in Nat
         /\ faults["death"] \in Nat /\ faults'["death"] \in Nat
         /\ spent["crash"] \in Nat /\ spent'["crash"] \in Nat
         /\ spent["error"] \in Nat /\ spent'["error"] \in Nat
<1>1. faults["death"] \in Nat /\ faults'["death"] \in Nat
  BY DEF Functions, IntakeFunctions, I!IntakeFaults
<1>. QED
  BY <1>1, FaultedType DEF Lost

\* The counter counts the jobs in flight and the deliveries on their way in.
BackedInv ==
    \A i \in Inst : /\ IsFiniteSet(Backing(i))
                    /\ conc[i] <= Cardinality(Backing(i)) + Cardinality(Charging(i)) + Lost

LEMMA ChargingFinite ==
  ASSUME NEW i
  PROVE  IsFiniteSet(Charging(i)) /\ Cardinality(Charging(i)) \in Nat
         /\ IsFiniteSet(Charging(i)') /\ Cardinality(Charging(i)') \in Nat
<1>1. Charging(i) \subseteq Server /\ Charging(i)' \subseteq Server /\ IsFiniteSet(Server)
  BY ServiceAssumption DEF Charging
<1>. QED
  BY <1>1, CardGrows

\* A job comes to back the counter or goes.
Gains(i) == \E x \in Job : x \notin Backing(i) /\ Backing(i) \cup {x} \subseteq Backing(i)'
Loses(i) == \E x \in Job : Backing(i) \subseteq Backing(i)' \cup {x}
Keeps(i) == Backing(i) \subseteq Backing(i)'

\* A delivery is consumed for, or is enqueued or given up.
Charges(i) ==
    \E s \in Server : s \notin Charging(i) /\ Charging(i) \cup {s} \subseteq Charging(i)'
Discharges(i) == \E s \in Server : Charging(i) \subseteq Charging(i)' \cup {s}
Holds(i) == Charging(i) \subseteq Charging(i)'

\* What a step may do to the counter of an installation and to its backing.
BackedMove(i) ==
    /\ Lost' >= Lost
    /\ \E x : Backing(i)' \subseteq Backing(i) \cup {x}
    /\ \/ conc'[i] <= 0
       \/ conc'[i] <= conc[i] /\ Keeps(i) /\ Holds(i)
       \/ conc'[i] <= conc[i] /\ Gains(i) /\ Discharges(i)
       \/ conc'[i] <= conc[i] + 1 /\ Keeps(i) /\ Charges(i)
       \/ conc'[i] <= conc[i] - 1 /\ Loses(i) /\ Holds(i)
       \/ conc'[i] <= conc[i] /\ Lost' >= Lost + 1 /\ Keeps(i) /\ Discharges(i)
       \/ conc'[i] <= conc[i] /\ Lost' >= Lost + 1 /\ Loses(i) /\ Holds(i)

LEMMA BackedMoves ==
  ASSUME Functions, BackedInv, \A i \in Inst : BackedMove(i), Functions'
  PROVE  BackedInv'
<1> SUFFICES ASSUME NEW i \in Inst
             PROVE  (/\ IsFiniteSet(Backing(i))
                     /\ conc[i] <= Cardinality(Backing(i)) + Cardinality(Charging(i)) + Lost)'
  BY DEF BackedInv
<1> DEFINE b == Cardinality(Backing(i))
           c == Cardinality(Charging(i))
           p == Cardinality(Backing(i)')
           q == Cardinality(Charging(i)')
<1>1. conc[i] \in Int /\ conc'[i] \in Int /\ Lost \in Nat /\ Lost' \in Nat
  BY LostType DEF Functions, IntakeFunctions
<1>2. IsFiniteSet(Charging(i)) /\ IsFiniteSet(Charging(i)') /\ c \in Nat /\ q \in Nat
  BY ChargingFinite
<1>3. IsFiniteSet(Backing(i)) /\ conc[i] <= b + c + Lost
  BY DEF BackedInv
<1>4. BackedMove(i) /\ Lost' >= Lost
  BY DEF BackedMove
<1>5. IsFiniteSet(Backing(i)') /\ b \in Nat /\ p \in Nat
  <2>1. PICK x : Backing(i)' \subseteq Backing(i) \cup {x}
    BY <1>4 DEF BackedMove
  <2>. QED
    BY <1>3, <2>1, CardLoses, FS_CardinalityType
<1>6. Keeps(i) => b <= p
  BY <1>5, CardGrows DEF Keeps
<1>7. Gains(i) => b + 1 <= p
  <2> SUFFICES ASSUME NEW x \in Job, x \notin Backing(i), Backing(i) \cup {x} \subseteq Backing(i)'
               PROVE  b + 1 <= p
    BY DEF Gains
  <2>. QED
    BY <1>5, CardGains
<1>8. Loses(i) => b <= p + 1
  <2> SUFFICES ASSUME NEW x \in Job, Backing(i) \subseteq Backing(i)' \cup {x}
               PROVE  b <= p + 1
    BY DEF Loses
  <2>. QED
    BY <1>5, CardLoses
<1>9. Holds(i) => c <= q
  BY <1>2, CardGrows DEF Holds
<1>10. Charges(i) => c + 1 <= q
  <2> SUFFICES ASSUME NEW s \in Server, s \notin Charging(i),
                      Charging(i) \cup {s} \subseteq Charging(i)'
               PROVE  c + 1 <= q
    BY DEF Charges
  <2>. QED
    BY <1>2, CardGains
<1>11. Discharges(i) => c <= q + 1
  <2> SUFFICES ASSUME NEW s \in Server, Charging(i) \subseteq Charging(i)' \cup {s}
               PROVE  c <= q + 1
    BY DEF Discharges
  <2>. QED
    BY <1>2, CardLoses
<1> HIDE DEF b, c, p, q
<1>12. conc'[i] <= p + q + Lost'
  BY <1>1, <1>2, <1>3, <1>4, <1>5, <1>6, <1>7, <1>8, <1>9, <1>10, <1>11 DEF BackedMove
<1>. QED
  BY <1>5, <1>12 DEF p, q

\* A worker that neither runs a job nor owes for one any more.
LEMMA LetsGo ==
  ASSUME NEW w \in Worker, UNCHANGED hash, ~Pays(w)', NEW i,
         \A v \in Worker \ {w} : pc'[v] = pc[v] /\ job'[v] = job[v]
  PROVE  /\ Backing(i)' \subseteq Backing(i)
         /\ Backing(i) \subseteq Backing(i)' \cup {job[w]}
         /\ InstOf[job[w]] # i => Keeps(i)
  BY BackingElements, BackingElementsNext DEF Pays, Live, Keeps

LEMMA QueueStepBacked ==
  ASSUME QueueFunctions, QueueStep, NEW i
  PROVE  Keeps(i) /\ \E x : Backing(i)' \subseteq Backing(i) \cup {x}
<1>1. CASE UNCHANGED <<pc, job, hash>>
  <2>1. Backing(i)' = Backing(i)
    BY <1>1 DEF Backing, InFlight, Paying
  <2>. QED
    BY <2>1 DEF Keeps
<1>2. ASSUME NEW w \in Worker, HandsOn(w)
      PROVE  Keeps(i) /\ \E x : Backing(i)' \subseteq Backing(i) \cup {x}
  <2>1. Backing(i)' \subseteq Backing(i) \cup {job[w]}
    BY <1>2, BackingElements, BackingElementsNext DEF HandsOn, Pays, Live
  <2>2. Backing(i) \subseteq Backing(i)'
    <3> SUFFICES ASSUME NEW j \in Backing(i) PROVE j \in Backing(i)'
      OBVIOUS
    <3>1. CASE j \in Job /\ InstOf[j] = i /\ Live(j)
      <4>1. Live(j)' \/ (Pays(w)' /\ job'[w] = j)
        BY <1>2, <3>1 DEF HandsOn, Live
      <4>. QED
        BY <3>1, <4>1, BackingElementsNext
    <3>2. ASSUME NEW v \in Worker, Pays(v), job[v] = j, InstOf[j] = i PROVE j \in Backing(i)'
      <4>1. Pays(v)' /\ job'[v] = j
        BY <1>2, <3>2 DEF HandsOn, Pays
      <4>. QED
        BY <3>2, <4>1, BackingElementsNext
    <3>. QED
      BY <3>1, <3>2, BackingElements
  <2>. QED
    BY <2>1, <2>2 DEF Keeps
<1>. QED
  BY <1>1, <1>2, QueueStepHands

\* A step that leaves the queue alone leaves what backs the counter alone.
LEMMA QueueIdle ==
  ASSUME UNCHANGED queueVars, NEW i
  PROVE  /\ Keeps(i) /\ \E x : Backing(i)' \subseteq Backing(i) \cup {x}
         /\ UNCHANGED <<pc, job, hash, spent>>
<1>1. UNCHANGED <<pc, job, hash, spent>>
  BY DEF queueVars
<1>2. Backing(i)' = Backing(i)
  BY <1>1 DEF Backing, InFlight, Paying
<1>. QED
  BY <1>1, <1>2 DEF Keeps

\* Every step does one of these to each counter.
LEMMA NextBacked ==
  ASSUME Functions, RunsKnown, [Next]_serviceVars, NEW i \in Inst
  PROVE  BackedMove(i)
<1>0. QueueFunctions /\ IntakeFunctions /\ ClampType /\ Functions'
  BY NextFunctions DEF Functions
<1>n. conc[i] \in Int /\ Lost \in Nat
  BY <1>0, LostType DEF IntakeFunctions
<1> USE DEF J!redisVars, J!adminVars, J!Goto
<1>1. ASSUME NEW s \in Server, Submit(s) PROVE BackedMove(i)
  <2> DEFINE d == sdel[s]
  <2>1. /\ d \in Job /\ hash[d].status = "none" /\ UNCHANGED <<pc, job, spent, faults, conc>>
        /\ hash' = [hash EXCEPT ![d] = [status |-> "pending", attempts |-> 0]]
    BY <1>0, <1>1 DEF Submit, I!EnqueueJob, J!Enqueue, J!Update, IntakeFunctions, I!quotaVars
  <2>2. Lost' = Lost
    BY <2>1 DEF Lost
  <2>3. Discharges(i) /\ (InstOf[d] # i => Holds(i))
    BY <1>0, <1>1 DEF Submit, I!EnqueueJob, I!Reply, Discharges, Holds, Charging, IntakeFunctions
  <2>4. \A j \in Job \ {d} : hash'[j] = hash[j]
    BY <1>0, <2>1 DEF QueueFunctions
  <2>5. hash'[d].status = "pending"
    BY <1>0, <2>1 DEF QueueFunctions
  <2> HIDE DEF d
  <2>6. Keeps(i) /\ Backing(i)' \subseteq Backing(i) \cup {d}
    BY <2>1, <2>4, <2>5, BackingElements, BackingElementsNext DEF Keeps, Pays, Live
  <2>7. CASE InstOf[d] # i
    BY <1>n, <2>1, <2>2, <2>3, <2>6, <2>7 DEF BackedMove
  <2>8. CASE InstOf[d] = i
    <3>1. d \notin Backing(i)
      BY <2>1, BackingElements DEF RunsKnown, Known, Begun, Pays, Live
    <3>2. d \in Backing(i)'
      BY <2>1, <2>5, <2>8, BackingElementsNext DEF Live
    <3>3. Gains(i)
      BY <2>1, <2>6, <3>1, <3>2 DEF Gains, Keeps
    <3>. QED
      BY <1>n, <2>1, <2>2, <2>3, <2>6, <3>3 DEF BackedMove
  <2>. QED
    BY <2>7, <2>8
<1>2. ASSUME NEW w \in Worker, Release(w) PROVE BackedMove(i)
  <2>1. UNCHANGED <<job, hash, spent, faults, spc, sdel>> /\ job[w] \in Job
    BY <1>0, <1>2 DEF Release, J!ReleaseQuota, queueVars, QueueFunctions, J!Working
  <2>2. Lost' = Lost /\ Holds(i)
    BY <2>1 DEF Lost, Holds, Charging
  <2>3. conc' = [conc EXCEPT ![Payee(w)] = @ - 1]
    BY <1>2 DEF Release, I!Decr
  <2>4. CASE conc[Payee(w)] > 0
    <3>1. pc' = [pc EXCEPT ![w] = "ack"]
      BY <1>2, <2>4 DEF Release, J!ReleaseQuota
    <3>2. /\ Backing(i)' \subseteq Backing(i)
          /\ Backing(i) \subseteq Backing(i)' \cup {job[w]}
          /\ InstOf[job[w]] # i => Keeps(i)
      BY <1>0, <2>1, <3>1, LetsGo DEF Pays, QueueFunctions
    <3>3. CASE Payee(w) = i
      BY <1>0, <1>n, <2>1, <2>2, <2>3, <3>2, <3>3 DEF BackedMove, Loses, IntakeFunctions
    <3>4. CASE Payee(w) # i
      <4>1. conc'[i] = conc[i]
        BY <1>0, <2>3, <3>4 DEF IntakeFunctions
      <4>. QED
        BY <1>n, <2>2, <3>2, <3>4, <4>1 DEF BackedMove, Payee
    <3>. QED
      BY <3>3, <3>4
  <2>5. CASE ~(conc[Payee(w)] > 0)
    <3>1. Keeps(i) /\ \E x : Backing(i)' \subseteq Backing(i) \cup {x}
      BY <1>2, <2>5, QueueIdle DEF Release
    <3>2. conc'[i] <= conc[i]
      BY <1>0, <2>3 DEF IntakeFunctions
    <3>. QED
      BY <1>n, <2>2, <3>1, <3>2 DEF BackedMove
  <2>. QED
    BY <2>4, <2>5
<1>3. ASSUME NEW w \in Worker, Clamp(w) PROVE BackedMove(i)
  <2>1. UNCHANGED <<job, hash, spent, faults, spc, sdel>> /\ pc' = [pc EXCEPT ![w] = "ack"]
    BY <1>3 DEF Clamp, J!ReleaseQuota
  <2>2. Lost' = Lost /\ Holds(i)
    BY <2>1 DEF Lost, Holds, Charging
  <2>3. /\ Backing(i)' \subseteq Backing(i)
        /\ InstOf[job[w]] # i => Keeps(i)
    BY <1>0, <2>1, LetsGo DEF Pays, QueueFunctions
  <2>4. conc' = [conc EXCEPT ![Payee(w)] = 0]
    BY <1>3 DEF Clamp, I!SetZero
  <2>5. CASE Payee(w) = i
    <3>1. conc'[i] = 0
      BY <1>0, <2>4, <2>5 DEF IntakeFunctions
    <3>. QED
      BY <1>n, <2>2, <2>3, <3>1 DEF BackedMove
  <2>6. CASE Payee(w) # i
    <3>1. conc'[i] = conc[i]
      BY <1>0, <2>4, <2>6 DEF IntakeFunctions
    <3>. QED
      BY <1>n, <2>2, <2>3, <2>6, <3>1 DEF BackedMove, Payee
  <2>. QED
    BY <2>5, <2>6
<1>4. ASSUME NEW w \in Worker, ReleaseFails(w) PROVE BackedMove(i)
  <2>1. /\ UNCHANGED <<job, hash, conc, faults, spc, sdel>> /\ job[w] \in Job
        /\ pc' = [pc EXCEPT ![w] = "ack"]
    BY <1>0, <1>4 DEF ReleaseFails, intakeVars, QueueFunctions, J!Working
  <2>2. Lost' = Lost + 1
    <3>1. UNCHANGED faults /\ spent'["error"] = spent["error"] + 1 /\ spent'["crash"] = spent["crash"]
      BY <1>0, <1>4 DEF ReleaseFails, intakeVars, J!Spend, QueueFunctions, J!Kinds
    <3>. QED
      BY <1>0, <3>1, LostType DEF Lost
  <2>3. Holds(i)
    BY <2>1 DEF Holds, Charging
  <2>4. Backing(i)' \subseteq Backing(i) /\ Backing(i) \subseteq Backing(i)' \cup {job[w]}
    BY <1>0, <2>1, LetsGo DEF Pays, QueueFunctions
  <2>. QED
    BY <1>n, <2>1, <2>2, <2>3, <2>4 DEF BackedMove, Loses
<1>5. ASSUME NEW w \in Worker, WorkerDies(w) PROVE BackedMove(i)
  <2>1. /\ UNCHANGED <<hash, conc, faults, spc, sdel>> /\ pc' = [pc EXCEPT ![w] = "down"]
        /\ job' = [job EXCEPT ![w] = NoJob]
    BY <1>5 DEF WorkerDies, J!Crash, intakeVars
  <2>2. Lost' = Lost + 1
    <3>1. UNCHANGED faults /\ spent'["crash"] = spent["crash"] + 1 /\ spent'["error"] = spent["error"]
      BY <1>0, <1>5 DEF WorkerDies, J!Crash, intakeVars, J!Spend, QueueFunctions, J!Kinds
    <3>. QED
      BY <1>0, <3>1, LostType DEF Lost
  <2>3. Holds(i)
    BY <2>1 DEF Holds, Charging
  <2>4. Backing(i)' \subseteq Backing(i) /\ Backing(i) \subseteq Backing(i)' \cup {job[w]}
    BY <1>0, <2>1, LetsGo DEF Pays, QueueFunctions
  <2>5. CASE job[w] \in Job
    BY <1>n, <2>1, <2>2, <2>3, <2>4, <2>5 DEF BackedMove, Loses
  <2>6. CASE job[w] \notin Job
    <3>1. Keeps(i)
      <4>1. job[w] \notin Backing(i)
        <5>1. \A v \in Worker : Pays(v) => job[v] \in Job
          BY <1>0 DEF Pays, QueueFunctions, J!Working
        <5>. QED
          BY <2>6, <5>1, BackingElements
      <4>. QED
        BY <2>4, <4>1 DEF Keeps
    <3>. QED
      BY <1>n, <2>1, <2>2, <2>3, <2>4, <3>1 DEF BackedMove
  <2>. QED
    BY <2>5, <2>6
<1>6. CASE QueueStep
  <2>1. UNCHANGED <<conc, faults, spc, sdel>>
    BY <1>6 DEF QueueStep, intakeVars
  <2>2. Lost' >= Lost
    <3>1. spent'["crash"] >= spent["crash"] /\ spent'["error"] >= spent["error"]
      BY <1>0, <1>6, QueueStepFrame DEF J!Kinds
    <3>. QED
      BY <1>0, <2>1, <3>1, LostType DEF Lost
  <2>3. Holds(i)
    BY <2>1 DEF Holds, Charging
  <2>4. Keeps(i) /\ \E x : Backing(i)' \subseteq Backing(i) \cup {x}
    BY <1>0, <1>6, QueueStepBacked
  <2>. QED
    BY <1>n, <2>1, <2>2, <2>3, <2>4 DEF BackedMove
<1>7. CASE IntakeStep
  <2>0. /\ Keeps(i) /\ \E x : Backing(i)' \subseteq Backing(i) \cup {x}
        /\ UNCHANGED spent
    BY <1>7, QueueIdle DEF IntakeStep
  <2> USE DEF I!quotaVars, I!serverVars, I!Proceed, I!Reply, IntakeFunctions
  <2>1. ASSUME NEW s \in Server, I!Consume(s) PROVE BackedMove(i)
    <3>1. /\ spc[s] = "consume" /\ spc' = [spc EXCEPT ![s] = "enqueue"]
          /\ UNCHANGED <<sdel, faults>>
      BY <2>1 DEF I!Consume
    <3>2. Lost' = Lost
      BY <2>0, <3>1 DEF Lost
    <3>3. conc' = [conc EXCEPT ![InstOf[sdel[s]]] = @ + 1]
      BY <2>1, ServiceAssumption DEF I!Consume, I!InstIn
    <3>4. CASE InstOf[sdel[s]] = i
      <4>1. Charges(i)
        BY <1>0, <3>1, <3>4 DEF Charges, Charging
      <4>2. conc'[i] = conc[i] + 1
        BY <1>0, <3>3, <3>4
      <4>. QED
        BY <1>n, <2>0, <3>2, <4>1, <4>2 DEF BackedMove
    <3>5. CASE InstOf[sdel[s]] # i
      <4>1. Holds(i)
        BY <1>0, <3>1 DEF Holds, Charging
      <4>2. conc'[i] = conc[i]
        BY <1>0, <3>3, <3>5
      <4>. QED
        BY <1>n, <2>0, <3>2, <4>1, <4>2 DEF BackedMove
    <3>. QED
      BY <3>4, <3>5
  <2>2. ASSUME NEW s \in Server, I!HandlerDies(s) PROVE BackedMove(i)
    <3>1. /\ faults' = [faults EXCEPT !["death"] = @ + 1] /\ UNCHANGED conc
          /\ spc' = [spc EXCEPT ![s] = "idle"] /\ sdel' = [sdel EXCEPT ![s] = NoDelivery]
      BY <2>2 DEF I!HandlerDies, I!Fault
    <3>2. Lost' = Lost + 1
      <4>1. faults'["death"] = faults["death"] + 1
        BY <1>0, <3>1 DEF I!IntakeFaults
      <4>. QED
        BY <1>0, <2>0, <4>1, LostType DEF Lost
    <3>3. Discharges(i)
      BY <1>0, <3>1 DEF Discharges, Charging
    <3>. QED
      BY <1>n, <2>0, <3>1, <3>2, <3>3 DEF BackedMove
  <2>3. ASSUME Holds(i), UNCHANGED <<conc, faults>> PROVE BackedMove(i)
    <3>1. Lost' = Lost
      BY <2>0, <2>3 DEF Lost
    <3>. QED
      BY <1>n, <2>0, <2>3, <3>1 DEF BackedMove
  <2>4. ASSUME NEW s \in Server, I!CheckConcurrent(s) PROVE Holds(i) /\ UNCHANGED <<conc, faults>>
    BY <1>0, <2>4 DEF I!CheckConcurrent, Holds, Charging
  <2>5. ASSUME NEW s \in Server, NEW b \in I!Bucket, I!CheckBucket(s, b)
        PROVE  Holds(i) /\ UNCHANGED <<conc, faults>>
    BY <1>0, <2>5 DEF I!CheckBucket, I!Bucket, Holds, Charging
  <2>6. ASSUME NEW s \in Server, NEW d \in Job, I!Request(s, d)
        PROVE  Holds(i) /\ UNCHANGED <<conc, faults>>
    BY <1>0, <2>6
       DEF I!Request, I!Deduped, I!Ignored, I!Serve, I!intakeVars, Holds, Charging
  <2>. QED
    BY <1>7, <2>1, <2>2, <2>3, <2>4, <2>5, <2>6 DEF IntakeStep
<1>8. ASSUME NEW k \in Inst, CounterExpires(k) PROVE BackedMove(i)
  <2>0. /\ Keeps(i) /\ \E x : Backing(i)' \subseteq Backing(i) \cup {x}
        /\ UNCHANGED spent
    BY <1>8, QueueIdle DEF CounterExpires
  <2>1. faults'["death"] = faults["death"]
    BY <1>0, <1>8 DEF CounterExpires, I!Fault, IntakeFunctions, I!IntakeFaults
  <2>2. Lost' = Lost
    BY <2>0, <2>1 DEF Lost
  <2>3. Holds(i)
    BY <1>8 DEF CounterExpires, I!ConcExpires, I!serverVars, Holds, Charging
  <2>4. conc'[i] <= 0 \/ conc'[i] <= conc[i]
    BY <1>0, <1>n, <1>8 DEF CounterExpires, I!ConcExpires, I!SetZero, IntakeFunctions
  <2>. QED
    BY <1>n, <2>0, <2>2, <2>3, <2>4 DEF BackedMove
<1>9. CASE UNCHANGED serviceVars
  <2>1. UNCHANGED <<queueVars, conc, spc, sdel, faults>>
    BY <1>9 DEF serviceVars, intakeVars
  <2>2. /\ Keeps(i) /\ \E x : Backing(i)' \subseteq Backing(i) \cup {x}
        /\ UNCHANGED spent
    BY <2>1, QueueIdle
  <2>3. Lost' = Lost /\ Holds(i)
    BY <2>1, <2>2 DEF Lost, Holds, Charging
  <2>. QED
    BY <1>n, <2>1, <2>2, <2>3 DEF BackedMove
<1>. QED
  BY <1>1, <1>2, <1>3, <1>4, <1>5, <1>6, <1>7, <1>8, <1>9 DEF Next

\* "Concurrent counter is a plain INCR/DECR" (quota.py:20): the counter of an
\* installation never counts a job that is over and paid back.  The invariant
\* needs that a worker only ever runs a job that was enqueued: the delivery
\* being enqueued is then none of those already counted.
THEOREM CounterIsBacked == Spec => []CounterBacked
<1> DEFINE Inv == Functions /\ RunsKnown /\ BackedInv
<1>1. Init => Inv
  <2> SUFFICES ASSUME Init PROVE Inv
    OBVIOUS
  <2>1. ASSUME NEW i \in Inst
        PROVE  /\ IsFiniteSet(Backing(i))
               /\ conc[i] <= Cardinality(Backing(i)) + Cardinality(Charging(i)) + Lost
    <3>1. Backing(i) = {} /\ conc[i] = 0
      BY <2>1 DEF Init, J!Init, I!IntakeInit, Backing, InFlight, Paying
    <3>2. Lost = 0
      BY DEF Init, J!Init, I!IntakeInit, Lost, J!Kinds, I!IntakeFaults
    <3>3. Cardinality(Charging(i)) \in Nat
      BY ChargingFinite
    <3>. QED
      BY <3>1, <3>2, <3>3, FS_EmptySet
  <2>. QED
    BY <2>1, InitFunctions, InitKnown DEF BackedInv
<1>2. Inv /\ [Next]_serviceVars => Inv'
  BY NextFunctions, NextKnown, NextBacked, BackedMoves
<1>3. Inv => CounterBacked
  <2> SUFFICES ASSUME Inv, NEW i \in Inst
               PROVE  conc[i] <= Cardinality(Backing(i)) + Cardinality(Charging(i))
                                 + faults["death"] + spent["crash"] + spent["error"]
    BY DEF CounterBacked, Backing
  <2>1. /\ faults["death"] \in Nat /\ spent["crash"] \in Nat /\ spent["error"] \in Nat
        /\ conc[i] \in Int
    BY DEF Functions, IntakeFunctions, QueueFunctions, J!Kinds, I!IntakeFaults
  <2>2. /\ Cardinality(Backing(i)) \in Nat /\ Cardinality(Charging(i)) \in Nat
        /\ conc[i] <= Cardinality(Backing(i)) + Cardinality(Charging(i)) + Lost
    BY ChargingFinite, FS_CardinalityType DEF BackedInv
  <2>. QED
    BY <2>1, <2>2 DEF Lost
<1>. QED
  BY <1>1, <1>2, <1>3, PTL DEF Spec

=============================================================================
