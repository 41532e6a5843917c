--------------------------- MODULE TenantCostProofs ---------------------------
(***************************************************************************)
(* Machine-checked proofs about TenantCost, for every set of threads,      *)
(* jobs, installations, calls and models, every price list and every size  *)
(* of the table of calls.                                                  *)
(***************************************************************************)
EXTENDS TenantCost, FiniteSetTheorems, SequenceTheorems, TLAPS

-----------------------------------------------------------------------------
(* The table of calls *)

\* What RemoveAt leaves.
LEMMA Removed ==
  ASSUME NEW S, NEW s \in Seq(S), NEW i \in 1..Len(s)
  PROVE  /\ RemoveAt(s, i) \in Seq(S) /\ Len(RemoveAt(s, i)) = Len(s) - 1
         /\ \A n \in 1..(Len(s) - 1) : RemoveAt(s, i)[n] = IF n < i THEN s[n] ELSE s[n + 1]
<1> DEFINE a == SubSeq(s, 1, i - 1)
           b == SubSeq(s, i + 1, Len(s))
<1>1. a \in Seq(S) /\ Len(a) = i - 1 /\ \A n \in 1..(i - 1) : a[n] = s[n]
  OBVIOUS
<1>2. /\ b \in Seq(S) /\ Len(b) = Len(s) - i
      /\ \A n \in 1..(Len(s) - i) : b[n] = s[n + i]
  OBVIOUS
<1>3. RemoveAt(s, i) = a \o b
  BY DEF RemoveAt
<1>4. Len(s) \in Nat /\ i \in Nat /\ i >= 1 /\ i <= Len(s)
  OBVIOUS
<1> HIDE DEF a, b
<1>5. /\ a \o b \in Seq(S) /\ Len(a \o b) = Len(a) + Len(b)
      /\ \A n \in 1..(Len(a) + Len(b)) : (a \o b)[n] = IF n <= Len(a) THEN a[n] ELSE b[n - Len(a)]
  BY <1>1, <1>2, ConcatProperties
<1>6. ASSUME NEW n \in 1..(Len(s) - 1)
      PROVE  (a \o b)[n] = IF n < i THEN s[n] ELSE s[n + 1]
  <2>1. CASE n < i
    BY <1>1, <1>2, <1>4, <1>5, <2>1
  <2>2. CASE ~(n < i)
    <3>1. PICK k \in 1..(Len(s) - i) : k = n - (i - 1) /\ k + i = n + 1
      BY <1>4, <2>2
    <3>2. (a \o b)[n] = b[k]
      BY <1>1, <1>2, <1>4, <1>5, <2>2, <3>1
    <3>3. b[k] = s[n + 1]
      BY <1>2, <1>4, <3>1
    <3>. QED
      BY <2>2, <3>2, <3>3
  <2>. QED
    BY <2>1, <2>2
<1>. QED
  BY <1>1, <1>2, <1>3, <1>4, <1>5, <1>6

\* No call is in the table twice.
Distinct == \A n, m \in 1..Len(stash) : stash[n] = stash[m] => n = m

\* What _pop leaves: the others, in their order.
LEMMA PopFacts ==
  ASSUME stash \in Seq(Calls), NEW c \in Calls, pop(c)
  PROVE  /\ stash' \in Seq(Calls) /\ Len(stash') \in Nat /\ Len(stash') <= Len(stash)
         /\ \A n \in 1..Len(stash') : \E m \in 1..Len(stash) : stash'[n] = stash[m]
         /\ Distinct => /\ Distinct'
                        /\ \A n \in 1..Len(stash') : stash'[n] # c
                        /\ \A m \in 1..Len(stash) : stash[m] # c =>
                             \E n \in 1..Len(stash') : stash'[n] = stash[m]
<1>1. CASE ~Stashed(c)
  BY <1>1 DEF pop, Distinct, Stashed
<1>2. CASE Stashed(c)
  <2>1. PICK i \in 1..Len(stash) : stash[i] = c /\ stash' = RemoveAt(stash, i)
    BY <1>2 DEF pop, Stashed
  <2>2. /\ stash' \in Seq(Calls) /\ Len(stash') = Len(stash) - 1
        /\ \A n \in 1..(Len(stash) - 1) : stash'[n] = IF n < i THEN stash[n] ELSE stash[n + 1]
    BY <2>1, Removed
  <2>3. Len(stash) \in Nat /\ Len(stash') \in Nat /\ i \in Nat
    BY <2>1, <2>2
  <2>4. ASSUME NEW n \in 1..Len(stash')
        PROVE  /\ stash'[n] = stash[IF n < i THEN n ELSE n + 1]
               /\ (IF n < i THEN n ELSE n + 1) \in 1..Len(stash) \ {i}
    BY <2>2, <2>3
  <2>5. ASSUME Distinct
        PROVE  /\ Distinct'
               /\ \A n \in 1..Len(stash') : stash'[n] # c
               /\ \A m \in 1..Len(stash) : stash[m] # c =>
                    \E n \in 1..Len(stash') : stash'[n] = stash[m]
    <3>1. Distinct'
      <4> SUFFICES ASSUME NEW n \in 1..Len(stash'), NEW m \in 1..Len(stash'),
                          stash'[n] = stash'[m]
                   PROVE  n = m
        BY DEF Distinct
      <4>1. (IF n < i THEN n ELSE n + 1) = (IF m < i THEN m ELSE m + 1)
        BY <2>4, <2>5 DEF Distinct
      <4>. QED
        BY <2>3, <4>1
    <3>2. ASSUME NEW n \in 1..Len(stash') PROVE stash'[n] # c
      BY <2>1, <2>4, <2>5 DEF Distinct
    <3>3. ASSUME NEW m \in 1..Len(stash), stash[m] # c
          PROVE  \E n \in 1..Len(stash') : stash'[n] = stash[m]
      <4>1. CASE m < i
        <5>1. m \in 1..Len(stash')
          BY <2>1, <2>2, <2>3, <4>1
        <5>. QED
          BY <2>4, <4>1, <5>1
      <4>2. CASE m > i
        <5>1. m - 1 \in 1..Len(stash') /\ ~(m - 1 < i) /\ (m - 1) + 1 = m
          BY <2>1, <2>2, <2>3, <4>2
        <5>. QED
          BY <2>4, <5>1
      <4>. QED
        BY <2>1, <2>3, <3>3, <4>1, <4>2
    <3>. QED
      BY <3>1, <3>2, <3>3
  <2>. QED
    BY <2>2, <2>3, <2>4, <2>5
<1>. QED
  BY <1>1, <1>2

\* What a cut leaves: the newest.
LEMMA CutFacts ==
  ASSUME stash \in Seq(Calls), NEW c \in Calls, Cut(c)
  PROVE  /\ stash' \in Seq(Calls)
         /\ \A n \in 1..Len(stash') : \E m \in 1..Len(stash) : stash'[n] = stash[m]
         /\ Distinct => Distinct'
<1>1. PICK d \in 0..StashDrop : d <= Len(stash) /\ stash' = SubSeq(stash, d + 1, Len(stash))
  BY DEF Cut
<1>2. PICK k \in Nat : d \in Nat /\ Len(stash) \in Nat /\ d + k = Len(stash)
  <2>1. Len(stash) - d \in Nat /\ d + (Len(stash) - d) = Len(stash) /\ d \in Nat /\ Len(stash) \in Nat
    BY <1>1, CostAssumptions
  <2>. QED
    BY <2>1
<1>3. /\ stash' \in Seq(Calls) /\ Len(stash') = k
      /\ \A n \in 1..k : stash'[n] = stash[n + d]
  BY <1>1, <1>2
<1>4. \A n \in 1..k : n + d \in 1..Len(stash)
  BY <1>2
<1>5. Distinct => Distinct'
  BY <1>2, <1>3, <1>4 DEF Distinct
<1>. QED
  BY <1>3, <1>4, <1>5

-----------------------------------------------------------------------------
(* Types *)

LEMMA CostInitType == Init => CostTypeOK
<1> SUFFICES ASSUME Init PROVE CostTypeOK
  OBVIOUS
<1>1. ThreadsTypeOK
  BY DEF Init, ThreadsTypeOK, Worker, Free
<1>2. CallsTypeOK
  <2>1. stash \in Seq(Calls)
    BY DEF Init
  <2>. QED
    BY <2>1 DEF Init, CallsTypeOK, Call, Knows, NoCall
<1>3. BooksTypeOK
  BY CostAssumptions DEF Init, BooksTypeOK
<1>. QED
  BY <1>1, <1>2, <1>3 DEF CostTypeOK

\* Threads hold jobs, and what they bind is an installation or none.
LEMMA ThreadsType ==
  ASSUME CostTypeOK, [Next]_vars
  PROVE  ThreadsTypeOK'
<1> USE DEF CostTypeOK, ThreadsTypeOK
<1>0. InstOf \in [Jobs -> Insts \cup {None}]
  BY CostAssumptions
<1>1. ASSUME NEW w \in Threads, NEW j \in Jobs, Take(w, j) PROVE ThreadsTypeOK'
  BY <1>0, <1>1 DEF Take, ThreadsTypeOK, Worker
<1>2. ASSUME NEW w \in Threads, LockGot(w) PROVE ThreadsTypeOK'
  BY <1>0, <1>2 DEF LockGot, ThreadsTypeOK, Worker
<1>3. ASSUME NEW w \in Threads, LockBusy(w) PROVE ThreadsTypeOK'
  BY <1>0, <1>3 DEF LockBusy, ThreadsTypeOK, Worker, Free, books
<1>4. ASSUME NEW w \in Threads, Finish(w) PROVE ThreadsTypeOK'
  BY <1>0, <1>4 DEF Finish, ThreadsTypeOK, Worker, Free, books
<1>5. ASSUME NEW w \in Threads, NEW c \in Calls, NEW m \in Models, on_llm_start(w, c, m)
      PROVE  ThreadsTypeOK'
  BY <1>0, <1>5 DEF on_llm_start, ThreadsTypeOK, books
<1>6. ASSUME NEW c \in Calls, Trim(c) PROVE ThreadsTypeOK'
  BY <1>0, <1>6 DEF Trim, ThreadsTypeOK, books
<1>16. ASSUME NEW c \in Calls, Cut(c) PROVE ThreadsTypeOK'
  BY <1>0, <1>16 DEF Cut, ThreadsTypeOK, books
<1>7. ASSUME NEW c \in Calls, on_llm_end(c) PROVE ThreadsTypeOK'
  BY <1>0, <1>7 DEF on_llm_end, ThreadsTypeOK, books
<1>8. ASSUME NEW c \in Calls, on_llm_error(c) PROVE ThreadsTypeOK'
  BY <1>0, <1>8 DEF on_llm_error, ThreadsTypeOK, books
<1>9. ASSUME NEW c \in Calls, record(c) PROVE ThreadsTypeOK'
  BY <1>0, <1>9 DEF record, ThreadsTypeOK, books
<1>10. ASSUME NEW c \in Calls, RecordFails(c) PROVE ThreadsTypeOK'
  BY <1>0, <1>10 DEF RecordFails, ThreadsTypeOK, books
<1>11. ASSUME NEW i \in Insts, reset(i) PROVE ThreadsTypeOK'
  BY <1>0, <1>11 DEF reset, ThreadsTypeOK, books
<1>12. ASSUME NEW i \in Insts, UsageUsd(i) PROVE ThreadsTypeOK'
  BY <1>0, <1>12 DEF UsageUsd, ThreadsTypeOK, books
<1>13. CASE UsageTokens
  BY <1>0, <1>13 DEF UsageTokens, ThreadsTypeOK, books
<1>14. CASE Crash
  BY <1>0, <1>14 DEF Crash, ThreadsTypeOK, Worker, Free, books
<1>15. CASE UNCHANGED vars
  BY <1>15 DEF vars, ThreadsTypeOK
<1>. QED
  BY <1>1, <1>2, <1>3, <1>4, <1>5, <1>6, <1>7, <1>8, <1>9, <1>10, <1>11, <1>12,
     <1>13, <1>14, <1>15, <1>16
     DEF Next, ThreadStep, CallStep

\* Calls and the table.
LEMMA CallsType ==
  ASSUME CostTypeOK, [Next]_vars
  PROVE  CallsTypeOK'
<1>0. /\ call \in [Calls -> Call] /\ \A d \in Calls : Knows(call[d])
      /\ stash \in Seq(Calls) /\ crowded \in BOOLEAN /\ worker \in [Threads -> Worker]
      /\ \A w \in Threads : worker[w].pc # "free" => worker[w].job \in Jobs
      /\ bound \in [Threads -> Insts \cup {None}]
      /\ InstOf \in [Jobs -> Insts \cup {None}]
  BY CostAssumptions DEF CostTypeOK, ThreadsTypeOK, CallsTypeOK
<1>1. ASSUME NEW w \in Threads, NEW j \in Jobs, Take(w, j) PROVE CallsTypeOK'
  <2>1. UNCHANGED <<call, stash, crowded>>
    BY <1>1 DEF Take
  <2>. QED
    BY <2>1 DEF CallsTypeOK, CostTypeOK
<1>2. ASSUME NEW w \in Threads, LockGot(w) PROVE CallsTypeOK'
  <2>1. UNCHANGED <<call, stash, crowded>>
    BY <1>2 DEF LockGot
  <2>. QED
    BY <2>1 DEF CallsTypeOK, CostTypeOK
<1>3. ASSUME NEW w \in Threads, LockBusy(w) PROVE CallsTypeOK'
  <2>1. UNCHANGED <<call, stash, crowded>>
    BY <1>3 DEF LockBusy
  <2>. QED
    BY <2>1 DEF CallsTypeOK, CostTypeOK
<1>4. ASSUME NEW w \in Threads, Finish(w) PROVE CallsTypeOK'
  <2>1. UNCHANGED <<call, stash, crowded>>
    BY <1>4 DEF Finish
  <2>. QED
    BY <2>1 DEF CallsTypeOK, CostTypeOK
<1>5. ASSUME NEW w \in Threads, NEW c \in Calls, NEW m \in Models, on_llm_start(w, c, m)
      PROVE  CallsTypeOK'
  <2>1. call' \in [Calls -> Call] /\ \A d \in Calls : Knows(call'[d])
    BY <1>0, <1>5 DEF on_llm_start, Call, Knows, Worker, NoCall
  <2>2. stash' \in Seq(Calls)
    BY <1>0, <1>5 DEF on_llm_start
  <2>3. crowded' \in BOOLEAN
    BY <1>0, <1>5 DEF on_llm_start
  <2>. QED
    BY <2>1, <2>2, <2>3 DEF CallsTypeOK
<1>6. ASSUME NEW c \in Calls, Trim(c) PROVE CallsTypeOK'
  <2>1. call' \in [Calls -> Call] /\ \A d \in Calls : Knows(call'[d])
    BY <1>0, <1>6 DEF Trim, Call, Knows
  <2>2. stash' \in Seq(Calls)
    BY <1>0, <1>6 DEF Trim
  <2>3. crowded' \in BOOLEAN
    BY <1>0, <1>6 DEF Trim
  <2>. QED
    BY <2>1, <2>2, <2>3 DEF CallsTypeOK
<1>16. ASSUME NEW c \in Calls, Cut(c) PROVE CallsTypeOK'
  <2>1. call' \in [Calls -> Call] /\ \A d \in Calls : Knows(call'[d])
    BY <1>0, <1>16 DEF Cut, Call, Knows
  <2>2. stash' \in Seq(Calls)
    BY <1>0, <1>16, CutFacts
  <2>3. crowded' \in BOOLEAN
    BY <1>0, <1>16 DEF Cut
  <2>. QED
    BY <2>1, <2>2, <2>3 DEF CallsTypeOK
<1>7. ASSUME NEW c \in Calls, on_llm_end(c) PROVE CallsTypeOK'
  <2>0. call[c].pc = "open" /\ KeyOf(c) \in Keys
    BY <1>0, <1>7 DEF on_llm_end, KeyOf, Keys, Knows
  <2>1. call' \in [Calls -> Call] /\ \A d \in Calls : Knows(call'[d])
    <3>1. /\ Over \in Call /\ Knows(Over)
          /\ call[c].ctx # None =>
               [call[c] EXCEPT !.pc = "record", !.key = KeyOf(c)] \in {d \in Call : Knows(d)}
      BY <1>0, <2>0 DEF Call, Knows, Over, NoCall
    <3>2. PICK d \in Call : Knows(d) /\ call' = [call EXCEPT ![c] = d]
      BY <1>0, <1>7, <3>1 DEF on_llm_end
    <3>. QED
      BY <1>0, <3>2
  <2>2. stash' \in Seq(Calls)
    BY <1>0, <1>7, PopFacts DEF on_llm_end
  <2>3. crowded' \in BOOLEAN
    BY <1>0, <1>7 DEF on_llm_end
  <2>. QED
    BY <2>1, <2>2, <2>3 DEF CallsTypeOK
<1>8. ASSUME NEW c \in Calls, on_llm_error(c) PROVE CallsTypeOK'
  <2>1. call' \in [Calls -> Call] /\ \A d \in Calls : Knows(call'[d])
    BY <1>0, <1>8 DEF on_llm_error, Call, Knows, Over, NoCall
  <2>2. stash' \in Seq(Calls)
    BY <1>0, <1>8, PopFacts DEF on_llm_error
  <2>3. crowded' \in BOOLEAN
    BY <1>0, <1>8 DEF on_llm_error
  <2>. QED
    BY <2>1, <2>2, <2>3 DEF CallsTypeOK
<1>9. ASSUME NEW c \in Calls, record(c) PROVE CallsTypeOK'
  <2>1. call' \in [Calls -> Call] /\ \A d \in Calls : Knows(call'[d])
    BY <1>0, <1>9 DEF record, Call, Knows, Over, NoCall
  <2>2. stash' = stash
    BY <1>9 DEF record
  <2>3. crowded' \in BOOLEAN
    BY <1>0, <1>9 DEF record
  <2>. QED
    BY <1>0, <2>1, <2>2, <2>3 DEF CallsTypeOK
<1>10. ASSUME NEW c \in Calls, RecordFails(c) PROVE CallsTypeOK'
  <2>1. call' \in [Calls -> Call] /\ \A d \in Calls : Knows(call'[d])
    BY <1>0, <1>10 DEF RecordFails, Call, Knows, Over, NoCall
  <2>2. stash' = stash
    BY <1>10 DEF RecordFails
  <2>3. crowded' \in BOOLEAN
    BY <1>0, <1>10 DEF RecordFails
  <2>. QED
    BY <1>0, <2>1, <2>2, <2>3 DEF CallsTypeOK
<1>11. ASSUME NEW i \in Insts, reset(i) PROVE CallsTypeOK'
  <2>1. UNCHANGED <<call, stash, crowded>>
    BY <1>11 DEF reset
  <2>. QED
    BY <2>1 DEF CallsTypeOK, CostTypeOK
<1>12. ASSUME NEW i \in Insts, UsageUsd(i) PROVE CallsTypeOK'
  <2>1. UNCHANGED <<call, stash, crowded>>
    BY <1>12 DEF UsageUsd
  <2>. QED
    BY <2>1 DEF CallsTypeOK, CostTypeOK
<1>13. CASE UsageTokens
  <2>1. UNCHANGED <<call, stash, crowded>>
    BY <1>13 DEF UsageTokens
  <2>. QED
    BY <2>1 DEF CallsTypeOK, CostTypeOK
<1>14. CASE Crash
  <2>1. call' \in [Calls -> Call] /\ \A d \in Calls : Knows(call'[d])
    BY <1>0, <1>14 DEF Crash, Call, Knows, Over, NoCall
  <2>2. stash' \in Seq(Calls) /\ crowded' \in BOOLEAN
    BY <1>0, <1>14 DEF Crash
  <2>. QED
    BY <2>1, <2>2 DEF CallsTypeOK
<1>15. CASE UNCHANGED vars
  <2>1. UNCHANGED <<call, stash, crowded>>
    BY <1>15 DEF vars
  <2>. QED
    BY <2>1 DEF CallsTypeOK, CostTypeOK
<1>. QED
  BY <1>1, <1>2, <1>3, <1>4, <1>5, <1>6, <1>7, <1>8, <1>9, <1>10, <1>11, <1>12,
     <1>13, <1>14, <1>15, <1>16
     DEF Next, ThreadStep, CallStep

\* What a unit costs is a number, in the list or not.
LEMMA Price == ASSUME NEW k \in Keys PROVE price_for(k) \in Nat
  BY CostAssumptions DEF price_for

\* The books hold numbers, for every installation and every model.
LEMMA BooksType ==
  ASSUME CostTypeOK, [Next]_vars
  PROVE  BooksTypeOK'
<1>0. /\ usd \in [Insts -> [Keys -> Nat]] /\ tok \in [Insts -> [Keys -> Nat]]
      /\ usage \in Asking \cup {NoUsage} /\ spent \in [Insts -> Nat]
      /\ left \in [Happenings -> Nat] /\ \A d \in Calls : Knows(call[d])
      /\ InstOf \in [Jobs -> Insts \cup {None}] /\ None \notin Insts
  BY CostAssumptions DEF CostTypeOK, BooksTypeOK, CallsTypeOK
<1>1. ASSUME NEW w \in Threads, NEW j \in Jobs, Take(w, j) PROVE BooksTypeOK'
  <2>1. UNCHANGED <<usd, tok, spent, usage>>
    BY <1>1 DEF Take, books
  <2>2. left' \in [Happenings -> Nat]
    BY <1>0, <1>1 DEF Take
  <2>. QED
    BY <1>0, <2>1, <2>2 DEF BooksTypeOK
<1>2. ASSUME NEW w \in Threads, LockGot(w) PROVE BooksTypeOK'
  <2>1. UNCHANGED <<usd, tok, spent, usage>>
    BY <1>2 DEF LockGot, books
  <2>2. left' \in [Happenings -> Nat]
    BY <1>0, <1>2 DEF LockGot
  <2>. QED
    BY <1>0, <2>1, <2>2 DEF BooksTypeOK
<1>3. ASSUME NEW w \in Threads, LockBusy(w) PROVE BooksTypeOK'
  <2>1. UNCHANGED <<usd, tok, spent, usage>>
    BY <1>3 DEF LockBusy, books
  <2>2. left' \in [Happenings -> Nat]
    BY <1>0, <1>3 DEF LockBusy
  <2>. QED
    BY <1>0, <2>1, <2>2 DEF BooksTypeOK
<1>4. ASSUME NEW w \in Threads, Finish(w) PROVE BooksTypeOK'
  <2>1. UNCHANGED <<usd, tok, spent, usage>>
    BY <1>4 DEF Finish, books
  <2>2. left' \in [Happenings -> Nat]
    BY <1>0, <1>4 DEF Finish
  <2>. QED
    BY <1>0, <2>1, <2>2 DEF BooksTypeOK
<1>5. ASSUME NEW w \in Threads, NEW c \in Calls, NEW m \in Models, on_llm_start(w, c, m)
      PROVE  BooksTypeOK'
  <2>1. UNCHANGED <<usd, tok, spent, usage>>
    BY <1>5 DEF on_llm_start, books
  <2>2. left' \in [Happenings -> Nat]
    BY <1>0, <1>5 DEF on_llm_start
  <2>. QED
    BY <1>0, <2>1, <2>2 DEF BooksTypeOK
<1>6. ASSUME NEW c \in Calls, Trim(c) PROVE BooksTypeOK'
  <2>1. UNCHANGED <<usd, tok, spent, usage>>
    BY <1>6 DEF Trim, books
  <2>2. left' \in [Happenings -> Nat]
    BY <1>0, <1>6 DEF Trim
  <2>. QED
    BY <1>0, <2>1, <2>2 DEF BooksTypeOK
<1>16. ASSUME NEW c \in Calls, Cut(c) PROVE BooksTypeOK'
  <2>1. UNCHANGED <<usd, tok, spent, usage>>
    BY <1>16 DEF Cut, books
  <2>2. left' \in [Happenings -> Nat]
    BY <1>0, <1>16 DEF Cut
  <2>. QED
    BY <1>0, <2>1, <2>2 DEF BooksTypeOK
<1>7. ASSUME NEW c \in Calls, on_llm_end(c) PROVE BooksTypeOK'
  <2>1. spent' \in [Insts -> Nat]
    BY <1>0, <1>7 DEF on_llm_end, Used
  <2>2. UNCHANGED <<usd, tok, usage, left>>
    BY <1>7 DEF on_llm_end
  <2>. QED
    BY <1>0, <2>1, <2>2 DEF BooksTypeOK
<1>8. ASSUME NEW c \in Calls, on_llm_error(c) PROVE BooksTypeOK'
  <2>1. UNCHANGED <<usd, tok, spent, usage>>
    BY <1>8 DEF on_llm_error, books
  <2>2. left' \in [Happenings -> Nat]
    BY <1>0, <1>8 DEF on_llm_error
  <2>. QED
    BY <1>0, <2>1, <2>2 DEF BooksTypeOK
<1>9. ASSUME NEW c \in Calls, record(c) PROVE BooksTypeOK'
  <2>0. call[c].job \in Jobs
    BY <1>0, <1>9 DEF record, Knows
  <2>1. spent' \in [Insts -> Nat]
    BY <1>0, <1>9, <2>0 DEF record, Used
  <2>2. call[c].ctx \in Insts /\ call[c].key \in Keys
    BY <1>0, <1>9 DEF record, Knows
  <2>3. price_for(call[c].key) \in Nat
    BY <2>2, Price
  <2>4. usd' \in [Insts -> [Keys -> Nat]] /\ tok' \in [Insts -> [Keys -> Nat]]
    BY <1>0, <1>9, <2>2, <2>3 DEF record
  <2>5. UNCHANGED <<usage, left>>
    BY <1>9 DEF record
  <2>. QED
    BY <1>0, <2>1, <2>4, <2>5 DEF BooksTypeOK
<1>10. ASSUME NEW c \in Calls, RecordFails(c) PROVE BooksTypeOK'
  <2>0. call[c].job \in Jobs
    BY <1>0, <1>10 DEF RecordFails, Knows
  <2>1. spent' \in [Insts -> Nat]
    BY <1>0, <1>10, <2>0 DEF RecordFails, Used
  <2>2. UNCHANGED <<usd, tok, usage>>
    BY <1>10 DEF RecordFails
  <2>3. left' \in [Happenings -> Nat]
    BY <1>0, <1>10 DEF RecordFails, Spend, Happenings
  <2>. QED
    BY <1>0, <2>1, <2>2, <2>3 DEF BooksTypeOK
<1>11. ASSUME NEW i \in Insts, reset(i) PROVE BooksTypeOK'
  <2>1. spent' \in [Insts -> Nat] /\ left' \in [Happenings -> Nat]
    BY <1>0, <1>11 DEF reset, Spend, Happenings
  <2>2. usd' \in [Insts -> [Keys -> Nat]] /\ tok' \in [Insts -> [Keys -> Nat]]
    BY <1>0, <1>11 DEF reset
  <2>3. usage' \in Asking \cup {NoUsage}
    <3>1. CASE usage \in Asking
      BY <1>0, <1>11, <3>1 DEF reset, Asking
    <3>2. CASE usage = NoUsage
      <4>1. usage.inst = None
        BY <3>2 DEF NoUsage
      <4>. QED
        BY <1>0, <1>11, <3>2, <4>1 DEF reset
    <3>. QED
      BY <1>0, <3>1, <3>2
  <2>. QED
    BY <2>1, <2>2, <2>3 DEF BooksTypeOK
<1>12. ASSUME NEW i \in Insts, UsageUsd(i) PROVE BooksTypeOK'
  BY <1>0, <1>12 DEF UsageUsd, BooksTypeOK, books, Asking
<1>13. CASE UsageTokens
  BY <1>0, <1>13 DEF UsageTokens, BooksTypeOK, books
<1>14. CASE Crash
  <2>1. UNCHANGED <<usd, tok, spent, usage>>
    BY <1>14 DEF Crash, books
  <2>2. left' \in [Happenings -> Nat]
    <3>1. left["crash"] > 0 /\ left["any"] > 0
          /\ left' = [left EXCEPT !["crash"] = @ - 1, !["any"] = @ - 1]
      BY <1>14 DEF Crash, Spend
    <3>. QED
      BY <1>0, <3>1 DEF Happenings
  <2>. QED
    BY <1>0, <2>1, <2>2 DEF BooksTypeOK
<1>15. CASE UNCHANGED vars
  BY <1>0, <1>15 DEF vars, BooksTypeOK
<1>. QED
  BY <1>1, <1>2, <1>3, <1>4, <1>5, <1>6, <1>7, <1>8, <1>9, <1>10, <1>11, <1>12,
     <1>13, <1>14, <1>15, <1>16
     DEF Next, ThreadStep, CallStep

\* Every variable keeps its type.
THEOREM CostTypeCorrect == Spec => []CostTypeOK
<1>1. CostTypeOK /\ [Next]_vars => CostTypeOK'
  BY ThreadsType, CallsType, BooksType DEF CostTypeOK
<1>. QED
  BY <1>1, CostInitType, PTL DEF Spec

-----------------------------------------------------------------------------
(* No model is forgotten below the size of the table *)

Nameless == <<Unknown, Unknown>>
Active(c) == call[c].pc \in {"trim", "cut", "open"}

\* Who is in the table has begun.
Begun == \A n \in 1..Len(stash) : call[stash[n]].pc # "new"

\* As long as no more calls than StashCap have been open at a time, the table is
\* just the calls that are open, nobody cuts it, and no unit was booked without its model.
Remembered ==
    /\ Cardinality(Open(call)) <= StashCap
    /\ \A c \in Calls : Active(c) => Stashed(c)
    /\ \A n \in 1..Len(stash) : Active(stash[n])
    /\ \A c \in Calls : call[c].pc # "cut"
    /\ \A c \in Calls : call[c].pc = "record" => call[c].key # Nameless
    /\ \A i \in Insts : tok[i][Nameless] = 0

StashInv == Distinct /\ Begun /\ (crowded \/ Remembered)

\* The calls that are open are finitely many, and fewer when some end.
LEMMA FewerOpen ==
  ASSUME NEW before, NEW after, Open(after) \subseteq Open(before),
         Cardinality(Open(before)) <= StashCap
  PROVE  Cardinality(Open(after)) <= StashCap
<1>1. IsFiniteSet(Open(before)) /\ IsFiniteSet(Open(after))
  BY CostAssumptions, FS_Subset DEF Open
<1>2. /\ Cardinality(Open(before)) \in Nat /\ Cardinality(Open(after)) \in Nat
      /\ Cardinality(Open(after)) <= Cardinality(Open(before)) /\ StashCap \in Nat
  BY <1>1, FS_Subset, FS_CardinalityType, CostAssumptions
<1>. QED
  BY <1>2

\* A table of open calls, each once, is not longer than they are many.
LEMMA TableFits ==
  ASSUME CallsTypeOK, Distinct, Remembered
  PROVE  Len(stash) <= StashCap
<1> DEFINE A == 1..Len(stash)
           f == [n \in A |-> stash[n]]
<1>1. Len(stash) \in Nat /\ \A n \in A : stash[n] \in Calls
  BY DEF CallsTypeOK
<1>2. f \in Injection(A, Open(call))
  BY <1>1 DEF Injection, IsInjective, Distinct, Remembered, Active, Open
<1>3. IsFiniteSet(Open(call))
  BY CostAssumptions, FS_Subset DEF Open
<1>4. Cardinality(A) <= Cardinality(Open(call))
  <2> HIDE DEF f, A
  <2>. QED  BY <1>2, <1>3, FS_Injection
<1>5. Cardinality(A) = Len(stash)
  <2>1. PICK k \in Nat : k = Len(stash)
    BY <1>1
  <2>2. Cardinality(1..k) = IF 1 <= k THEN k - 1 + 1 ELSE 0
    BY FS_Interval, 1 \in Int, k \in Int
  <2>. QED
    BY <2>1, <2>2
<1>6. Cardinality(Open(call)) \in Nat /\ StashCap \in Nat
  BY <1>3, FS_CardinalityType, CostAssumptions
<1> HIDE DEF A
<1>. QED
  BY <1>1, <1>4, <1>5, <1>6 DEF Remembered

\* A call that begins is put into the table, and leaves it when it ends; the table
\* is cut only when more calls than StashCap are in it.
LEMMA NextStash ==
  ASSUME CostTypeOK, StashInv, [Next]_vars
  PROVE  StashInv'
<1>0. /\ call \in [Calls -> Call] /\ \A d \in Calls : Knows(call[d]) /\ call[d] \in Call
      /\ stash \in Seq(Calls) /\ Len(stash) \in Nat /\ CallsTypeOK
      /\ \A n \in 1..Len(stash) : stash[n] \in Calls
      /\ crowded \in BOOLEAN /\ tok \in [Insts -> [Keys -> Nat]]
  BY DEF CostTypeOK, CallsTypeOK, BooksTypeOK
<1>1. ASSUME NEW w \in Threads, NEW j \in Jobs, Take(w, j) PROVE StashInv'
  <2>1. UNCHANGED <<call, stash, crowded, tok>>
    BY <1>1 DEF Take, books
  <2>. QED
    BY <2>1 DEF StashInv, Distinct, Begun, Remembered, Active, Stashed
<1>2. ASSUME NEW w \in Threads, LockGot(w) PROVE StashInv'
  <2>1. UNCHANGED <<call, stash, crowded, tok>>
    BY <1>2 DEF LockGot, books
  <2>. QED
    BY <2>1 DEF StashInv, Distinct, Begun, Remembered, Active, Stashed
<1>3. ASSUME NEW w \in Threads, LockBusy(w) PROVE StashInv'
  <2>1. UNCHANGED <<call, stash, crowded, tok>>
    BY <1>3 DEF LockBusy, books
  <2>. QED
    BY <2>1 DEF StashInv, Distinct, Begun, Remembered, Active, Stashed
<1>4. ASSUME NEW w \in Threads, Finish(w) PROVE StashInv'
  <2>1. UNCHANGED <<call, stash, crowded, tok>>
    BY <1>4 DEF Finish, books
  <2>. QED
    BY <2>1 DEF StashInv, Distinct, Begun, Remembered, Active, Stashed
<1>5. ASSUME NEW w \in Threads, NEW c \in Calls, NEW m \in Models, on_llm_start(w, c, m)
      PROVE  StashInv'
  <2>1. call[c].pc = "new" /\ stash' = Append(stash, c) /\ tok' = tok
    BY <1>5 DEF on_llm_start, books
  <2>2. call'[c].pc = "trim" /\ \A d \in Calls \ {c} : call'[d] = call[d]
    BY <1>0, <1>5 DEF on_llm_start
  <2>3. /\ Len(stash') = Len(stash) + 1 /\ stash'[Len(stash) + 1] = c
        /\ \A n \in 1..Len(stash) : stash'[n] = stash[n] /\ stash[n] \in Calls \ {c}
    BY <1>0, <2>1 DEF StashInv, Begun
  <2>4. Distinct' /\ Begun'
    <3>1. \A n \in 1..Len(stash') : n = Len(stash) + 1 \/ n \in 1..Len(stash)
      BY <1>0, <2>3
    <3>2. \A n, k \in 1..Len(stash') : stash'[n] = stash'[k] => n = k
      BY <2>3, <3>1 DEF StashInv, Distinct
    <3>3. \A n \in 1..Len(stash') : call'[stash'[n]].pc # "new"
      BY <2>2, <2>3, <3>1 DEF StashInv, Begun
    <3>. QED
      BY <3>2, <3>3 DEF Distinct, Begun
  <2>5. ASSUME ~crowded' PROVE Remembered'
    <3>1. Cardinality(Open(call')) <= StashCap /\ ~crowded
      <4>1. (crowded => crowded') /\ (Cardinality(Open(call')) > StashCap => crowded')
        BY <1>5 DEF on_llm_start
      <4>2. Cardinality(Open(call')) \in Nat /\ StashCap \in Nat
        BY CostAssumptions, FS_Subset, FS_CardinalityType DEF Open
      <4>. QED
        BY <2>5, <4>1, <4>2
    <3>2. Remembered
      BY <3>1 DEF StashInv
    <3>3. \A d \in Calls : call'[d].pc \in {"trim", "cut", "open"} =>
            \E n \in 1..Len(stash') : stash'[n] = d
      <4> SUFFICES ASSUME NEW d \in Calls, call'[d].pc \in {"trim", "cut", "open"}
                   PROVE  \E n \in 1..Len(stash') : stash'[n] = d
        OBVIOUS
      <4>1. CASE d = c
        BY <1>0, <2>3, <4>1
      <4>2. CASE d # c
        <5>1. PICK n \in 1..Len(stash) : stash[n] = d
          BY <2>2, <3>2, <4>2 DEF Remembered, Active, Stashed
        <5>2. n \in 1..Len(stash')
          BY <1>0, <2>3
        <5>. QED
          BY <2>3, <5>1, <5>2
      <4>. QED
        BY <4>1, <4>2
    <3>4. \A n \in 1..Len(stash') : call'[stash'[n]].pc \in {"trim", "cut", "open"}
      <4>1. \A n \in 1..Len(stash') : n = Len(stash) + 1 \/ n \in 1..Len(stash)
        BY <1>0, <2>3
      <4>. QED
        BY <2>2, <2>3, <3>2, <4>1 DEF Remembered, Active
    <3>5. \A d \in Calls : (call'[d].pc = "record" => call'[d].key # Nameless) /\ call'[d].pc # "cut"
      BY <2>2, <3>2 DEF Remembered
    <3>. QED
      BY <2>1, <3>1, <3>2, <3>3, <3>4, <3>5 DEF Remembered, Active, Stashed
  <2>. QED
    BY <2>4, <2>5 DEF StashInv
<1>6. ASSUME NEW c \in Calls, Trim(c) PROVE StashInv'
  <2>1. /\ call[c].pc = "trim" /\ call'[c].pc = IF Len(stash) > StashCap THEN "cut" ELSE "open"
        /\ UNCHANGED <<stash, tok, crowded>> /\ \A d \in Calls \ {c} : call'[d] = call[d]
    BY <1>0, <1>6 DEF Trim, books, Call
  <2>2. \A d \in Calls : (call'[d].pc = "new" <=> call[d].pc = "new") /\ (Active(d)' <=> Active(d))
    BY <2>1 DEF Active
  <2>3. Distinct' /\ Begun'
    BY <1>0, <2>1, <2>2 DEF StashInv, Distinct, Begun
  <2>4. ASSUME Remembered PROVE Remembered'
    <3>1. call'[c].pc = "open"
      <4>1. StashCap \in Nat /\ Len(stash) <= StashCap
        BY <1>0, <2>4, TableFits, CostAssumptions DEF StashInv
      <4>. QED
        BY <1>0, <2>1, <4>1
    <3>2. Open(call') = Open(call)
      BY <2>2 DEF Open, Active
    <3>3. \A d \in Calls : (call'[d].pc = "record" => call'[d].key # Nameless) /\ call'[d].pc # "cut"
      BY <2>1, <2>4, <3>1 DEF Remembered
    <3>. QED
      BY <1>0, <2>1, <2>2, <2>4, <3>2, <3>3 DEF Remembered, Stashed, Active
  <2>. QED
    BY <2>1, <2>3, <2>4 DEF StashInv
<1>16. ASSUME NEW c \in Calls, Cut(c) PROVE StashInv'
  <2>1. /\ call[c].pc = "cut" /\ call'[c].pc = "open" /\ crowded' = crowded
        /\ \A d \in Calls \ {c} : call'[d] = call[d]
    BY <1>0, <1>16 DEF Cut, Call
  <2>2. /\ stash' \in Seq(Calls) /\ Distinct'
        /\ \A n \in 1..Len(stash') : \E m \in 1..Len(stash) : stash'[n] = stash[m]
    BY <1>0, <1>16, CutFacts DEF StashInv
  <2>3. Begun'
    BY <1>0, <2>1, <2>2 DEF StashInv, Begun
  <2>4. ~Remembered
    BY <2>1 DEF Remembered
  <2>. QED
    BY <2>1, <2>2, <2>3, <2>4 DEF StashInv
<1>7. ASSUME NEW c \in Calls, on_llm_end(c) PROVE StashInv'
  <2>1. /\ call[c].pc = "open" /\ call'[c].pc \in {"record", "over"} /\ tok' = tok
        /\ crowded' = crowded /\ \A d \in Calls \ {c} : call'[d] = call[d]
    BY <1>0, <1>7 DEF on_llm_end, books, Over, NoCall, Call
  <2>2. /\ stash' \in Seq(Calls) /\ Distinct'
        /\ \A n \in 1..Len(stash') : stash'[n] # c /\ \E m \in 1..Len(stash) : stash'[n] = stash[m]
        /\ \A m \in 1..Len(stash) : stash[m] # c =>
             \E n \in 1..Len(stash') : stash'[n] = stash[m]
    BY <1>0, <1>7, PopFacts DEF on_llm_end, StashInv
  <2>3. Begun'
    BY <1>0, <2>1, <2>2 DEF StashInv, Begun
  <2>4. ASSUME Remembered PROVE Remembered'
    <3>1. Open(call') \subseteq Open(call)
      BY <2>1 DEF Open
    <3>2. Cardinality(Open(call')) <= StashCap
      BY <2>4, <3>1, FewerOpen DEF Remembered
    <3>3. \A d \in Calls : call'[d].pc \in {"trim", "cut", "open"} =>
            \E n \in 1..Len(stash') : stash'[n] = d
      <4> SUFFICES ASSUME NEW d \in Calls, call'[d].pc \in {"trim", "cut", "open"}
                   PROVE  \E n \in 1..Len(stash') : stash'[n] = d
        OBVIOUS
      <4>1. d # c /\ call[d].pc \in {"trim", "cut", "open"}
        BY <2>1
      <4>2. PICK m \in 1..Len(stash) : stash[m] = d
        BY <2>4, <4>1 DEF Remembered, Active, Stashed
      <4>. QED
        BY <2>2, <4>1, <4>2
    <3>4. \A n \in 1..Len(stash') : call'[stash'[n]].pc \in {"trim", "cut", "open"}
      <4> SUFFICES ASSUME NEW n \in 1..Len(stash')
                   PROVE  call'[stash'[n]].pc \in {"trim", "cut", "open"}
        OBVIOUS
      <4>1. PICK m \in 1..Len(stash) : stash'[n] = stash[m] /\ stash'[n] # c
        BY <2>2
      <4>2. stash[m] \in Calls \ {c} /\ call[stash[m]].pc \in {"trim", "cut", "open"}
        BY <1>0, <2>4, <4>1 DEF Remembered, Active
      <4>. QED
        BY <2>1, <4>1, <4>2
    <3>5. call'[c].pc = "record" => call'[c].key # Nameless
      <4>1. Stashed(c)
        BY <2>1, <2>4 DEF Remembered, Active
      <4>2. call[c].model \in Models
        BY <1>0, <2>1 DEF Knows
      <4>3. KeyOf(c) = <<Provider[call[c].model], call[c].model>>
        BY <4>1 DEF KeyOf
      <4>4. KeyOf(c) # Nameless
        BY <4>2, <4>3, CostAssumptions DEF Nameless
      <4>5. call'[c].pc = "record" => call'[c].key = KeyOf(c)
        BY <1>0, <1>7 DEF on_llm_end, Over, NoCall, Call
      <4>. QED
        BY <4>4, <4>5
    <3>6. \A d \in Calls : (call'[d].pc = "record" => call'[d].key # Nameless) /\ call'[d].pc # "cut"
      BY <2>1, <2>4, <3>5 DEF Remembered
    <3>. QED
      BY <2>1, <2>4, <3>2, <3>3, <3>4, <3>6 DEF Remembered, Active, Stashed
  <2>. QED
    BY <2>1, <2>2, <2>3, <2>4 DEF StashInv
<1>8. ASSUME NEW c \in Calls, on_llm_error(c) PROVE StashInv'
  <2>1. /\ call[c].pc = "open" /\ call'[c].pc \in {"record", "over"} /\ tok' = tok
        /\ crowded' = crowded /\ \A d \in Calls \ {c} : call'[d] = call[d]
    BY <1>0, <1>8 DEF on_llm_error, books, Over, NoCall, Call
  <2>2. /\ stash' \in Seq(Calls) /\ Distinct'
        /\ \A n \in 1..Len(stash') : stash'[n] # c /\ \E m \in 1..Len(stash) : stash'[n] = stash[m]
        /\ \A m \in 1..Len(stash) : stash[m] # c =>
             \E n \in 1..Len(stash') : stash'[n] = stash[m]
    BY <1>0, <1>8, PopFacts DEF on_llm_error, StashInv
  <2>3. Begun'
    BY <1>0, <2>1, <2>2 DEF StashInv, Begun
  <2>4. ASSUME Remembered PROVE Remembered'
    <3>1. Open(call') \subseteq Open(call)
      BY <2>1 DEF Open
    <3>2. Cardinality(Open(call')) <= StashCap
      BY <2>4, <3>1, FewerOpen DEF Remembered
    <3>3. \A d \in Calls : call'[d].pc \in {"trim", "cut", "open"} =>
            \E n \in 1..Len(stash') : stash'[n] = d
      <4> SUFFICES ASSUME NEW d \in Calls, call'[d].pc \in {"trim", "cut", "open"}
                   PROVE  \E n \in 1..Len(stash') : stash'[n] = d
        OBVIOUS
      <4>1. d # c /\ call[d].pc \in {"trim", "cut", "open"}
        BY <2>1
      <4>2. PICK m \in 1..Len(stash) : stash[m] = d
        BY <2>4, <4>1 DEF Remembered, Active, Stashed
      <4>. QED
        BY <2>2, <4>1, <4>2
    <3>4. \A n \in 1..Len(stash') : call'[stash'[n]].pc \in {"trim", "cut", "open"}
      <4> SUFFICES ASSUME NEW n \in 1..Len(stash')
                   PROVE  call'[stash'[n]].pc \in {"trim", "cut", "open"}
        OBVIOUS
      <4>1. PICK m \in 1..Len(stash) : stash'[n] = stash[m] /\ stash'[n] # c
        BY <2>2
      <4>2. stash[m] \in Calls \ {c} /\ call[stash[m]].pc \in {"trim", "cut", "open"}
        BY <1>0, <2>4, <4>1 DEF Remembered, Active
      <4>. QED
        BY <2>1, <4>1, <4>2
    <3>5. call'[c].pc = "record" => call'[c].key # Nameless
      BY <1>0, <1>8 DEF on_llm_error, Over, NoCall
    <3>6. \A d \in Calls : (call'[d].pc = "record" => call'[d].key # Nameless) /\ call'[d].pc # "cut"
      BY <2>1, <2>4, <3>5 DEF Remembered
    <3>. QED
      BY <2>1, <2>4, <3>2, <3>3, <3>4, <3>6 DEF Remembered, Active, Stashed
  <2>. QED
    BY <2>1, <2>2, <2>3, <2>4 DEF StashInv
<1>9. ASSUME NEW c \in Calls, record(c) PROVE StashInv'
  <2>1. /\ call[c].pc = "record" /\ call'[c].pc = "over" /\ stash' = stash
        /\ crowded' = crowded /\ \A d \in Calls \ {c} : call'[d] = call[d]
    BY <1>0, <1>9 DEF record, Over, NoCall
  <2>2. Distinct' /\ Begun'
    BY <1>0, <2>1 DEF StashInv, Distinct, Begun
  <2>3. ASSUME Remembered PROVE Remembered'
    <3>1. Open(call') \subseteq Open(call) /\ Nameless \in Keys
      BY <2>1 DEF Open, Keys, Nameless
    <3>2. Cardinality(Open(call')) <= StashCap
      BY <2>3, <3>1, FewerOpen DEF Remembered
    <3>3. \A d \in Calls : Active(d)' <=> Active(d)
      BY <2>1 DEF Active
    <3>4. \A n \in 1..Len(stash) : stash[n] \in Calls
      BY <1>0
    <3>5. \A d \in Calls : (call'[d].pc = "record" => call'[d].key # Nameless) /\ call'[d].pc # "cut"
      BY <2>1, <2>3 DEF Remembered
    <3>6. \A i \in Insts : tok'[i][Nameless] = 0
      <4>1. call[c].key \in Keys \ {Nameless} /\ call[c].ctx \in Insts
        BY <1>0, <2>1, <2>3 DEF Knows, Remembered
      <4>2. tok' = [tok EXCEPT ![call[c].ctx][call[c].key] = @ + 1]
        BY <1>9 DEF record
      <4>. QED
        BY <1>0, <2>3, <3>1, <4>1, <4>2 DEF Remembered
    <3>. QED
      BY <2>1, <2>3, <3>2, <3>3, <3>4, <3>5, <3>6 DEF Remembered, Stashed, Active
  <2>. QED
    BY <2>1, <2>2, <2>3 DEF StashInv
<1>10. ASSUME NEW c \in Calls, RecordFails(c) PROVE StashInv'
  <2>1. /\ call[c].pc = "record" /\ call'[c].pc = "over" /\ stash' = stash
        /\ crowded' = crowded /\ \A d \in Calls \ {c} : call'[d] = call[d]
    BY <1>0, <1>10 DEF RecordFails, Over, NoCall
  <2>2. Distinct' /\ Begun'
    BY <1>0, <2>1 DEF StashInv, Distinct, Begun
  <2>3. ASSUME Remembered PROVE Remembered'
    <3>1. Open(call') \subseteq Open(call) /\ Nameless \in Keys
      BY <2>1 DEF Open, Keys, Nameless
    <3>2. Cardinality(Open(call')) <= StashCap
      BY <2>3, <3>1, FewerOpen DEF Remembered
    <3>3. \A d \in Calls : Active(d)' <=> Active(d)
      BY <2>1 DEF Active
    <3>4. \A n \in 1..Len(stash) : stash[n] \in Calls
      BY <1>0
    <3>5. \A d \in Calls : (call'[d].pc = "record" => call'[d].key # Nameless) /\ call'[d].pc # "cut"
      BY <2>1, <2>3 DEF Remembered
    <3>6. \A i \in Insts : tok'[i][Nameless] = 0
      BY <1>10, <2>3 DEF RecordFails, Remembered
    <3>. QED
      BY <2>1, <2>3, <3>2, <3>3, <3>4, <3>5, <3>6 DEF Remembered, Stashed, Active
  <2>. QED
    BY <2>1, <2>2, <2>3 DEF StashInv
<1>11. ASSUME NEW i \in Insts, reset(i) PROVE StashInv'
  <2>1. UNCHANGED <<call, stash, crowded>> /\ Nameless \in Keys
    BY <1>11 DEF reset, Keys, Nameless
  <2>2. \A j \in Insts : tok'[j][Nameless] = tok[j][Nameless] \/ tok'[j][Nameless] = 0
    BY <1>0, <1>11, <2>1 DEF reset
  <2>. QED
    BY <2>1, <2>2 DEF StashInv, Distinct, Begun, Remembered, Active, Stashed
<1>12. ASSUME NEW i \in Insts, UsageUsd(i) PROVE StashInv'
  <2>1. UNCHANGED <<call, stash, crowded, tok>>
    BY <1>12 DEF UsageUsd, books
  <2>. QED
    BY <2>1 DEF StashInv, Distinct, Begun, Remembered, Active, Stashed
<1>13. CASE UsageTokens
  <2>1. UNCHANGED <<call, stash, crowded, tok>>
    BY <1>13 DEF UsageTokens, books
  <2>. QED
    BY <2>1 DEF StashInv, Distinct, Begun, Remembered, Active, Stashed
<1>14. CASE Crash
  <2>1. stash' = <<>> /\ crowded' = crowded /\ tok' = tok
        /\ \A c \in Calls : call'[c].pc \in {"new", "over"}
    BY <1>14 DEF Crash, books, Over, NoCall
  <2>2. Distinct' /\ Begun'
    BY <2>1 DEF Distinct, Begun
  <2>3. ASSUME Remembered PROVE Remembered'
    <3>1. Open(call') \subseteq Open(call)
      BY <2>1 DEF Open
    <3>2. Cardinality(Open(call')) <= StashCap
      BY <2>3, <3>1, FewerOpen DEF Remembered
    <3>. QED
      BY <2>1, <2>3, <3>2 DEF Remembered, Active
  <2>. QED
    BY <2>1, <2>2, <2>3 DEF StashInv
<1>15. CASE UNCHANGED vars
  <2>1. UNCHANGED <<call, stash, crowded, tok>>
    BY <1>15 DEF vars, books
  <2>. QED
    BY <2>1 DEF StashInv, Distinct, Begun, Remembered, Active, Stashed
<1>. QED
  BY <1>1, <1>2, <1>3, <1>4, <1>5, <1>6, <1>7, <1>8, <1>9, <1>10, <1>11, <1>12,
     <1>13, <1>14, <1>15, <1>16
     DEF Next, ThreadStep, CallStep

\* A call loses its model, and with it its price, only if more calls were open at
\* a time than the table may have.
THEOREM NoneForgottenBelowCap == Spec => []KnownBelowCap
<1>1. Init => StashInv
  <2> SUFFICES ASSUME Init PROVE StashInv
    OBVIOUS
  <2>1. Open(call) = {} /\ stash = <<>> /\ Nameless \in Keys
    BY DEF Init, Open, NoCall, Keys, Nameless
  <2>2. Cardinality(Open(call)) <= StashCap
    <3>1. Cardinality(Open(call)) = 0
      BY <2>1, FS_EmptySet
    <3>. QED
      BY <3>1, CostAssumptions
  <2>. QED
    BY <2>1, <2>2 DEF Init, StashInv, Distinct, Begun, Remembered, Active, NoCall
<1>2. StashInv => KnownBelowCap
  BY DEF StashInv, Remembered, KnownBelowCap, Nameless
<1>. QED
  BY <1>1, <1>2, CostTypeCorrect, NextStash, PTL DEF Spec

-----------------------------------------------------------------------------
(* Money and tokens *)

\* The money of an installation is what its tokens cost.
Priced == \A i \in Insts, k \in Keys : usd[i][k] = price_for(k) * tok[i][k]

\* What the reader has in hand is not more than that.
Coherent == Priced /\ UsageCoherent

\* Money and tokens are booked together, and only a reset makes them less.
LEMMA NextCoherent ==
  ASSUME CostTypeOK, Coherent, [Next]_vars
  PROVE  Coherent'
<1>0. /\ usd \in [Insts -> [Keys -> Nat]] /\ tok \in [Insts -> [Keys -> Nat]]
      /\ usage \in Asking \cup {NoUsage} /\ \A d \in Calls : Knows(call[d])
      /\ tok' \in [Insts -> [Keys -> Nat]]
  BY BooksType DEF CostTypeOK, BooksTypeOK, CallsTypeOK
<1>1. ASSUME NEW w \in Threads, NEW j \in Jobs, Take(w, j) PROVE Coherent'
  <2>1. UNCHANGED <<usd, tok, usage>>
    BY <1>1 DEF Take, books
  <2>. QED
    BY <2>1 DEF Coherent, Priced, UsageCoherent
<1>2. ASSUME NEW w \in Threads, LockGot(w) PROVE Coherent'
  <2>1. UNCHANGED <<usd, tok, usage>>
    BY <1>2 DEF LockGot, books
  <2>. QED
    BY <2>1 DEF Coherent, Priced, UsageCoherent
<1>3. ASSUME NEW w \in Threads, LockBusy(w) PROVE Coherent'
  <2>1. UNCHANGED <<usd, tok, usage>>
    BY <1>3 DEF LockBusy, books
  <2>. QED
    BY <2>1 DEF Coherent, Priced, UsageCoherent
<1>4. ASSUME NEW w \in Threads, Finish(w) PROVE Coherent'
  <2>1. UNCHANGED <<usd, tok, usage>>
    BY <1>4 DEF Finish, books
  <2>. QED
    BY <2>1 DEF Coherent, Priced, UsageCoherent
<1>5. ASSUME NEW w \in Threads, NEW c \in Calls, NEW m \in Models, on_llm_start(w, c, m)
      PROVE  Coherent'
  <2>1. UNCHANGED <<usd, tok, usage>>
    BY <1>5 DEF on_llm_start, books
  <2>. QED
    BY <2>1 DEF Coherent, Priced, UsageCoherent
<1>6. ASSUME NEW c \in Calls, Trim(c) PROVE Coherent'
  <2>1. UNCHANGED <<usd, tok, usage>>
    BY <1>6 DEF Trim, books
  <2>. QED
    BY <2>1 DEF Coherent, Priced, UsageCoherent
<1>16. ASSUME NEW c \in Calls, Cut(c) PROVE Coherent'
  <2>1. UNCHANGED <<usd, tok, usage>>
    BY <1>16 DEF Cut, books
  <2>. QED
    BY <2>1 DEF Coherent, Priced, UsageCoherent
<1>7. ASSUME NEW c \in Calls, on_llm_end(c) PROVE Coherent'
  <2>1. UNCHANGED <<usd, tok, usage>>
    BY <1>7 DEF on_llm_end, books
  <2>. QED
    BY <2>1 DEF Coherent, Priced, UsageCoherent
<1>8. ASSUME NEW c \in Calls, on_llm_error(c) PROVE Coherent'
  <2>1. UNCHANGED <<usd, tok, usage>>
    BY <1>8 DEF on_llm_error, books
  <2>. QED
    BY <2>1 DEF Coherent, Priced, UsageCoherent
<1>9. ASSUME NEW c \in Calls, record(c) PROVE Coherent'
  <2> DEFINE x == call[c].ctx
             y == call[c].key
  <2>1. x \in Insts /\ y \in Keys /\ usage' = usage
    BY <1>0, <1>9 DEF record, Knows
  <2>2. /\ tok' = [tok EXCEPT ![x][y] = @ + 1]
        /\ usd' = [usd EXCEPT ![x][y] = @ + price_for(y)]
    BY <1>9 DEF record
  <2> HIDE DEF x, y
  <2>3. ASSUME NEW i \in Insts, NEW k \in Keys
        PROVE  /\ usd'[i][k] = price_for(k) * tok'[i][k]
               /\ price_for(k) * tok[i][k] <= price_for(k) * tok'[i][k]
    <3>1. price_for(k) \in Nat /\ tok[i][k] \in Nat /\ usd[i][k] = price_for(k) * tok[i][k]
      BY <1>0, Price DEF Coherent, Priced
    <3>2. \A a, n \in Nat : a * (n + 1) = a * n + a
      OBVIOUS
    <3>3. \A a, n \in Nat : a * n \in Nat
      OBVIOUS
    <3>4. CASE i = x /\ k = y
      <4>1. tok'[i][k] = tok[i][k] + 1 /\ usd'[i][k] = usd[i][k] + price_for(k)
        BY <1>0, <2>1, <2>2, <3>4
      <4>. QED
        BY <3>1, <3>2, <3>3, <4>1
    <3>5. CASE ~(i = x /\ k = y)
      <4>1. tok'[i][k] = tok[i][k] /\ usd'[i][k] = usd[i][k]
        BY <1>0, <2>1, <2>2, <3>5
      <4>. QED
        BY <3>1, <3>3, <4>1
    <3>. QED
      BY <3>4, <3>5
  <2>4. Priced'
    BY <2>3 DEF Priced
  <2>5. UsageCoherent'
    <3> SUFFICES ASSUME usage.pc = "tokens", ~usage.reset, NEW k \in Keys
                 PROVE  usage.usd[k] <= price_for(k) * tok'[usage.inst][k]
      BY <2>1 DEF UsageCoherent
    <3>1. usage.inst \in Insts /\ usage.usd[k] \in Nat /\ tok'[usage.inst][k] \in Nat
      BY <1>0 DEF Asking, NoUsage
    <3>2. usage.usd[k] <= price_for(k) * tok[usage.inst][k]
      BY DEF Coherent, UsageCoherent
    <3>3. price_for(k) * tok[usage.inst][k] <= price_for(k) * tok'[usage.inst][k]
      BY <2>3, <3>1
    <3>4. price_for(k) \in Nat /\ tok[usage.inst][k] \in Nat
      BY <1>0, <3>1, Price
    <3>5. price_for(k) * tok[usage.inst][k] \in Nat /\ price_for(k) * tok'[usage.inst][k] \in Nat
      BY <3>1, <3>4
    <3>. QED
      BY <3>1, <3>2, <3>3, <3>5
  <2>. QED
    BY <2>4, <2>5 DEF Coherent
<1>10. ASSUME NEW c \in Calls, RecordFails(c) PROVE Coherent'
  <2>1. UNCHANGED <<usd, tok, usage>>
    BY <1>10 DEF RecordFails, books
  <2>. QED
    BY <2>1 DEF Coherent, Priced, UsageCoherent
<1>11. ASSUME NEW i \in Insts, reset(i) PROVE Coherent'
  <2>1. /\ usd' = [usd EXCEPT ![i] = [k \in Keys |-> 0]]
        /\ tok' = [tok EXCEPT ![i] = [k \in Keys |-> 0]]
        /\ usage' = IF usage.inst = i THEN [usage EXCEPT !.reset = TRUE] ELSE usage
    BY <1>11 DEF reset
  <2>2. \A j \in Insts \ {i} : tok'[j] = tok[j] /\ usd'[j] = usd[j]
    BY <1>0, <2>1
  <2>3. \A k \in Keys : tok'[i][k] = 0 /\ usd'[i][k] = 0 /\ price_for(k) * 0 = 0
    BY <1>0, <2>1, Price
  <2>4. Priced'
    BY <2>2, <2>3 DEF Coherent, Priced
  <2>5. UsageCoherent'
    <3>1. CASE usage = NoUsage
      BY <2>1, <3>1 DEF UsageCoherent, NoUsage
    <3>2. CASE usage \in Asking /\ usage.inst = i
      BY <2>1, <3>2 DEF UsageCoherent, Asking
    <3>3. CASE usage \in Asking /\ usage.inst # i
      <4>1. usage' = usage /\ usage.inst \in Insts \ {i}
        BY <2>1, <3>3 DEF Asking
      <4>. QED
        BY <2>2, <4>1 DEF Coherent, UsageCoherent
    <3>. QED
      BY <1>0, <3>1, <3>2, <3>3
  <2>. QED
    BY <2>4, <2>5 DEF Coherent
<1>12. ASSUME NEW i \in Insts, UsageUsd(i) PROVE Coherent'
  <2>1. /\ usage'.usd = usd[i] /\ usage'.inst = i /\ tok' = tok /\ usd' = usd
    BY <1>12 DEF UsageUsd, books
  <2>2. \A k \in Keys : usd[i][k] \in Nat /\ usd[i][k] = price_for(k) * tok[i][k]
    BY <1>0 DEF Coherent, Priced
  <2>3. \A k \in Keys : usd[i][k] <= price_for(k) * tok[i][k]
    BY <2>2
  <2>. QED
    BY <2>1, <2>3 DEF Coherent, Priced, UsageCoherent
<1>13. CASE UsageTokens
  <2>1. UNCHANGED <<usd, tok>> /\ usage' = NoUsage
    BY <1>13 DEF UsageTokens, books
  <2>. QED
    BY <2>1 DEF Coherent, Priced, UsageCoherent, NoUsage
<1>14. CASE Crash
  <2>1. UNCHANGED <<usd, tok, usage>>
    BY <1>14 DEF Crash, books
  <2>. QED
    BY <2>1 DEF Coherent, Priced, UsageCoherent
<1>15. CASE UNCHANGED vars
  <2>1. UNCHANGED <<usd, tok, usage>>
    BY <1>15 DEF vars, books
  <2>. QED
    BY <2>1 DEF Coherent, Priced, UsageCoherent
<1>. QED
  BY <1>1, <1>2, <1>3, <1>4, <1>5, <1>6, <1>7, <1>8, <1>9, <1>10, <1>11, <1>12,
     <1>13, <1>14, <1>15, <1>16
     DEF Next, ThreadStep, CallStep

\* The usage endpoint never shows more money than its tokens cost, though it reads
\* the two one after the other, unless the installation is reset in between.
THEOREM UsageIsCoherent == Spec => []UsageCoherent
<1>1. Init => Coherent
  <2> SUFFICES ASSUME Init PROVE Coherent
    OBVIOUS
  <2>1. ASSUME NEW k \in Keys PROVE 0 = price_for(k) * 0
    <3>1. price_for(k) \in Nat
      BY Price
    <3>. QED
      BY <3>1
  <2>. QED
    BY <2>1 DEF Init, Coherent, Priced, UsageCoherent, NoUsage
<1>2. Coherent => UsageCoherent
  BY DEF Coherent
<1>. QED
  BY <1>1, <1>2, CostTypeCorrect, NextCoherent, PTL DEF Spec

-----------------------------------------------------------------------------
(* Units *)

LEMMA InUnits ==
  ASSUME NEW f, NEW u
  PROVE  u \in Units(f) <=> \E k \in Keys : \E n \in 1..f[k] : u = <<k, n>>
  BY DEF Units

LEMMA NoUnits ==
  ASSUME NEW f, \A k \in Keys : f[k] = 0
  PROVE  IsFiniteSet(Units(f)) /\ Total(f) = 0
<1>1. Units(f) = {}
  BY InUnits
<1>. QED
  BY <1>1, FS_EmptySet DEF Total

\* One more under a key is one more.
LEMMA OneMoreUnit ==
  ASSUME NEW f, NEW g, NEW k \in Keys, IsFiniteSet(Units(f)),
         f[k] \in Nat, g[k] = f[k] + 1, \A l \in Keys : l # k => g[l] = f[l]
  PROVE  IsFiniteSet(Units(g)) /\ Total(g) = Total(f) + 1 /\ Total(f) \in Nat
<1> DEFINE new == <<k, f[k] + 1>>
<1>1. new \notin Units(f)
  BY InUnits
<1>2. ASSUME NEW u \in Units(g) PROVE u \in Units(f) \cup {new}
  <2>1. PICK l \in Keys : \E n \in 1..g[l] : u = <<l, n>>
    BY InUnits
  <2>2. PICK n \in 1..g[l] : u = <<l, n>>
    BY <2>1
  <2>3. CASE n \in 1..f[l]
    BY <2>2, <2>3, InUnits
  <2>4. CASE n \notin 1..f[l]
    <3>1. l = k /\ n = f[k] + 1
      BY <2>4
    <3>. QED
      BY <2>2, <3>1
  <2>. QED
    BY <2>3, <2>4
<1>3. ASSUME NEW u \in Units(f) PROVE u \in Units(g)
  <2>1. PICK l \in Keys : \E n \in 1..f[l] : u = <<l, n>>
    BY InUnits
  <2>2. PICK n \in 1..f[l] : u = <<l, n>>
    BY <2>1
  <2>3. n \in 1..g[l]
    <3>1. CASE l = k
      BY <3>1
    <3>2. CASE l # k
      BY <3>2
    <3>. QED
      BY <3>1, <3>2
  <2>. QED
    BY <2>2, <2>3, InUnits
<1>4. new \in Units(g)
  <2>1. f[k] + 1 \in 1..g[k]
    OBVIOUS
  <2>. QED
    BY <2>1, InUnits
<1>5. Units(g) = Units(f) \cup {new}
  BY <1>2, <1>3, <1>4
<1>. QED
  BY <1>1, <1>5, FS_AddElement, FS_CardinalityType DEF Total

-----------------------------------------------------------------------------
(* Whose units they are *)

\* A thread that has taken a job is bound to the job's installation, and a call
\* carries the installation of the job that made it.
BindingInv ==
    /\ \A w \in Threads : worker[w].pc # "free" => bound[w] = InstOf[worker[w].job]
    /\ \A c \in Calls : call[c].pc \in {"trim", "cut", "open", "record"} => call[c].ctx = InstOf[call[c].job]

\* What is missing in the books is what Redis failed to take.
BooksInv ==
    /\ Failures \in Nat
    /\ \A i \in Insts : /\ IsFiniteSet(Units(tok[i])) /\ Total(tok[i]) <= spent[i]
                        /\ spent[i] <= Total(tok[i]) + Failures

LEMMA NextBinding ==
  ASSUME CostTypeOK, BindingInv, [Next]_vars
  PROVE  BindingInv'
<1>0. /\ worker \in [Threads -> Worker] /\ bound \in [Threads -> Insts \cup {None}]
      /\ call \in [Calls -> Call]
  BY DEF CostTypeOK, ThreadsTypeOK, CallsTypeOK
<1>1. ASSUME NEW w \in Threads, NEW j \in Jobs, Take(w, j) PROVE BindingInv'
  <2>1. /\ call' = call /\ bound' = [bound EXCEPT ![w] = InstOf[j]]
        /\ worker' = [worker EXCEPT ![w] = [pc |-> "bound", job |-> j, saved |-> bound[w]]]
    BY <1>1 DEF Take
  <2>. QED
    BY <1>0, <2>1 DEF BindingInv
<1>2. ASSUME NEW w \in Threads, LockGot(w) PROVE BindingInv'
  <2>1. /\ UNCHANGED <<call, bound>> /\ worker[w].pc = "bound"
        /\ worker' = [worker EXCEPT ![w].pc = "runs"]
    BY <1>2 DEF LockGot
  <2>. QED
    BY <1>0, <2>1 DEF BindingInv, Worker
<1>3. ASSUME NEW w \in Threads, LockBusy(w) PROVE BindingInv'
  <2>1. UNCHANGED <<call, bound>> /\ worker' = [worker EXCEPT ![w] = Free]
    BY <1>3 DEF LockBusy
  <2>. QED
    BY <1>0, <2>1 DEF BindingInv, Free
<1>4. ASSUME NEW w \in Threads, Finish(w) PROVE BindingInv'
  <2>1. /\ call' = call /\ bound' = [bound EXCEPT ![w] = worker[w].saved]
        /\ worker' = [worker EXCEPT ![w] = Free]
    BY <1>4 DEF Finish
  <2>. QED
    BY <1>0, <2>1 DEF BindingInv, Free
<1>5. ASSUME NEW w \in Threads, NEW c \in Calls, NEW m \in Models, on_llm_start(w, c, m)
      PROVE  BindingInv'
  <2>1. /\ UNCHANGED <<worker, bound>> /\ worker[w].pc = "runs"
        /\ call' = [call EXCEPT ![c] = [pc |-> "trim", job |-> worker[w].job, model |-> m,
                                        ctx |-> bound[w], key |-> None]]
    BY <1>5 DEF on_llm_start
  <2>2. bound[w] = InstOf[worker[w].job]
    BY <2>1 DEF BindingInv
  <2>. QED
    BY <1>0, <2>1, <2>2 DEF BindingInv
<1>6. ASSUME NEW c \in Calls, CallStep(c) PROVE BindingInv'
  <2>1. UNCHANGED <<worker, bound>>
    BY <1>6 DEF CallStep, Trim, Cut, on_llm_end, on_llm_error, record, RecordFails
  <2>2. \/ call[c].pc \in {"trim", "cut"} /\ \E p \in {"cut", "open"} : call' = [call EXCEPT ![c].pc = p]
        \/ call' = [call EXCEPT ![c] = Over]
        \/ call[c].pc = "open" /\ call' = [call EXCEPT ![c].pc = "record", ![c].key = KeyOf(c)]
    BY <1>6 DEF CallStep, Trim, Cut, on_llm_end, on_llm_error, record, RecordFails
  <2>3. ASSUME NEW d \in Calls, call'[d].pc \in {"trim", "cut", "open", "record"}
        PROVE  call'[d].ctx = InstOf[call'[d].job]
    <3>1. CASE d # c
      <4>1. call'[d] = call[d]
        BY <1>0, <2>2, <3>1
      <4>. QED
        BY <2>3, <4>1 DEF BindingInv
    <3>2. CASE d = c
      <4>1. call[c].pc \in {"trim", "cut", "open"} /\ call'[c].ctx = call[c].ctx /\ call'[c].job = call[c].job
        BY <1>0, <2>2, <2>3, <3>2 DEF Over, NoCall, Call
      <4>. QED
        BY <3>2, <4>1 DEF BindingInv
    <3>. QED
      BY <3>1, <3>2
  <2>. QED
    BY <2>1, <2>3 DEF BindingInv
<1>7. ASSUME NEW i \in Insts, reset(i) \/ UsageUsd(i) PROVE BindingInv'
  BY <1>7 DEF reset, UsageUsd, BindingInv
<1>8. CASE UsageTokens
  BY <1>8 DEF UsageTokens, BindingInv
<1>9. CASE Crash
  <2>1. /\ worker' = [w \in Threads |-> Free]
        /\ call' = [c \in Calls |-> IF call[c].pc = "new" THEN NoCall ELSE Over]
    BY <1>9 DEF Crash
  <2>. QED
    BY <2>1 DEF BindingInv, Free, NoCall, Over
<1>10. CASE UNCHANGED vars
  BY <1>10 DEF vars, BindingInv
<1>. QED
  BY <1>1, <1>2, <1>3, <1>4, <1>5, <1>6, <1>7, <1>8, <1>9, <1>10 DEF Next, ThreadStep

\* A step that leaves the books alone may only spend another budget.
LEMMA BooksKept ==
  ASSUME BooksInv, UNCHANGED <<tok, spent>>, left'["redis"] = left["redis"]
  PROVE  BooksInv'
  BY DEF BooksInv, Failures

\* A unit is used by the installation the call carries.
LEMMA UsedBy ==
  ASSUME CostTypeOK, BindingInv, NEW c \in Calls, call[c].pc \in {"open", "record"}, Used(c)
  PROVE  spent' = IF call[c].ctx = None THEN spent ELSE [spent EXCEPT ![call[c].ctx] = @ + 1]
  BY DEF Used, BindingInv

LEMMA NextBooks ==
  ASSUME CostTypeOK, BindingInv, BooksInv, [Next]_vars
  PROVE  BooksInv'
<1>0. /\ call \in [Calls -> Call] /\ \A c \in Calls : Knows(call[c])
      /\ tok \in [Insts -> [Keys -> Nat]] /\ spent \in [Insts -> Nat]
      /\ left \in [Happenings -> Nat] /\ Budget \in [Happenings -> Nat]
      /\ None \notin Insts
  BY CostAssumptions DEF CostTypeOK, CallsTypeOK, BooksTypeOK
<1>1. ASSUME NEW w \in Threads, ThreadStep(w) PROVE BooksInv'
  <2>1. UNCHANGED <<tok, spent, left>>
    BY <1>1 DEF ThreadStep, Take, LockGot, LockBusy, Finish, on_llm_start, books
  <2>. QED
    BY <2>1, BooksKept
<1>2. ASSUME NEW c \in Calls, Trim(c) \/ Cut(c) \/ on_llm_error(c) PROVE BooksInv'
  <2>1. UNCHANGED <<tok, spent, left>>
    BY <1>2 DEF Trim, Cut, on_llm_error, books
  <2>. QED
    BY <2>1, BooksKept
<1>3. ASSUME NEW c \in Calls, on_llm_end(c) PROVE BooksInv'
  <2>1. UNCHANGED <<tok, left>> /\ call[c].pc = "open"
        /\ (UNCHANGED spent \/ (call[c].ctx = None /\ Used(c)))
    BY <1>3 DEF on_llm_end
  <2>2. UNCHANGED spent
    BY <2>1, UsedBy
  <2>. QED
    BY <2>1, <2>2, BooksKept
<1>4. ASSUME NEW c \in Calls, record(c) PROVE BooksInv'
  <2>1. call[c].pc = "record" /\ Used(c) /\ left' = left
        /\ tok' = [tok EXCEPT ![call[c].ctx][call[c].key] = @ + 1]
    BY <1>4 DEF record
  <2>2. PICK i \in Insts, k \in Keys : i = call[c].ctx /\ k = call[c].key
    BY <1>0, <2>1 DEF Knows
  <2>3. spent' = [spent EXCEPT ![i] = @ + 1] /\ tok' = [tok EXCEPT ![i][k] = @ + 1]
    BY <1>0, <2>1, <2>2, UsedBy
  <2>4. ASSUME NEW j \in Insts
        PROVE  /\ IsFiniteSet(Units(tok'[j])) /\ Total(tok'[j]) <= spent'[j]
               /\ spent'[j] <= Total(tok'[j]) + Failures
    <3>1. /\ IsFiniteSet(Units(tok[j])) /\ Total(tok[j]) <= spent[j]
          /\ spent[j] <= Total(tok[j]) + Failures /\ Failures \in Nat
      BY DEF BooksInv
    <3>2. CASE j # i
      <4>1. tok'[j] = tok[j] /\ spent'[j] = spent[j]
        BY <1>0, <2>3, <3>2
      <4>. QED
        BY <3>1, <4>1
    <3>3. CASE j = i
      <4>1. /\ tok[j][k] \in Nat /\ tok'[j][k] = tok[j][k] + 1
            /\ \A l \in Keys : l # k => tok'[j][l] = tok[j][l]
        BY <1>0, <2>3, <3>3
      <4>2. /\ IsFiniteSet(Units(tok'[j])) /\ Total(tok'[j]) = Total(tok[j]) + 1
            /\ Total(tok[j]) \in Nat
        <5>1. PICK f, g : f = tok[j] /\ g = tok'[j]
          OBVIOUS
        <5>2. IsFiniteSet(Units(g)) /\ Total(g) = Total(f) + 1 /\ Total(f) \in Nat
          BY <3>1, <4>1, <5>1, OneMoreUnit
        <5>. QED
          BY <5>1, <5>2
      <4>3. spent'[j] = spent[j] + 1 /\ spent[j] \in Nat
        BY <1>0, <2>3, <3>3
      <4>. QED
        BY <3>1, <4>2, <4>3
    <3>. QED
      BY <3>2, <3>3
  <2>. QED
    BY <2>1, <2>4 DEF BooksInv, Failures
<1>5. ASSUME NEW c \in Calls, RecordFails(c) PROVE BooksInv'
  <2>1. call[c].pc = "record" /\ Used(c) /\ tok' = tok /\ Spend("redis")
    BY <1>5 DEF RecordFails
  <2>2. PICK i \in Insts : i = call[c].ctx
    BY <1>0, <2>1 DEF Knows
  <2>3. spent' = [spent EXCEPT ![i] = @ + 1]
    BY <1>0, <2>1, <2>2, UsedBy
  <2>4. Failures' = Failures + 1 /\ Failures \in Nat
    <3>1. left'["redis"] = left["redis"] - 1
      BY <1>0, <2>1 DEF Spend, Happenings
    <3>2. left["redis"] \in Nat /\ Budget["redis"] \in Nat
      BY <1>0 DEF Happenings
    <3>. QED
      BY <3>1, <3>2 DEF Failures, BooksInv
  <2>5. ASSUME NEW j \in Insts
        PROVE  /\ IsFiniteSet(Units(tok[j])) /\ Total(tok[j]) <= spent'[j]
               /\ spent'[j] <= Total(tok[j]) + (Failures + 1)
    <3>1. /\ IsFiniteSet(Units(tok[j])) /\ Total(tok[j]) <= spent[j]
          /\ spent[j] <= Total(tok[j]) + Failures
      BY DEF BooksInv
    <3>2. Total(tok[j]) \in Nat /\ spent[j] \in Nat
      BY <1>0, <3>1, FS_CardinalityType DEF Total
    <3>3. spent'[j] \in {spent[j], spent[j] + 1}
      BY <1>0, <2>3
    <3>. QED
      BY <2>4, <3>1, <3>2, <3>3
  <2>. QED
    BY <2>1, <2>4, <2>5 DEF BooksInv
<1>6. ASSUME NEW i \in Insts, reset(i) PROVE BooksInv'
  <2>1. /\ tok' = [tok EXCEPT ![i] = [k \in Keys |-> 0]] /\ spent' = [spent EXCEPT ![i] = 0]
        /\ left'["redis"] = left["redis"]
    BY <1>0, <1>6 DEF reset, Spend, Happenings
  <2>2. Failures' = Failures /\ Failures \in Nat
    BY <2>1 DEF Failures, BooksInv
  <2>3. ASSUME NEW j \in Insts
        PROVE  /\ IsFiniteSet(Units(tok'[j])) /\ Total(tok'[j]) <= spent'[j]
               /\ spent'[j] <= Total(tok'[j]) + Failures
    <3>1. CASE j # i
      <4>1. tok'[j] = tok[j] /\ spent'[j] = spent[j]
        BY <1>0, <2>1, <3>1
      <4>. QED
        BY <4>1 DEF BooksInv
    <3>2. CASE j = i
      <4>1. spent'[j] = 0 /\ \A k \in Keys : tok'[j][k] = 0
        BY <1>0, <2>1, <3>2
      <4>2. PICK f : f = tok'[j]
        OBVIOUS
      <4>3. IsFiniteSet(Units(f)) /\ Total(f) = 0
        BY <4>1, <4>2, NoUnits
      <4>. QED
        BY <2>2, <4>1, <4>2, <4>3
    <3>. QED
      BY <3>1, <3>2
  <2>. QED
    BY <2>2, <2>3 DEF BooksInv
<1>7. ASSUME NEW i \in Insts, UsageUsd(i) PROVE BooksInv'
  BY <1>7, BooksKept DEF UsageUsd, books
<1>8. CASE UsageTokens
  BY <1>8, BooksKept DEF UsageTokens, books
<1>9. CASE Crash
  <2>1. UNCHANGED <<tok, spent>> /\ left'["redis"] = left["redis"]
    BY <1>0, <1>9 DEF Crash, books, Spend, Happenings
  <2>. QED
    BY <2>1, BooksKept
<1>10. CASE UNCHANGED vars
  BY <1>10, BooksKept DEF vars, books
<1>. QED
  BY <1>1, <1>2, <1>3, <1>4, <1>5, <1>6, <1>7, <1>8, <1>9, <1>10 DEF Next, CallStep

\* Each unit is booked once and on the installation whose job used it, whatever
\* the threads do at the same time; only a failing Redis loses one.
THEOREM UnitsAreAttributed == Spec => []UnitsAttributed
<1>1. Init => BindingInv /\ BooksInv
  <2> SUFFICES ASSUME Init PROVE BindingInv /\ BooksInv
    OBVIOUS
  <2>1. BindingInv
    BY DEF Init, BindingInv, Free, NoCall
  <2>2. Failures = 0
    BY CostAssumptions DEF Init, Failures, Happenings
  <2>3. ASSUME NEW i \in Insts
        PROVE  IsFiniteSet(Units(tok[i])) /\ Total(tok[i]) = 0 /\ spent[i] = 0
    <3>1. \A k \in Keys : tok[i][k] = 0
      BY DEF Init
    <3>2. PICK f : f = tok[i]
      OBVIOUS
    <3>3. IsFiniteSet(Units(f)) /\ Total(f) = 0
      BY <3>1, <3>2, NoUnits
    <3>. QED
      BY <3>2, <3>3 DEF Init
  <2>. QED
    BY <2>1, <2>2, <2>3 DEF BooksInv
<1>2. BooksInv => UnitsAttributed
  BY DEF BooksInv, UnitsAttributed
<1>3. CostTypeOK /\ BindingInv /\ BooksInv /\ [Next]_vars => BindingInv' /\ BooksInv'
  BY NextBinding, NextBooks
<1>. QED
  BY <1>1, <1>2, <1>3, CostTypeCorrect, PTL DEF Spec
===============================================================================
