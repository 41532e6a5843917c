------------------------------ MODULE TenantCost ------------------------------
(***************************************************************************)
(* What an installation spends: CostCallback (observability/cost.py),      *)
(* TenantCostStore and the binding of an installation                      *)
(* (observability/cost_tenant.py) as the threads of one worker process use *)
(* them (queue/worker.py), the usage endpoint and the reset.               *)
(*                                                                         *)
(* The callback keeps what it learns at the start of a call in a table of  *)
(* the class, which all threads share and which is cut when it is too      *)
(* long.  The installation is found at the end of a call, in the context   *)
(* the call runs in.  A call uses one unit of tokens, or tells no usage.   *)
(***************************************************************************)
EXTENDS Integers, Sequences, FiniteSets, SequencesExt

CONSTANTS
    Threads,    \* worker threads of the process
    Jobs, Insts,
    InstOf,     \* the installation of a job, None for a personal token
    Calls,      \* the run_ids of calls to a model
    Models,
    Provider,   \* what the class of a model stands for, in _provider_from_metadata
    Catalog,    \* PRICE_CATALOG and the overrides: <<provider, model>> to price
    StashCap, StashDrop,   \* 1024 and 512
    Budget,     \* bound: how often each thing happens, and all of them
    None

Unknown == "unknown"
Happenings == {"redis", "reset", "crash", "any"}
Keys == {<<Provider[m], m>> : m \in Models} \cup {<<Unknown, Unknown>>}

ASSUME CostAssumptions ==
    /\ InstOf \in [Jobs -> Insts \cup {None}]
    /\ DOMAIN Provider = Models
    /\ Unknown \notin Models
    /\ IsFiniteSet(Calls) /\ None \notin Jobs /\ None \notin Insts
    /\ <<Unknown, Unknown>> \notin DOMAIN Catalog
    /\ \A k \in DOMAIN Catalog : Catalog[k] \in Nat
    /\ StashCap \in Nat /\ StashDrop \in 1..StashCap
    /\ Budget \in [Happenings -> Nat]

VARIABLES
    todo,       \* jobs nobody has taken yet
    worker,     \* each thread: its job, and what unbind_installation goes back to
    bound,      \* the context variable of each thread
    stash,      \* CostCallback._runs, oldest first
    call,       \* the calls
    usd, tok,   \* HASH cost:by_install:<iid> and cost:by_install:<iid>:tokens
    usage,      \* a GET .../cost under way
    spent,      \* history: units used for an installation since its last reset
    crowded,    \* history: more calls than StashCap have been open at a time
    left        \* what is left of the budget

vars == <<todo, worker, bound, stash, call, usd, tok, usage, spent, crowded, left>>
books == <<usd, tok, spent>>

-----------------------------------------------------------------------------

NoCall  == [pc |-> "new", job |-> None, model |-> None, ctx |-> None, key |-> None]
Over    == [NoCall EXCEPT !.pc = "over"]
NoUsage == [pc |-> "none", inst |-> None, usd |-> <<>>, reset |-> FALSE]
Free    == [pc |-> "free", job |-> None, saved |-> None]

Worker == [pc : {"free", "bound", "runs"}, job : Jobs \cup {None}, saved : Insts \cup {None}]
Call   == [pc : {"new", "trim", "cut", "open", "record", "over"}, job : Jobs \cup {None},
           model : Models \cup {None}, ctx : Insts \cup {None}, key : Keys \cup {None}]
Asking == [pc : {"tokens"}, inst : Insts, usd : [Keys -> Nat], reset : BOOLEAN]

\* What a call knows where it is.
Knows(c) ==
    /\ c.pc \in {"trim", "cut", "open", "record"} => c.job \in Jobs
    /\ c.pc \in {"trim", "cut", "open"} => c.model \in Models
    /\ c.pc = "record" => c.ctx \in Insts /\ c.key \in Keys

ThreadsTypeOK ==
    /\ todo \subseteq Jobs
    /\ worker \in [Threads -> Worker]
    /\ \A w \in Threads : worker[w].pc # "free" => worker[w].job \in Jobs
    /\ bound \in [Threads -> Insts \cup {None}]

CallsTypeOK ==
    /\ call \in [Calls -> Call]
    /\ \A c \in Calls : Knows(call[c])
    /\ stash \in Seq(Calls)
    /\ crowded \in BOOLEAN

BooksTypeOK ==
    /\ usd \in [Insts -> [Keys -> Nat]] /\ tok \in [Insts -> [Keys -> Nat]]
    /\ usage \in Asking \cup {NoUsage}
    /\ spent \in [Insts -> Nat]
    /\ left \in [Happenings -> Nat]

CostTypeOK == ThreadsTypeOK /\ CallsTypeOK /\ BooksTypeOK

Init ==
    /\ todo = Jobs
    /\ worker = [w \in Threads |-> Free]
    /\ bound = [w \in Threads |-> None]
    /\ stash = <<>>
    /\ call = [c \in Calls |-> NoCall]
    /\ usd = [i \in Insts |-> [k \in Keys |-> 0]]
    /\ tok = [i \in Insts |-> [k \in Keys |-> 0]]
    /\ usage = NoUsage
    /\ spent = [i \in Insts |-> 0]
    /\ crowded = FALSE
    /\ left = Budget

Spend(h) ==
    /\ left[h] > 0 /\ left["any"] > 0
    /\ left' = [left EXCEPT ![h] = @ - 1, !["any"] = @ - 1]

-----------------------------------------------------------------------------
(* Worker._process *)

TakeGlobal(w, j) ==
    /\ worker[w].pc = "free" /\ j \in todo
    /\ todo' = todo \ {j}
    /\ worker' = [worker EXCEPT ![w] = [pc |-> "bound", job |-> j, saved |-> bound[w]]]
    /\ bound' = [v \in Threads |-> InstOf[j]]
    /\ UNCHANGED <<stash, call, books, usage, crowded, left>>
Take(w, j) ==
    /\ worker[w].pc = "free" /\ j \in todo
    /\ todo' = todo \ {j}
    /\ worker' = [worker EXCEPT ![w] = [pc |-> "bound", job |-> j, saved |-> bound[w]]]
    /\ bound' = [bound EXCEPT ![w] = InstOf[j]]
    /\ UNCHANGED <<stash, call, books, usage, crowded, left>>

LockGot(w) ==
    /\ worker[w].pc = "bound"
    /\ worker' = [worker EXCEPT ![w].pc = "runs"]
    /\ UNCHANGED <<todo, bound, stash, call, books, usage, crowded, left>>

(* The early return for a busy repository leaves the installation bound. *)
LockBusy(w) ==
    /\ worker[w].pc = "bound"
    /\ todo' = todo \cup {worker[w].job}
    /\ worker' = [worker EXCEPT ![w] = Free]
    /\ UNCHANGED <<bound, stash, call, books, usage, crowded, left>>

(* The end of the finally clause.  The job is over, or it is queued again. *)
Finish(w) ==
    /\ worker[w].pc = "runs"
    /\ \/ UNCHANGED todo
       \/ todo' = todo \cup {worker[w].job}
    /\ bound' = [bound EXCEPT ![w] = worker[w].saved]
    /\ worker' = [worker EXCEPT ![w] = Free]
    /\ UNCHANGED <<stash, call, books, usage, crowded, left>>

-----------------------------------------------------------------------------
(* CostCallback.  A call runs in a copy of the context of the thread that
   starts it, and may go on when the job has failed. *)

Open(calls) == {c \in Calls : calls[c].pc \in {"trim", "cut", "open"}}

on_llm_start(w, c, m) ==
    /\ worker[w].pc = "runs" /\ call[c].pc = "new"
    /\ call' = [call EXCEPT ![c] = [pc |-> "trim", job |-> worker[w].job, model |-> m,
                                    ctx |-> bound[w], key |-> None]]
    /\ stash' = Append(stash, c)
    /\ crowded' = (crowded \/ Cardinality(Open(call')) > StashCap)
    /\ UNCHANGED <<todo, worker, bound, books, usage, left>>

(* The second half of _stash: the length is looked at, then the StashDrop
   oldest keys are listed and those that are still there taken out.  Other
   threads may come in between, with a list of the same keys. *)
Trim(c) ==
    /\ call[c].pc = "trim"
    /\ call' = [call EXCEPT ![c].pc = IF Len(stash) > StashCap THEN "cut" ELSE "open"]
    /\ UNCHANGED <<todo, worker, bound, stash, books, usage, crowded, left>>

Cut(c) ==
    /\ call[c].pc = "cut"
    /\ call' = [call EXCEPT ![c].pc = "open"]
    /\ \E n \in 0..StashDrop :
          /\ n <= Len(stash)
          /\ stash' = SubSeq(stash, n + 1, Len(stash))
    /\ UNCHANGED <<todo, worker, bound, books, usage, crowded, left>>

Stashed(c) == \E n \in 1..Len(stash) : stash[n] = c
pop(c) == stash' = IF Stashed(c) THEN RemoveAt(stash, CHOOSE n \in 1..Len(stash) : stash[n] = c)
                                 ELSE stash

(* _provider_from_metadata finds the provider in the name of the class, _pop
   gives "unknown" for a call that was cut off. *)
KeyOf(c) == IF Stashed(c) THEN <<Provider[call[c].model], call[c].model>> ELSE <<Unknown, Unknown>>

price_for(key) ==
    LET found == {key, <<key[1], "*">>} \cap DOMAIN Catalog
    IN  IF found = {} THEN 0
        ELSE Catalog[IF key \in found THEN key ELSE <<key[1], "*">>]

(* The unit is used by the job that made the call, whatever is bound. *)
Used(c) ==
    LET i == InstOf[call[c].job]
    IN  spent' = IF i = None THEN spent ELSE [spent EXCEPT ![i] = @ + 1]

(* on_llm_end, up to the record: a call that tells no usage ends here, and so
   does one without an installation. *)
on_llm_end(c) ==
    /\ call[c].pc = "open"
    /\ pop(c)
    /\ \/ /\ call' = [call EXCEPT ![c] = Over]
          /\ UNCHANGED spent
       \/ /\ call[c].ctx # None
          /\ call' = [call EXCEPT ![c].pc = "record", ![c].key = KeyOf(c)]
          /\ UNCHANGED spent
       \/ /\ call[c].ctx = None
          /\ call' = [call EXCEPT ![c] = Over]
          /\ Used(c)
    /\ UNCHANGED <<todo, worker, bound, usd, tok, usage, crowded, left>>

on_llm_errorKept(c) ==
    /\ call[c].pc = "open"
    /\ UNCHANGED stash
    /\ call' = [call EXCEPT ![c] = Over]
    /\ UNCHANGED <<todo, worker, bound, books, usage, crowded, left>>
on_llm_error(c) ==
    /\ call[c].pc = "open"
    /\ pop(c)
    /\ call' = [call EXCEPT ![c] = Over]
    /\ UNCHANGED <<todo, worker, bound, books, usage, crowded, left>>

(* TenantCostStore.record: one transaction. *)
record(c) ==
    /\ call[c].pc = "record"
    /\ call' = [call EXCEPT ![c] = Over]
    /\ tok' = [tok EXCEPT ![call[c].ctx][call[c].key] = @ + 1]
    /\ usd' = [usd EXCEPT ![call[c].ctx][call[c].key] = @ + price_for(call[c].key)]
    /\ Used(c)
    /\ UNCHANGED <<todo, worker, bound, stash, usage, crowded, left>>

(* A RedisError is logged. *)
RecordFails(c) ==
    /\ call[c].pc = "record"
    /\ Spend("redis")
    /\ call' = [call EXCEPT ![c] = Over]
    /\ Used(c)
    /\ UNCHANGED <<todo, worker, bound, stash, usd, tok, usage, crowded>>

-----------------------------------------------------------------------------
(* Readers, administrators, crashes *)

resetTokens(i) ==
    /\ Spend("reset")
    /\ tok' = [tok EXCEPT ![i] = [k \in Keys |-> 0]]
    /\ spent' = [spent EXCEPT ![i] = 0]
    /\ usage' = IF usage.inst = i THEN [usage EXCEPT !.reset = TRUE] ELSE usage
    /\ UNCHANGED <<todo, worker, bound, stash, call, usd, crowded>>
reset(i) ==
    /\ Spend("reset")
    /\ usd' = [usd EXCEPT ![i] = [k \in Keys |-> 0]]
    /\ tok' = [tok EXCEPT ![i] = [k \in Keys |-> 0]]
    /\ spent' = [spent EXCEPT ![i] = 0]
    /\ usage' = IF usage.inst = i THEN [usage EXCEPT !.reset = TRUE] ELSE usage
    /\ UNCHANGED <<todo, worker, bound, stash, call, crowded>>

(* usage reads one hash and then the other; the answer is what it found first
   with the tokens of this moment. *)
UsageUsd(i) ==
    /\ usage.pc = "none"
    /\ usage' = [pc |-> "tokens", inst |-> i, usd |-> usd[i], reset |-> FALSE]
    /\ UNCHANGED <<todo, worker, bound, stash, call, books, crowded, left>>

UsageTokens ==
    /\ usage.pc = "tokens"
    /\ usage' = NoUsage
    /\ UNCHANGED <<todo, worker, bound, stash, call, books, crowded, left>>

(* The process dies: its jobs go back to the queue (JobQueue), its calls and
   the stash are gone. *)
Crash ==
    /\ Spend("crash")
    /\ todo' = todo \cup {worker[w].job : w \in {v \in Threads : worker[v].pc # "free"}}
    /\ worker' = [w \in Threads |-> Free]
    /\ bound' = [w \in Threads |-> None]
    /\ stash' = <<>>
    /\ call' = [c \in Calls |-> IF call[c].pc = "new" THEN NoCall ELSE Over]
    /\ UNCHANGED <<books, usage, crowded>>

ThreadStep(w) ==
    \/ \E j \in Jobs : Take(w, j)
    \/ LockGot(w) \/ LockBusy(w) \/ Finish(w)
    \/ \E c \in Calls, m \in Models : on_llm_start(w, c, m)

CallStep(c) ==
    \/ Trim(c) \/ Cut(c)
    \/ on_llm_end(c) \/ on_llm_error(c) \/ record(c) \/ RecordFails(c)

Next ==
    \/ \E w \in Threads : ThreadStep(w)
    \/ \E c \in Calls : CallStep(c)
    \/ \E i \in Insts : reset(i) \/ UsageUsd(i)
    \/ UsageTokens
    \/ Crash

Spec == Init /\ [][Next]_vars

-----------------------------------------------------------------------------
(* Properties *)

(* The units in a hash, numbered under their key, and how many there are. *)
Units(hash) == UNION {{k} \X (1..hash[k]) : k \in Keys}
Total(hash) == Cardinality(Units(hash))
Failures == Budget["redis"] - left["redis"]

(* Each unit is booked once and on the installation whose job used it, whatever
   the threads do at the same time and whatever earlier jobs of the thread have
   left bound; only a failing Redis loses one. *)
UnitsAttributed ==
    \A i \in Insts : Total(tok[i]) <= spent[i] /\ spent[i] <= Total(tok[i]) + Failures

(* A call loses its model, and with it its price, only if more calls were open
   at a time than the table may have: what is over does not count. *)
KnownBelowCap ==
    (\E i \in Insts : tok[i][<<Unknown, Unknown>>] > 0) => crowded

(* The answer of the usage endpoint never shows more money than its tokens
   cost, unless the installation is reset while it reads. *)
UsageCoherent ==
    usage.pc = "tokens" /\ ~usage.reset =>
        \A k \in Keys : usage.usd[k] <= price_for(k) * tok[usage.inst][k]

=============================================================================
