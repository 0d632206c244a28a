----------------------------- MODULE ThreadPool -----------------------------
(***************************************************************************)
(* lib/threads/ThreadPool: a caller that splits 0 .. n-1 into clusters and *)
(* hands them to workers through a flag per worker, without a lock.        *)
(*                                                                         *)
(* `has_work` is a std::atomic<bool> with the default (sequentially        *)
(* consistent) order, so the interleaving of single reads and writes below *)
(* is what the build can do; `f` is a plain std::function that only the    *)
(* protocol around has_work protects.  A closure is the pair of bounds it  *)
(* captured; `calls` counts the calls of the caller's function per index.  *)
(***************************************************************************)
EXTENDS Integers, FiniteSets

CONSTANTS
    NumWorkers,     \* threads.num; the workers are 1 .. NumWorkers
    MaxN,           \* bound: the largest n of a run
    Clusters,       \* the cluster sizes callers use
    MaxRuns,        \* bound: runs in one behaviour
    CreateFails     \* whether pthread_create may fail

ASSUME PoolAssumption ==
    /\ NumWorkers \in Nat \ {0}
    /\ MaxN \in Nat /\ MaxRuns \in Nat
    /\ Clusters \subseteq Nat \ {0}
    /\ CreateFails \in BOOLEAN

Workers == 1 .. NumWorkers
Indices == 0 .. MaxN - 1

VARIABLES
    running,        \* Thread::running of each worker
    has_work,       \* PoolWorkerThread::has_work
    f,              \* PoolWorkerThread::f: the bounds lo .. hi - 1 of a cluster
    wpc,            \* where each worker thread is; "none" before pthread_create
    wi,             \* the loop variable of the closure a worker executes
    mpc,            \* where the caller is
    n, cluster,     \* arguments of the run in progress
    i0,             \* first index not yet handed out
    t,              \* position of the caller's scan over `threads`
    any_running,    \* local of _end
    calls,          \* how often the function was called for each index
    runs            \* runs begun (bounded by MaxRuns)

poolVars == <<running, has_work, f, wpc, wi, mpc, n, cluster, i0, t, any_running, calls, runs>>

Closure == [lo : 0 .. MaxN, hi : 0 .. MaxN]
EmptyClosure == [lo |-> 0, hi |-> 0]
Smaller(x, y) == IF x < y THEN x ELSE y

TypeOK ==
    /\ running \in [Workers -> BOOLEAN]
    /\ has_work \in [Workers -> BOOLEAN]
    /\ f \in [Workers -> Closure]
    /\ wpc \in [Workers -> {"none", "check", "work", "clear", "sleep"}]
    /\ wi \in [Workers -> 0 .. MaxN]
    /\ mpc \in {"idle", "single", "begin", "emit", "write", "publish", "end", "gone"}
    /\ n \in 0 .. MaxN
    /\ cluster \in Clusters \cup {1}
    /\ i0 \in Nat
    /\ t \in Workers
    /\ any_running \in BOOLEAN
    /\ calls \in [Indices -> Nat]
    /\ runs \in Nat
-----------------------------------------------------------------------------
Init ==
    /\ running = [w \in Workers |-> FALSE]
    /\ has_work = [w \in Workers |-> FALSE]
    /\ f = [w \in Workers |-> EmptyClosure]
    /\ wpc = [w \in Workers |-> "none"]
    /\ wi = [w \in Workers |-> 0]
    /\ mpc = "idle"
    /\ n = 0 /\ cluster = 1 /\ i0 = 0
    /\ t = 1
    /\ any_running = FALSE
    /\ calls = [i \in Indices |-> 0]
    /\ runs = 0

workerVars == <<running, has_work, f, wpc, wi>>

(* ThreadPool::run: small jobs stay on the calling thread. *)
Run(k, c) ==
    /\ mpc = "idle" /\ runs < MaxRuns
    /\ n' = k /\ cluster' = c
    /\ i0' = 0
    /\ t' = 1
    /\ calls' = [i \in Indices |-> 0]
    /\ runs' = runs + 1
    /\ mpc' = IF k < c * 2 THEN "single" ELSE "begin"
    /\ UNCHANGED <<workerVars, any_running>>

(* One turn of the loop of _run_single_threaded, or its end. *)
SingleThreaded ==
    /\ mpc = "single"
    /\ IF i0 < n
       THEN /\ calls' = [calls EXCEPT ![i0] = @ + 1]
            /\ i0' = i0 + 1
            /\ UNCHANGED mpc
       ELSE /\ mpc' = "idle"
            /\ UNCHANGED <<calls, i0>>
    /\ UNCHANGED <<workerVars, n, cluster, t, any_running, runs>>

(* The scan over `threads` goes on, or is over. *)
Advance(done) ==
    IF t < NumWorkers THEN t' = t + 1 /\ UNCHANGED mpc ELSE t' = 1 /\ mpc' = done

(* _begin: threads that do not run are started; Thread::run sets running and
   takes it back when pthread_create fails. *)
Begin ==
    /\ mpc = "begin"
    /\ \/ /\ running[t]
          /\ UNCHANGED <<running, wpc>>
       \/ /\ ~running[t]
          /\ running' = [running EXCEPT ![t] = TRUE]
          /\ wpc' = [wpc EXCEPT ![t] = "check"]
       \/ /\ ~running[t] /\ CreateFails
          /\ UNCHANGED <<running, wpc>>
    /\ Advance("emit")
    /\ UNCHANGED <<has_work, f, wi, n, cluster, i0, any_running, calls, runs>>

(* Mutant: a worker is free as soon as nobody executes its closure. *)
Free_NotWorking(w) == wpc[w] # "work"

(* Mutant: every worker is taken for free. *)
Free_Always(w) == TRUE

(* The test _emit_cluster makes of a worker. *)
Free(w) == ~has_work[w]

(* _emit_cluster spins over the workers until one is free. *)
EmitScan ==
    /\ mpc = "emit"
    /\ IF Free(t)
       THEN mpc' = "write" /\ UNCHANGED t
       ELSE Advance("emit")
    /\ UNCHANGED <<workerVars, n, cluster, i0, any_running, calls, runs>>

(* Mutant: the last cluster is not cut off at n. *)
ClusterAt_Uncut(i) == [lo |-> i, hi |-> Smaller(MaxN, i + cluster)]

(* The bounds the closure of a cluster runs over. *)
ClusterAt(i) == [lo |-> i, hi |-> Smaller(n, i + cluster)]

(* t->f = f *)
EmitWrite ==
    /\ mpc = "write"
    /\ f' = [f EXCEPT ![t] = ClusterAt(i0)]
    /\ mpc' = "publish"
    /\ UNCHANGED <<running, has_work, wpc, wi, n, cluster, i0, t, any_running, calls, runs>>

(* t->has_work = true, and the loop of run goes on. *)
EmitPublish ==
    /\ mpc = "publish"
    /\ has_work' = [has_work EXCEPT ![t] = TRUE]
    /\ i0' = i0 + cluster
    /\ t' = 1
    /\ any_running' = FALSE
    /\ mpc' = IF i0 + cluster < n THEN "emit" ELSE "end"
    /\ UNCHANGED <<running, f, wpc, wi, n, cluster, calls, runs>>

(* Mutant: only the worker looked at last counts. *)
AnyRunning_Last == has_work[t]

(* Mutant: _end waits for the threads instead of their work. *)
AnyRunning_Thread == any_running \/ running[t]

AnyRunning == any_running \/ has_work[t]

(* _end: passes over all workers until one pass has seen none with work. *)
EndScan ==
    /\ mpc = "end"
    /\ IF t < NumWorkers
       THEN /\ any_running' = AnyRunning
            /\ t' = t + 1
            /\ UNCHANGED mpc
       ELSE /\ any_running' = FALSE
            /\ t' = 1
            /\ mpc' = IF AnyRunning THEN "end" ELSE "idle"
    /\ UNCHANGED <<workerVars, n, cluster, i0, calls, runs>>

(* ~ThreadPool: every worker is cancelled, which it notices at its next
   cancellation point, and joined. *)
Destroy ==
    /\ mpc = "idle"
    /\ \A w \in Workers : running[w] => wpc[w] = "sleep"
    /\ running' = [w \in Workers |-> FALSE]
    /\ wpc' = [w \in Workers |-> "none"]
    /\ mpc' = "gone"
    /\ UNCHANGED <<has_work, f, wi, n, cluster, i0, t, any_running, calls, runs>>

Caller ==
    SingleThreaded \/ Begin \/ EmitScan \/ EmitWrite \/ EmitPublish \/ EndScan
-----------------------------------------------------------------------------
callerVars == <<mpc, n, cluster, i0, t, any_running, runs>>

(* if (has_work) f(); the closure starts at its captured i0. *)
Check(w) ==
    /\ wpc[w] = "check"
    /\ IF has_work[w]
       THEN /\ wi' = [wi EXCEPT ![w] = f[w].lo]
            /\ wpc' = [wpc EXCEPT ![w] = "work"]
       ELSE /\ wpc' = [wpc EXCEPT ![w] = "sleep"]
            /\ UNCHANGED wi
    /\ UNCHANGED <<callerVars, running, has_work, f, calls>>

(* One turn of the closure's loop, or its end. *)
Work(w) ==
    /\ wpc[w] = "work"
    /\ IF wi[w] < f[w].hi
       THEN /\ calls' = [calls EXCEPT ![wi[w]] = @ + 1]
            /\ wi' = [wi EXCEPT ![w] = @ + 1]
            /\ UNCHANGED wpc
       ELSE /\ wpc' = [wpc EXCEPT ![w] = "clear"]
            /\ UNCHANGED <<calls, wi>>
    /\ UNCHANGED <<callerVars, running, has_work, f>>

(* has_work = false *)
Clear(w) ==
    /\ wpc[w] = "clear"
    /\ has_work' = [has_work EXCEPT ![w] = FALSE]
    /\ wpc' = [wpc EXCEPT ![w] = "sleep"]
    /\ UNCHANGED <<callerVars, running, f, wi, calls>>

(* cancelation_point and sleep_for *)
Sleep(w) ==
    /\ wpc[w] = "sleep"
    /\ wpc' = [wpc EXCEPT ![w] = "check"]
    /\ UNCHANGED <<callerVars, running, has_work, f, wi, calls>>

Worker(w) == Check(w) \/ Work(w) \/ Clear(w) \/ Sleep(w)

Next ==
    \/ \E k \in 0 .. MaxN, c \in Clusters : Run(k, c)
    \/ Destroy
    \/ Caller
    \/ \E w \in Workers : Worker(w)

Spec == Init /\ [][Next]_poolVars

(* Every thread keeps running; nobody has to call run or destroy the pool. *)
FairSpec ==
    /\ Spec
    /\ WF_poolVars(Caller)
    /\ \A w \in Workers : WF_poolVars(Worker(w))
-----------------------------------------------------------------------------
(* Indices of a cluster that was handed out and not yet processed. *)
Pending(w, i) ==
    /\ has_work[w]
    /\ f[w].lo <= i /\ i < f[w].hi
    /\ wpc[w] \in {"work", "clear"} => wi[w] <= i

Handing == {"emit", "write", "publish", "end"}

(* Why the hand-over works.  A flag that is set belongs to its worker and a
   closure below i0; closures in hand are disjoint; a flag that is not set
   belongs to the caller; and every index below i0 is either processed once or
   pending at exactly one worker. *)
HandOver ==
    /\ \A w \in Workers : wpc[w] \in {"work", "clear"} => has_work[w]
    /\ \A w \in Workers : has_work[w] =>
          /\ mpc \in Handing
          /\ f[w].lo <= f[w].hi /\ f[w].hi <= n /\ f[w].hi <= i0
          /\ wpc[w] = "work" => f[w].lo <= wi[w] /\ wi[w] <= f[w].hi
          /\ wpc[w] = "clear" => wi[w] = f[w].hi
    /\ \A v, w \in Workers : v # w /\ has_work[v] /\ has_work[w] =>
          f[v].hi <= f[w].lo \/ f[w].hi <= f[v].lo

CallerPlaces ==
    /\ mpc \in {"emit", "write", "publish"} => i0 < n
    /\ mpc \in {"write", "publish"} => ~has_work[t]
    /\ mpc = "publish" => f[t] = ClusterAt(i0)
    /\ mpc \in {"end", "idle", "gone"} => n <= i0
    /\ mpc = "end" /\ ~any_running => \A w \in 1 .. t - 1 : ~has_work[w]
    /\ mpc = "single" => i0 <= n
    /\ mpc = "begin" => i0 = 0 /\ i0 < n

(* Index i was handed out and its turn is over. *)
Due(i) ==
    /\ i < n /\ i < i0
    /\ \A w \in Workers : ~Pending(w, i)

Processed == \A i \in Indices : calls[i] = IF Due(i) THEN 1 ELSE 0

PoolInv == TypeOK /\ HandOver /\ CallerPlaces /\ Processed

InRun == mpc \notin {"idle", "gone"}
Remaining == {i \in 0 .. n - 1 : calls[i] = 0}

(* The lock-free hand-over implements the promise of ThreadPool::run: each
   index below n once, and a return only after the last of them. *)
Promise == INSTANCE ParallelFor WITH busy <- InRun, todo <- Remaining, MayStop <- FALSE
PoolRefinement == Promise!ForSafety

(* No index is ever processed twice, and none beyond n: a worker that still
   sees an old flag or an old closure would do that. *)
AtMostOnce ==
    \A i \in Indices : calls[i] <= (IF i < n THEN 1 ELSE 0)

(* run returns only when every index is processed and no worker holds work:
   what _end saw in separate reads of the flags is still true. *)
Barrier ==
    mpc = "idle" => /\ \A w \in Workers : ~has_work[w] /\ wpc[w] # "work"
                    /\ \A i \in Indices : i < n => calls[i] = 1

(* The closure of a worker never changes between the flag that announces it
   and the flag that gives the worker back: f is not atomic. *)
ClosureStable ==
    [][\A w \in Workers : has_work[w] \/ wpc[w] = "work" => f'[w] = f[w]]_poolVars

(* Every run returns, unless a worker could not be started: the caller waits
   for such a worker forever. *)
RunReturns == InRun ~> (mpc = "idle" \/ \E w \in Workers : ~running[w])
=============================================================================
