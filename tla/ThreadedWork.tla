---------------------------- MODULE ThreadedWork ----------------------------
(***************************************************************************)
(* lib/threads/ThreadedWork: threads that draw partitions of 0 .. total-1  *)
(* under a mutex, while the caller polls on_status and Thread::is_done.    *)
(*                                                                         *)
(* Thread::done is reset by the new thread itself (__thread_start_func),   *)
(* so between pthread_create and that write the caller still reads the     *)
(* value of the run before.                                                *)
(***************************************************************************)
EXTENDS Integers

CONSTANTS
    NumWorkers,     \* thread.num; the threads are 1 .. NumWorkers
    MaxN,           \* bound: the largest total_size
    Partitions,     \* the partition sizes callers use
    MaxRuns,        \* bound: runs in one behaviour
    Aborts,         \* whether on_status may ask to stop
    CreateFails     \* whether pthread_create may fail

ASSUME WorkAssumption ==
    /\ NumWorkers \in Nat \ {0}
    /\ MaxN \in Nat /\ MaxRuns \in Nat
    /\ Partitions \subseteq Nat \ {0}
    /\ Aborts \in BOOLEAN /\ CreateFails \in BOOLEAN

Threads == 1 .. NumWorkers
Indices == 0 .. MaxN - 1
Nobody == 0

VARIABLES
    total, partition,   \* arguments of the run in progress
    work_given,         \* indices drawn so far
    mutex,              \* the thread that holds mx_list, or Nobody
    running, done,      \* Thread::running and Thread::done
    cancelled,          \* pthread_cancel was called and has not taken effect
    pc,                 \* where each thread is; "none" if it does not exist
    first, num,         \* WorkerThread::first, num
    step,               \* the loop variable of on_run
    mpc,                \* where the caller is
    t,                  \* position of the caller's loops over `thread`
    all_done,           \* local of run
    result,             \* what run returned: "done", "aborted"
    calls,              \* how often on_step was called for each index
    missing,            \* history: a thread of the last run could not be started
    runs

callerVars == <<total, partition, running, mpc, t, all_done, result, missing, runs>>
vars == <<callerVars, work_given, mutex, done, cancelled, pc, first, num, step, calls>>

Smaller(x, y) == IF x < y THEN x ELSE y

TypeOK ==
    /\ total \in 0 .. MaxN /\ partition \in Partitions \cup {1}
    /\ work_given \in 0 .. MaxN
    /\ mutex \in Threads \cup {Nobody}
    /\ running \in [Threads -> BOOLEAN] /\ done \in [Threads -> BOOLEAN]
    /\ cancelled \in [Threads -> BOOLEAN]
    /\ pc \in [Threads -> {"none", "start", "lock", "draw", "unlock", "giveup", "work", "exit"}]
    /\ first \in [Threads -> 0 .. MaxN] /\ num \in [Threads -> 0 .. MaxN]
    /\ step \in [Threads -> 0 .. MaxN]
    /\ mpc \in {"idle", "launch", "status", "poll", "kill", "killing", "join"}
    /\ t \in Threads
    /\ all_done \in BOOLEAN
    /\ result \in {"none", "done", "aborted"}
    /\ calls \in [Indices -> Nat]
    /\ missing \in BOOLEAN
    /\ runs \in 0 .. MaxRuns
-----------------------------------------------------------------------------
Init ==
    /\ total = 0 /\ partition = 1 /\ work_given = 0
    /\ mutex = Nobody
    /\ running = [w \in Threads |-> FALSE] /\ done = [w \in Threads |-> FALSE]
    /\ cancelled = [w \in Threads |-> FALSE]
    /\ pc = [w \in Threads |-> "none"]
    /\ first = [w \in Threads |-> 0] /\ num = [w \in Threads |-> 0]
    /\ step = [w \in Threads |-> 0]
    /\ mpc = "idle" /\ t = 1 /\ all_done = FALSE /\ result = "none"
    /\ calls = [i \in Indices |-> 0]
    /\ missing = FALSE
    /\ runs = 0

(* ThreadedWork::run up to its first loop; work_given is written without the
   mutex, when no thread of the run exists. *)
Run(n, p) ==
    /\ mpc = "idle" /\ runs < MaxRuns
    /\ total' = n /\ partition' = p /\ work_given' = 0
    /\ mpc' = "launch" /\ t' = 1
    /\ all_done' = FALSE /\ result' = "none"
    /\ calls' = [i \in Indices |-> 0]
    /\ missing' = FALSE
    /\ runs' = runs + 1
    /\ UNCHANGED <<mutex, running, done, cancelled, pc, first, num, step>>

(* The loop over `thread` goes on, or is over. *)
Advance(over) ==
    IF t < NumWorkers THEN t' = t + 1 /\ UNCHANGED mpc ELSE t' = 1 /\ mpc' = over

(* thread[i]->run() *)
Launch ==
    /\ mpc = "launch"
    /\ \/ /\ running' = [running EXCEPT ![t] = TRUE]
          /\ pc' = [pc EXCEPT ![t] = "start"]
          /\ UNCHANGED missing
       \/ /\ CreateFails
          /\ running' = [running EXCEPT ![t] = FALSE]
          /\ missing' = TRUE
          /\ UNCHANGED pc
    /\ Advance("status")
    /\ UNCHANGED <<total, partition, all_done, result, runs, work_given, mutex, done,
                   cancelled, first, num, step, calls>>

(* thread_abort = !on_status(); all_done = true *)
Status ==
    /\ mpc = "status"
    /\ all_done' = TRUE
    /\ t' = 1
    /\ mpc' \in IF Aborts THEN {"poll", "kill"} ELSE {"poll"}
    /\ UNCHANGED <<total, partition, running, result, missing, runs, work_given, mutex, done,
                   cancelled, pc, first, num, step, calls>>

(* all_done &= thread[i]->is_done(); after the last one the loop is left when
   all were done. *)
Poll ==
    /\ mpc = "poll"
    /\ all_done' = (all_done /\ done[t])
    /\ Advance(IF all_done /\ done[t] THEN "join" ELSE "status")
    /\ UNCHANGED <<total, partition, running, result, missing, runs, work_given, mutex, done,
                   cancelled, pc, first, num, step, calls>>

(* Mutant: the threads are done, so nobody waits for them. *)
Join_TrustingDone ==
    /\ mpc = "join"
    /\ running' = [running EXCEPT ![t] = FALSE]
    /\ Advance("idle")
    /\ result' = IF t = NumWorkers THEN "done" ELSE result
    /\ UNCHANGED <<total, partition, all_done, missing, runs, work_given, mutex, done, cancelled,
                   pc, first, num, step, calls>>

(* Thread::join: waits for the end of a thread that runs. *)
Join ==
    /\ mpc = "join"
    /\ running[t] => pc[t] = "none"
    /\ running' = [running EXCEPT ![t] = FALSE]
    /\ Advance("idle")
    /\ result' = IF t = NumWorkers THEN "done" ELSE result
    /\ UNCHANGED <<total, partition, all_done, missing, runs, work_given, mutex, done, cancelled,
                   pc, first, num, step, calls>>

(* Thread::kill, first half: pthread_cancel. *)
Kill ==
    /\ mpc = "kill"
    /\ cancelled' = [cancelled EXCEPT ![t] = running[t] /\ pc[t] # "none"]
    /\ mpc' = "killing"
    /\ UNCHANGED <<total, partition, running, t, all_done, result, missing, runs, work_given, mutex,
                   done, pc, first, num, step, calls>>

(* Thread::kill, second half: pthread_join. *)
Killing ==
    /\ mpc = "killing"
    /\ running[t] => pc[t] = "none"
    /\ running' = [running EXCEPT ![t] = FALSE]
    /\ IF t < NumWorkers THEN t' = t + 1 /\ mpc' = "kill" ELSE t' = 1 /\ mpc' = "idle"
    /\ result' = IF t = NumWorkers THEN "aborted" ELSE result
    /\ UNCHANGED <<total, partition, all_done, missing, runs, work_given, mutex, done, cancelled,
                   pc, first, num, step, calls>>

Caller == Launch \/ Status \/ Poll \/ Join \/ Kill \/ Killing
-----------------------------------------------------------------------------
Goto(w, place) == pc' = [pc EXCEPT ![w] = place]

(* __thread_start_func: done = false *)
Begin(w) ==
    /\ pc[w] = "start" /\ Goto(w, "lock")
    /\ done' = [done EXCEPT ![w] = FALSE]
    /\ UNCHANGED <<callerVars, work_given, mutex, cancelled, first, num, step, calls>>

(* Mutant: schedule without its mutex. *)
Lock_Free(w) ==
    /\ pc[w] = "lock"
    /\ Goto(w, IF work_given >= total THEN "giveup" ELSE "draw")
    /\ first' = [first EXCEPT ![w] = work_given]
    /\ UNCHANGED <<callerVars, work_given, mutex, done, cancelled, num, step, calls>>

(* schedule: lock, and test whether work is left *)
Lock(w) ==
    /\ pc[w] = "lock" /\ mutex = Nobody
    /\ mutex' = w
    /\ Goto(w, IF work_given >= total THEN "giveup" ELSE "draw")
    /\ first' = [first EXCEPT ![w] = work_given]
    /\ UNCHANGED <<callerVars, work_given, done, cancelled, num, step, calls>>

(* How much work a thread draws. *)
Share == Smaller(total - work_given, partition)

(* schedule: num = ..., work_given += num *)
Draw(w) ==
    /\ pc[w] = "draw" /\ Goto(w, "unlock")
    /\ num' = [num EXCEPT ![w] = Share]
    /\ work_given' = work_given + Share
    /\ UNCHANGED <<callerVars, mutex, done, cancelled, first, step, calls>>

(* schedule: unlock, return true *)
Unlock(w) ==
    /\ pc[w] = "unlock" /\ Goto(w, "work")
    /\ mutex' = Nobody
    /\ step' = [step EXCEPT ![w] = 0]
    /\ UNCHANGED <<callerVars, work_given, done, cancelled, first, num, calls>>

(* Mutant: the early return keeps the mutex. *)
GiveUp_Locked(w) ==
    /\ pc[w] = "giveup" /\ Goto(w, "exit")
    /\ UNCHANGED <<callerVars, work_given, mutex, done, cancelled, first, num, step, calls>>

(* schedule: unlock, return false *)
GiveUp(w) ==
    /\ pc[w] = "giveup" /\ Goto(w, "exit")
    /\ mutex' = Nobody
    /\ UNCHANGED <<callerVars, work_given, done, cancelled, first, num, step, calls>>

(* One turn of on_run's inner loop, or its end. *)
OnStep(w) ==
    /\ pc[w] = "work"
    /\ IF step[w] < num[w]
       THEN /\ calls' = [calls EXCEPT ![first[w] + step[w]] = @ + 1]
            /\ step' = [step EXCEPT ![w] = @ + 1]
            /\ UNCHANGED pc
       ELSE /\ Goto(w, "lock")
            /\ UNCHANGED <<calls, step>>
    /\ UNCHANGED <<callerVars, work_given, mutex, done, cancelled, first, num>>

(* on_run has returned: done = true, and the thread is gone. *)
Finish(w) ==
    /\ pc[w] = "exit" /\ Goto(w, "none")
    /\ done' = [done EXCEPT ![w] = TRUE]
    /\ cancelled' = [cancelled EXCEPT ![w] = FALSE]
    /\ UNCHANGED <<callerVars, work_given, mutex, first, num, step, calls>>

(* Where a deferred cancellation can take effect: in on_step, the user's code.
   Locking a mutex is no cancellation point. *)
CancelPlaces == {"work"}

(* The cancelled thread ends; done keeps its value. *)
Die(w) ==
    /\ cancelled[w] /\ pc[w] \in CancelPlaces
    /\ Goto(w, "none")
    /\ cancelled' = [cancelled EXCEPT ![w] = FALSE]
    /\ UNCHANGED <<callerVars, work_given, mutex, done, first, num, step, calls>>

Worker(w) ==
    \/ Begin(w) \/ Lock(w) \/ Draw(w) \/ Unlock(w) \/ GiveUp(w)
    \/ OnStep(w) \/ Finish(w)

Next ==
    \/ \E n \in 0 .. MaxN, p \in Partitions : Run(n, p)
    \/ Caller
    \/ \E w \in Threads : Worker(w) \/ Die(w)

Spec == Init /\ [][Next]_vars

(* The scheduler lets every thread run on; the mutex need not be fair, the
   work that is left bounds how often a thread can overtake. *)
FairSpec ==
    /\ Spec
    /\ WF_vars(Caller)
    /\ \A w \in Threads : WF_vars(Worker(w))
-----------------------------------------------------------------------------
InRun == mpc # "idle"
Remaining ==
    IF result = "aborted" \/ (missing /\ ~InRun) THEN {} ELSE {i \in 0 .. total - 1 : calls[i] = 0}

(* The mutex is held by the thread that is inside of schedule. *)
MutexHeld ==
    /\ \A w \in Threads : pc[w] \in {"draw", "unlock", "giveup"} => mutex = w
    /\ mutex # Nobody => pc[mutex] \in {"draw", "unlock", "giveup"}

(* What holds where the caller is: which threads cannot exist, who may be
   cancelled, and what was written by then. *)
CallerPlaces ==
    /\ \A w \in Threads : pc[w] # "none" => running[w]
    /\ mpc = "idle" => \A w \in Threads : pc[w] = "none"
    /\ mpc = "launch" => \A w \in Threads : w >= t => pc[w] = "none"
    /\ mpc \in {"join", "kill", "killing"} => \A w \in Threads : w < t => pc[w] = "none"
    /\ \A w \in Threads : cancelled[w] => pc[w] # "none" /\ mpc \in {"kill", "killing"}
    /\ mpc \in {"kill", "killing"} => Aborts
    /\ missing => CreateFails
    /\ InRun => result = "none"
    /\ ~InRun /\ result = "none" => total = 0

(* What a thread drew is given away, and is within the total. *)
Drawn ==
    /\ work_given <= total
    /\ \A w \in Threads :
        /\ pc[w] = "draw" => first[w] = work_given /\ work_given < total
        /\ pc[w] \in {"unlock", "work"} => first[w] + num[w] <= work_given
        /\ pc[w] = "work" => step[w] <= num[w]

(* The indices thread w has drawn and not processed. *)
Holds(w, i) ==
    \/ pc[w] = "unlock" /\ first[w] <= i /\ i < first[w] + num[w]
    \/ pc[w] = "work" /\ first[w] + step[w] <= i /\ i < first[w] + num[w]

NobodyTwice ==
    \A v, w \in Threads : v # w => \A i \in Indices : ~(Holds(v, i) /\ Holds(w, i))

(* The run was not asked to stop. *)
Orderly == mpc \notin {"kill", "killing"} /\ result # "aborted"

(* An index is processed at most once; one that was given away and that no
   thread holds is processed, unless the run was asked to stop. *)
Due(i) == i < work_given /\ \A w \in Threads : ~Holds(w, i)
Processed ==
    \A i \in Indices :
        /\ calls[i] = 0 \/ (calls[i] = 1 /\ Due(i))
        /\ Orderly /\ Due(i) => calls[i] = 1

(* A thread ends when no work is left: so does one that is gone, if it was
   started and not cancelled. *)
Started(w) ==
    \/ mpc \in {"status", "poll", "join"}
    \/ mpc = "launch" /\ w < t
    \/ result = "done"
EndsWithoutWork ==
    \A w \in Threads :
        \/ pc[w] \in {"giveup", "exit"}
        \/ pc[w] = "none" /\ Started(w) /\ ~missing
        => work_given = total

(* The inductive invariant. *)
WorkInv ==
    /\ TypeOK /\ MutexHeld /\ CallerPlaces /\ Drawn
    /\ NobodyTwice /\ Processed /\ EndsWithoutWork

(* ThreadedWork keeps the promise of ThreadPool, to callers whose on_status
   does not stop it and as long as threads can be started. *)
Promise == INSTANCE ParallelFor WITH busy <- InRun, todo <- Remaining, MayStop <- Aborts \/ CreateFails
WorkRefinement == Promise!ForSafety

(* run returns true only when every index was processed exactly once, also
   when the caller saw `done` flags of an earlier run and left its loop early;
   but nobody looks whether the threads were started. *)
DoneMeansAll ==
    result = "done" /\ ~missing => \A i \in Indices : calls[i] = IF i < total THEN 1 ELSE 0

(* When run has returned, no thread of it is left and the mutex is free, so the
   next run can write work_given and lock: also after an abort, which cancels
   threads between two steps of their work. *)
QuietAfterRun ==
    ~InRun => mutex = Nobody /\ \A w \in Threads : pc[w] = "none"

(* get_done, which on_status may call without the mutex, never exceeds the
   total and is never below the number of indices processed; an abort does not
   let any index be processed twice. *)
DoneIsProgress ==
    /\ work_given <= total
    /\ \A i \in Indices : calls[i] <= (IF i < work_given THEN 1 ELSE 0)

(* Every run returns whose threads were started, if on_status keeps saying yes
   or not. *)
RunReturns == InRun ~> (~InRun \/ missing)
=============================================================================
