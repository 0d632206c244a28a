------------------------- MODULE ThreadedWorkProofs -------------------------
(***************************************************************************)
(* Proofs about ThreadedWork, for any number of threads, any total, any    *)
(* partition sizes, with and without aborts and failing pthread_create.    *)
(***************************************************************************)
EXTENDS ThreadedWork, TLAPS

Places == {"none", "start", "lock", "draw", "unlock", "giveup", "work", "exit"}

(* The numbers of a state, with their types at hand. *)
LEMMA Numbers ==
    ASSUME TypeOK
    PROVE  /\ total \in Nat /\ work_given \in Nat /\ MaxN \in Nat /\ total <= MaxN
           /\ partition \in Nat /\ partition >= 1
           /\ \A w \in Threads : first[w] \in Nat /\ num[w] \in Nat /\ step[w] \in Nat /\ w \in Nat
           /\ t \in Threads /\ t \in Nat /\ t <= NumWorkers /\ NumWorkers \in Nat
           /\ \A i \in Indices : i \in Nat
           /\ Nobody \notin Threads
  BY WorkAssumption DEF TypeOK, Threads, Indices, Nobody

(* The share of a thread that draws is part of the work that is left. *)
LEMMA ShareFits ==
    ASSUME TypeOK, work_given < total
    PROVE  Share \in Nat /\ Share >= 1 /\ work_given + Share <= total /\ Share <= MaxN
<1>1. /\ total \in Nat /\ work_given \in Nat /\ MaxN \in Nat /\ total <= MaxN
      /\ partition \in Nat /\ partition >= 1
  BY Numbers
<1> QED BY <1>1 DEF Share, Smaller

LEMMA WorkInit == Init => WorkInv
<1> SUFFICES ASSUME Init PROVE WorkInv
  OBVIOUS
<1> USE WorkAssumption DEF Init
<1>1. TypeOK
  <2>1. 1 \in Threads /\ 0 \in 0 .. MaxN /\ 0 \in 0 .. MaxRuns
    BY DEF Threads
  <2>2. calls \in [Indices -> Nat] /\ partition \in Partitions \cup {1}
    OBVIOUS
  <2>3. /\ running \in [Threads -> BOOLEAN] /\ done \in [Threads -> BOOLEAN]
        /\ cancelled \in [Threads -> BOOLEAN] /\ pc \in [Threads -> Places]
    BY DEF Places
  <2>4. /\ first \in [Threads -> 0 .. MaxN] /\ num \in [Threads -> 0 .. MaxN]
        /\ step \in [Threads -> 0 .. MaxN]
    BY <2>1
  <2> QED BY <2>1, <2>2, <2>3, <2>4 DEF TypeOK, Places
<1>2. MutexHeld
  BY DEF MutexHeld
<1>3. CallerPlaces
  BY DEF CallerPlaces, InRun
<1>4. Drawn
  BY DEF Drawn
<1>5. \A w \in Threads, i \in Indices : ~Holds(w, i)
  BY DEF Holds
<1>6. NobodyTwice
  BY <1>5 DEF NobodyTwice
<1>7. Processed
  BY DEF Processed, Due, Indices
<1>8. EndsWithoutWork
  BY DEF EndsWithoutWork, Started
<1> QED BY <1>1, <1>2, <1>3, <1>4, <1>6, <1>7, <1>8 DEF WorkInv

(* Types. *)
LEMMA WorkType == WorkInv /\ [Next]_vars => TypeOK'
<1> SUFFICES ASSUME WorkInv, [Next]_vars PROVE TypeOK'
  OBVIOUS
<1> USE WorkAssumption DEF WorkInv, TypeOK
<1>0. /\ total \in Nat /\ work_given \in Nat /\ MaxN \in Nat /\ total <= MaxN
      /\ \A w \in Threads : first[w] \in Nat /\ num[w] \in Nat /\ step[w] \in Nat
      /\ t \in Nat /\ t <= NumWorkers /\ NumWorkers \in Nat
  BY Numbers
<1>1. ASSUME NEW n \in 0 .. MaxN, NEW p \in Partitions, Run(n, p) PROVE TypeOK'
  <2>1. calls' \in [Indices -> Nat] /\ t' \in Threads
    BY <1>1 DEF Run, Threads
  <2>2. runs' \in 0 .. MaxRuns /\ work_given' \in 0 .. MaxN
    BY <1>1 DEF Run
  <2>3. /\ total' \in 0 .. MaxN /\ partition' \in Partitions \cup {1}
        /\ mpc' = "launch" /\ result' = "none" /\ all_done' = FALSE /\ missing' = FALSE
        /\ UNCHANGED <<mutex, running, done, cancelled, pc, first, num, step>>
    BY <1>1 DEF Run
  <2> QED BY <2>1, <2>2, <2>3
<1>2. CASE Launch
  <2>1. t' \in Threads /\ mpc' \in {"launch", "status"}
    BY <1>0, <1>2, SMTT(40) DEF Launch, Advance, Threads
  <2>2. /\ running' \in [Threads -> BOOLEAN] /\ pc' \in [Threads -> Places]
        /\ missing' \in BOOLEAN
    BY <1>2 DEF Launch, Places
  <2> QED BY <1>2, <2>1, <2>2 DEF Launch, Places
<1>3. CASE Status
  BY <1>3 DEF Status, Threads
<1>4. CASE Poll
  <2>1. all_done' \in BOOLEAN
    BY <1>4, Zenon DEF Poll
  <2>2. t' \in Threads
    BY <1>0, <1>4, SMTT(40) DEF Poll, Advance, Threads
  <2>3. mpc' \in {"poll", "join", "status"}
    BY <1>4 DEF Poll, Advance
  <2> QED BY <1>4, <2>1, <2>2, <2>3 DEF Poll
<1>5. CASE Join
  BY <1>0, <1>5, SMTT(40) DEF Join, Advance, Threads
<1>6. CASE Kill
  BY <1>6 DEF Kill
<1>7. CASE Killing
  <2>1. t' \in Threads /\ mpc' \in {"kill", "idle"} /\ running' \in [Threads -> BOOLEAN]
    BY <1>0, <1>7, SMTT(40) DEF Killing, Threads
  <2> QED BY <1>7, <2>1 DEF Killing
<1>8. ASSUME NEW w \in Threads, Begin(w) PROVE TypeOK'
  BY <1>8 DEF Begin, Goto, callerVars
<1>9. ASSUME NEW w \in Threads, Lock(w) PROVE TypeOK'
  BY <1>9 DEF Lock, Goto, callerVars
<1>10. ASSUME NEW w \in Threads, Draw(w) PROVE TypeOK'
  <2>1. Share \in 0 .. MaxN /\ work_given + Share \in 0 .. MaxN
    BY <1>0, <1>10, ShareFits DEF Draw, Drawn
  <2> QED BY <1>10, <2>1 DEF Draw, Goto, callerVars
<1>11. ASSUME NEW w \in Threads, Unlock(w) PROVE TypeOK'
  BY <1>11 DEF Unlock, Goto, callerVars
<1>12. ASSUME NEW w \in Threads, GiveUp(w) PROVE TypeOK'
  BY <1>12 DEF GiveUp, Goto, callerVars
<1>13. ASSUME NEW w \in Threads, OnStep(w) PROVE TypeOK'
  <2>1. CASE step[w] < num[w]
    <3> PICK k \in Nat, s \in Nat, m \in 0 .. MaxN : k = first[w] /\ s = step[w] /\ m = num[w]
      BY <1>0
    <3>1. first[w] + step[w] \in Indices /\ step[w] + 1 \in 0 .. MaxN
      <4>1. k + m <= work_given /\ work_given <= total /\ s < m
        BY <1>13, <2>1 DEF OnStep, Drawn
      <4>2. k + s \in 0 .. MaxN - 1 /\ s + 1 \in 0 .. MaxN
        BY <1>0, <4>1
      <4> QED BY <4>2 DEF Indices
    <3>2. calls' \in [Indices -> Nat] /\ step' \in [Threads -> 0 .. MaxN]
      BY <1>13, <2>1, <3>1 DEF OnStep
    <3> QED BY <1>13, <2>1, <3>2 DEF OnStep, callerVars
  <2>2. CASE ~(step[w] < num[w])
    BY <1>13, <2>2 DEF OnStep, Goto, callerVars
  <2> QED BY <2>1, <2>2
<1>14. ASSUME NEW w \in Threads, Finish(w) PROVE TypeOK'
  BY <1>14 DEF Finish, Goto, callerVars
<1>15. ASSUME NEW w \in Threads, Die(w) PROVE TypeOK'
  BY <1>15 DEF Die, Goto, callerVars
<1>16. CASE UNCHANGED vars
  BY <1>16 DEF vars, callerVars
<1> QED
  BY <1>1, <1>2, <1>3, <1>4, <1>5, <1>6, <1>7, <1>8, <1>9, <1>10, <1>11, <1>12, <1>13,
     <1>14, <1>15, <1>16
  DEF Next, Caller, Worker

(* Mutual exclusion: only the thread inside of schedule holds the mutex. *)
LEMMA WorkMutex == WorkInv /\ [Next]_vars => MutexHeld'
<1> SUFFICES ASSUME WorkInv, [Next]_vars PROVE MutexHeld'
  OBVIOUS
<1> USE WorkAssumption DEF WorkInv, MutexHeld
<1>0. /\ pc \in [Threads -> Places] /\ Nobody \notin Threads /\ mutex \in Threads \cup {Nobody}
  BY Numbers DEF TypeOK, Places
<1>1. ASSUME NEW n \in 0 .. MaxN, NEW p \in Partitions, Run(n, p) PROVE MutexHeld'
  BY <1>1 DEF Run
<1>2. CASE Launch
  <2>1. mutex' = mutex /\ pc[t] = "none" /\ t \in Threads
    BY <1>2, Numbers DEF Launch, CallerPlaces
  <2>2. \/ pc' = pc
        \/ pc' = [pc EXCEPT ![t] = "start"]
    BY <1>2 DEF Launch
  <2> QED BY <1>0, <2>1, <2>2
<1>3. CASE Status \/ Poll \/ Join \/ Kill \/ Killing
  BY <1>3 DEF Status, Poll, Join, Kill, Killing
<1>4. ASSUME NEW w \in Threads, Worker(w) \/ Die(w) PROVE MutexHeld'
  <2>1. \A v \in Threads : v # w => pc'[v] = pc[v]
    BY <1>0, <1>4 DEF Worker, Begin, Lock, Draw, Unlock, GiveUp, OnStep, Finish, Die, Goto
  <2>2. CASE Begin(w) \/ OnStep(w) \/ Finish(w) \/ Die(w)
    <3>1. /\ mutex' = mutex
          /\ pc[w] \in {"start", "work", "exit"} /\ pc'[w] \in {"lock", "work", "none"}
      BY <1>0, <2>2 DEF Begin, OnStep, Finish, Die, Goto, CancelPlaces
    <3> QED BY <1>0, <2>1, <3>1
  <2>3. CASE Lock(w)
    <3>1. mutex = Nobody /\ mutex' = w /\ pc'[w] \in {"draw", "giveup"}
      BY <1>0, <2>3 DEF Lock, Goto
    <3>2. \A v \in Threads : pc[v] \notin {"draw", "unlock", "giveup"}
      BY <1>0, <3>1
    <3> QED BY <1>0, <2>1, <3>1, <3>2
  <2>4. CASE Draw(w)
    <3>1. mutex' = mutex /\ pc[w] = "draw" /\ pc'[w] = "unlock"
      BY <1>0, <2>4 DEF Draw, Goto
    <3> QED BY <1>0, <2>1, <3>1
  <2>5. CASE Unlock(w) \/ GiveUp(w)
    <3>1. /\ mutex' = Nobody /\ pc[w] \in {"unlock", "giveup"} /\ pc'[w] \in {"work", "exit"}
      BY <1>0, <2>5 DEF Unlock, GiveUp, Goto
    <3>2. \A v \in Threads : v # w => pc[v] \notin {"draw", "unlock", "giveup"}
      BY <1>0, <3>1
    <3> QED BY <1>0, <2>1, <3>1, <3>2
  <2> QED BY <1>4, <2>2, <2>3, <2>4, <2>5 DEF Worker
<1>5. CASE UNCHANGED vars
  BY <1>5 DEF vars
<1> QED BY <1>1, <1>2, <1>3, <1>4, <1>5 DEF Next, Caller

(* Where the caller is, and which threads can exist then. *)
LEMMA WorkCaller == WorkInv /\ [Next]_vars => CallerPlaces'
<1> SUFFICES ASSUME WorkInv, [Next]_vars PROVE CallerPlaces'
  OBVIOUS
<1> USE WorkAssumption DEF WorkInv, CallerPlaces, InRun
<1>0. /\ pc \in [Threads -> Places] /\ running \in [Threads -> BOOLEAN]
      /\ cancelled \in [Threads -> BOOLEAN]
      /\ t \in Threads /\ t \in Nat /\ t <= NumWorkers /\ NumWorkers \in Nat
      /\ \A w \in Threads : w \in Nat /\ w <= NumWorkers /\ w >= 1
  <2>1. \A w \in Threads : w \in Nat /\ w <= NumWorkers /\ w >= 1
    BY DEF Threads
  <2> QED BY <2>1, Numbers DEF TypeOK, Places
<1>1. ASSUME NEW n \in 0 .. MaxN, NEW p \in Partitions, Run(n, p) PROVE CallerPlaces'
  BY <1>1 DEF Run
<1>2. CASE Launch
  <2>1. /\ \A w \in Threads : w # t => pc'[w] = pc[w] /\ running'[w] = running[w]
        /\ pc[t] = "none" /\ pc'[t] \in {"none", "start"}
        /\ pc'[t] = "start" => running'[t]
        /\ \A w \in Threads : ~cancelled[w]
        /\ missing' => CreateFails
    BY <1>0, <1>2 DEF Launch
  <2>2. \/ mpc' = "launch" /\ t' = t + 1
        \/ mpc' = "status" /\ t' = 1
    BY <1>0, <1>2 DEF Launch, Advance
  <2>3. \A w \in Threads : w >= t + 1 => pc'[w] = "none"
    BY <1>0, <1>2, <2>1 DEF Launch
  <2> QED BY <1>0, <1>2, <2>1, <2>2, <2>3 DEF Launch
<1>3. CASE Status
  <2>1. mpc' \in {"poll", "kill"} /\ (mpc' = "kill" => Aborts) /\ t' = 1
    BY <1>3 DEF Status
  <2> QED BY <1>0, <1>3, <2>1 DEF Status
<1>4. CASE Poll
  <2>1. \/ mpc' = "poll"
        \/ mpc' \in {"join", "status"} /\ t' = 1
    BY <1>0, <1>4 DEF Poll, Advance
  <2> QED BY <1>0, <1>4, <2>1 DEF Poll
<1>5. CASE Join
  <2>1. pc[t] = "none"
    BY <1>0, <1>5 DEF Join
  <2>2. \A w \in Threads : w < t + 1 => pc[w] = "none"
    BY <1>0, <1>5, <2>1 DEF Join
  <2>3. /\ pc' = pc /\ cancelled' = cancelled /\ missing' = missing /\ total' = total
        /\ \A w \in Threads : w # t => running'[w] = running[w]
    BY <1>0, <1>5 DEF Join
  <2>4. CASE t < NumWorkers
    <3>1. mpc' = "join" /\ t' = t + 1 /\ result' = result /\ mpc = "join"
      BY <1>0, <1>5, <2>4 DEF Join, Advance
    <3> QED BY <1>0, <2>1, <2>2, <2>3, <3>1
  <2>5. CASE ~(t < NumWorkers)
    <3>1. mpc' = "idle" /\ result' = "done" /\ mpc = "join"
      BY <1>0, <1>5, <2>5 DEF Join, Advance
    <3>2. \A w \in Threads : w < t + 1
      BY <1>0, <2>5
    <3> QED BY <1>0, <2>1, <2>2, <2>3, <3>1, <3>2
  <2> QED BY <2>4, <2>5
<1>6. CASE Kill
  BY <1>0, <1>6 DEF Kill
<1>7. CASE Killing
  <2>1. pc[t] = "none"
    BY <1>0, <1>7 DEF Killing
  <2>2. \A w \in Threads : w < t + 1 => pc[w] = "none"
    BY <1>0, <1>7, <2>1 DEF Killing
  <2>3. /\ pc' = pc /\ cancelled' = cancelled /\ missing' = missing /\ total' = total
        /\ \A w \in Threads : w # t => running'[w] = running[w]
    BY <1>0, <1>7 DEF Killing
  <2>4. CASE t < NumWorkers
    <3>1. mpc' = "kill" /\ t' = t + 1 /\ result' = result /\ mpc = "killing"
      BY <1>0, <1>7, <2>4 DEF Killing
    <3> QED BY <1>0, <2>1, <2>2, <2>3, <3>1
  <2>5. CASE ~(t < NumWorkers)
    <3>1. mpc' = "idle" /\ result' = "aborted" /\ mpc = "killing"
      BY <1>0, <1>7, <2>5 DEF Killing
    <3>2. \A w \in Threads : w < t + 1
      BY <1>0, <2>5
    <3> QED BY <1>0, <2>1, <2>2, <2>3, <3>1, <3>2
  <2> QED BY <2>4, <2>5
<1>8. ASSUME NEW w \in Threads, Worker(w) \/ Die(w) PROVE CallerPlaces'
  <2>1. /\ mpc' = mpc /\ t' = t /\ running' = running /\ result' = result
        /\ missing' = missing /\ total' = total
    BY <1>8 DEF Worker, Begin, Lock, Draw, Unlock, GiveUp, OnStep, Finish, Die, callerVars
  <2>2. /\ pc[w] # "none"
        /\ \A v \in Threads : v # w => pc'[v] = pc[v] /\ cancelled'[v] = cancelled[v]
        /\ cancelled'[w] => cancelled[w] /\ pc'[w] # "none"
    <3>1. CASE Begin(w) \/ Lock(w) \/ Draw(w) \/ Unlock(w) \/ GiveUp(w) \/ OnStep(w)
      BY <1>0, <3>1 DEF Begin, Lock, Draw, Unlock, GiveUp, OnStep, Goto
    <3>2. CASE Finish(w) \/ Die(w)
      BY <1>0, <3>2 DEF Finish, Die, Goto, CancelPlaces
    <3> QED BY <1>8, <3>1, <3>2 DEF Worker
  <2>3. /\ mpc # "idle"
        /\ mpc = "launch" => ~(w >= t)
        /\ mpc \in {"join", "kill", "killing"} => ~(w < t)
        /\ running[w]
    BY <2>2
  <2> QED BY <1>0, <2>1, <2>2, <2>3
<1>9. CASE UNCHANGED vars
  BY <1>9 DEF vars, callerVars
<1> QED
  BY <1>1, <1>2, <1>3, <1>4, <1>5, <1>6, <1>7, <1>8, <1>9 DEF Next, Caller

(* While no thread exists, none holds an index. *)
LEMMA NoThreadNoHolder ==
    ASSUME \A w \in Threads : pc[w] = "none"
    PROVE  \A w \in Threads, i \in Indices : ~Holds(w, i)
  BY DEF Holds

(* What the steps of the caller leave alone: nothing that is drawn or held. *)
LEMMA CallerKeepsWork ==
    ASSUME WorkInv, Caller
    PROVE  /\ total' = total /\ work_given' = work_given /\ calls' = calls
           /\ first' = first /\ num' = num /\ step' = step
           /\ \A w \in Threads : pc'[w] = pc[w] \/ (pc[w] = "none" /\ pc'[w] = "start")
           /\ \A w \in Threads, i \in Indices : Holds(w, i)' <=> Holds(w, i)
<1>1. /\ total' = total /\ work_given' = work_given /\ calls' = calls
      /\ first' = first /\ num' = num /\ step' = step
  BY DEF Caller, Launch, Status, Poll, Join, Kill, Killing
<1>2. \A w \in Threads : pc'[w] = pc[w] \/ (pc[w] = "none" /\ pc'[w] = "start")
  <2>1. CASE Launch
    <3>1. pc[t] = "none" /\ pc \in [Threads -> Places] /\ t \in Threads
      BY <2>1, Numbers DEF Launch, WorkInv, CallerPlaces, TypeOK, Places
    <3> QED BY <2>1, <3>1 DEF Launch
  <2>2. CASE ~Launch
    BY <2>2 DEF Caller, Status, Poll, Join, Kill, Killing
  <2> QED BY <2>1, <2>2
<1>3. \A w \in Threads, i \in Indices : Holds(w, i)' <=> Holds(w, i)
  BY <1>1, <1>2 DEF Holds
<1> QED BY <1>1, <1>2, <1>3

(* What a thread draws stays within what was given away and the total. *)
LEMMA WorkDrawn == WorkInv /\ [Next]_vars => Drawn'
<1> SUFFICES ASSUME WorkInv, [Next]_vars PROVE Drawn'
  OBVIOUS
<1> USE WorkAssumption DEF WorkInv
<1>0. /\ pc \in [Threads -> Places] /\ first \in [Threads -> 0 .. MaxN]
      /\ num \in [Threads -> 0 .. MaxN] /\ step \in [Threads -> 0 .. MaxN]
      /\ total \in Nat /\ work_given \in Nat /\ MaxN \in Nat
      /\ \A w \in Threads : first[w] \in Nat /\ num[w] \in Nat /\ step[w] \in Nat
  BY Numbers DEF TypeOK, Places
<1>1. ASSUME NEW n \in 0 .. MaxN, NEW p \in Partitions, Run(n, p) PROVE Drawn'
  <2>1. \A w \in Threads : pc'[w] = "none"
    BY <1>1 DEF Run, CallerPlaces
  <2> QED BY <1>1, <2>1 DEF Run, Drawn
<1>2. CASE Caller
  BY <1>2, CallerKeepsWork DEF Drawn
<1>3. ASSUME NEW w \in Threads, Worker(w) \/ Die(w) PROVE Drawn'
  <2>1. /\ total' = total
        /\ \A v \in Threads : v # w => /\ pc'[v] = pc[v] /\ first'[v] = first[v]
                                       /\ num'[v] = num[v] /\ step'[v] = step[v]
    BY <1>0, <1>3 DEF Worker, Begin, Lock, Draw, Unlock, GiveUp, OnStep, Finish, Die, Goto, callerVars
  <2>2. CASE Begin(w) \/ GiveUp(w) \/ Finish(w) \/ Die(w)
    <3>1. work_given' = work_given /\ pc'[w] \in {"lock", "exit", "none"}
      BY <1>0, <2>2 DEF Begin, GiveUp, Finish, Die, Goto
    <3> QED BY <2>1, <3>1 DEF Drawn
  <2>3. CASE Lock(w)
    <3>1. /\ work_given' = work_given /\ first'[w] = work_given
          /\ pc'[w] = IF work_given >= total THEN "giveup" ELSE "draw"
      BY <1>0, <2>3 DEF Lock, Goto
    <3> QED BY <1>0, <2>1, <3>1 DEF Drawn
  <2>4. CASE Draw(w)
    <3>1. /\ work_given' = work_given + Share /\ num'[w] = Share /\ first'[w] = first[w]
          /\ first[w] = work_given /\ pc[w] = "draw" /\ pc'[w] = "unlock"
          /\ work_given < total
      BY <1>0, <2>4 DEF Draw, Goto, Drawn
    <3>2. Share \in Nat /\ work_given + Share <= total
      BY <3>1, ShareFits
    <3>3. \A v \in Threads : v # w => pc[v] # "draw"
      BY <3>1 DEF MutexHeld
    <3>4. \A v \in Threads : v # w /\ pc[v] \in {"unlock", "work"} =>
            first[v] + num[v] <= work_given + Share
      <4> TAKE v \in Threads
      <4> HAVE v # w /\ pc[v] \in {"unlock", "work"}
      <4>1. first[v] + num[v] <= work_given
        BY DEF Drawn
      <4> QED BY <1>0, <3>2, <4>1
    <3> QED BY <1>0, <2>1, <3>1, <3>2, <3>3, <3>4 DEF Drawn
  <2>5. CASE Unlock(w)
    <3>1. /\ work_given' = work_given /\ first'[w] = first[w] /\ num'[w] = num[w]
          /\ step'[w] = 0 /\ pc[w] = "unlock" /\ pc'[w] = "work"
      BY <1>0, <2>5 DEF Unlock, Goto
    <3> QED BY <1>0, <2>1, <3>1 DEF Drawn
  <2>6. CASE OnStep(w)
    <3>1. /\ work_given' = work_given /\ first'[w] = first[w] /\ num'[w] = num[w]
          /\ pc[w] = "work"
          /\ \/ step[w] < num[w] /\ step'[w] = step[w] + 1 /\ pc'[w] = "work"
             \/ pc'[w] = "lock"
      BY <1>0, <2>6 DEF OnStep, Goto
    <3>2. pc'[w] = "work" => step'[w] <= num'[w]
      BY <1>0, <3>1
    <3> QED BY <1>0, <2>1, <3>1, <3>2 DEF Drawn
  <2> QED BY <1>3, <2>2, <2>3, <2>4, <2>5, <2>6 DEF Worker
<1>4. CASE UNCHANGED vars
  BY <1>4 DEF vars, callerVars, Drawn
<1> QED BY <1>1, <1>2, <1>3, <1>4 DEF Next

(* A thread holds only indices that were given away. *)
LEMMA HeldIsGiven ==
    ASSUME WorkInv, NEW w \in Threads, NEW i \in Indices, Holds(w, i)
    PROVE  i < work_given
<1>1. /\ first[w] \in Nat /\ num[w] \in Nat /\ step[w] \in Nat /\ work_given \in Nat /\ i \in Nat
  BY Numbers DEF WorkInv
<1>2. pc[w] \in {"unlock", "work"} /\ i < first[w] + num[w]
  BY DEF Holds
<1>3. first[w] + num[w] <= work_given
  BY <1>2 DEF WorkInv, Drawn
<1> QED BY <1>1, <1>2, <1>3

(* A step of a thread does not change what the others hold. *)
LEMMA OthersHold ==
    ASSUME WorkInv, NEW w \in Threads, Worker(w) \/ Die(w)
    PROVE  \A v \in Threads, i \in Indices : v # w => (Holds(v, i)' <=> Holds(v, i))
<1>1. /\ pc \in [Threads -> Places] /\ first \in [Threads -> 0 .. MaxN]
      /\ num \in [Threads -> 0 .. MaxN] /\ step \in [Threads -> 0 .. MaxN]
  BY DEF WorkInv, TypeOK, Places
<1>2. \A v \in Threads : v # w => /\ pc'[v] = pc[v] /\ first'[v] = first[v]
                                  /\ num'[v] = num[v] /\ step'[v] = step[v]
  BY <1>1 DEF Worker, Begin, Lock, Draw, Unlock, GiveUp, OnStep, Finish, Die, Goto, callerVars
<1> QED BY <1>2 DEF Holds

(* Outside of Draw, OnStep and Unlock a thread holds nothing before its step
   nor after it; Unlock keeps what it holds. *)
LEMMA StepHolds ==
    ASSUME WorkInv, NEW w \in Threads,
           Begin(w) \/ Lock(w) \/ Unlock(w) \/ GiveUp(w) \/ Finish(w)
    PROVE  \A i \in Indices : Holds(w, i)' <=> Holds(w, i)
<1>1. /\ pc \in [Threads -> Places] /\ step \in [Threads -> 0 .. MaxN]
      /\ \A i \in Indices : i \in Nat
      /\ first[w] \in Nat /\ num[w] \in Nat
  BY Numbers DEF WorkInv, TypeOK, Places
<1>2. CASE Begin(w) \/ Lock(w) \/ GiveUp(w) \/ Finish(w)
  <2>1. pc[w] \notin {"unlock", "work"} /\ pc'[w] \notin {"unlock", "work"}
    BY <1>1, <1>2 DEF Begin, Lock, GiveUp, Finish, Goto
  <2> QED BY <2>1 DEF Holds
<1>3. CASE Unlock(w)
  <2>1. /\ first' = first /\ num' = num /\ step'[w] = 0 /\ pc[w] = "unlock" /\ pc'[w] = "work"
    BY <1>1, <1>3 DEF Unlock, Goto
  <2> QED BY <1>1, <2>1 DEF Holds
<1> QED BY <1>2, <1>3

(* Draw: the thread holds the indices it gave itself, and held none. *)
LEMMA DrawHolds ==
    ASSUME WorkInv, NEW w \in Threads, Draw(w)
    PROVE  /\ work_given' = work_given + Share
           /\ \A i \in Indices : /\ ~Holds(w, i)
                                 /\ Holds(w, i)' => work_given <= i
                                 /\ work_given <= i /\ i < work_given + Share => Holds(w, i)'
  BY DEF WorkInv, TypeOK, Drawn, Draw, Goto, Holds

(* OnStep: the thread calls f for the first index it holds, or holds none. *)
LEMMA OnStepHolds ==
    ASSUME WorkInv, NEW w \in Threads, OnStep(w)
    PROVE  \/ /\ first[w] + step[w] \in Indices
              /\ Holds(w, first[w] + step[w])
              /\ calls' = [calls EXCEPT ![first[w] + step[w]] = @ + 1]
              /\ \A i \in Indices : Holds(w, i)' <=> Holds(w, i) /\ i # first[w] + step[w]
           \/ /\ calls' = calls
              /\ \A i \in Indices : ~Holds(w, i) /\ ~Holds(w, i)'
<1>1. /\ pc \in [Threads -> Places] /\ step \in [Threads -> 0 .. MaxN]
      /\ \A i \in Indices : i \in Nat
      /\ first[w] \in Nat /\ num[w] \in Nat /\ step[w] \in Nat
      /\ work_given \in Nat /\ total \in Nat /\ MaxN \in Nat /\ total <= MaxN
  BY Numbers DEF WorkInv, TypeOK, Places
<1>2. /\ pc[w] = "work" /\ first' = first /\ num' = num
      /\ first[w] + num[w] <= work_given /\ work_given <= total
  BY DEF OnStep, WorkInv, Drawn
<1>3. CASE step[w] < num[w]
  <2> PICK k \in Nat, s \in Nat, m \in Nat : k = first[w] /\ s = step[w] /\ m = num[w]
    BY <1>1
  <2>1. k + s \in 0 .. MaxN - 1
    BY <1>1, <1>2, <1>3
  <2>2. first[w] + step[w] \in Indices /\ first[w] + step[w] = k + s
    BY <2>1 DEF Indices
  <2>3. /\ calls' = [calls EXCEPT ![first[w] + step[w]] = @ + 1]
        /\ step'[w] = s + 1 /\ pc'[w] = "work"
    BY <1>1, <1>2, <1>3 DEF OnStep
  <2>4. Holds(w, k + s)
    BY <1>2, <1>3 DEF Holds
  <2>5. \A i \in Indices : Holds(w, i)' <=> Holds(w, i) /\ i # k + s
    BY <1>1, <1>2, <2>3 DEF Holds
  <2> QED BY <2>2, <2>3, <2>4, <2>5
<1>4. CASE ~(step[w] < num[w])
  <2>1. calls' = calls /\ pc'[w] = "lock"
    BY <1>1, <1>4 DEF OnStep, Goto
  <2> QED BY <1>1, <1>2, <1>4, <2>1 DEF Holds
<1> QED BY <1>3, <1>4

(* No index is held by two threads. *)
LEMMA WorkNobodyTwice == WorkInv /\ [Next]_vars => NobodyTwice'
<1> SUFFICES ASSUME WorkInv, [Next]_vars PROVE NobodyTwice'
  OBVIOUS
<1>1. ASSUME NEW n \in 0 .. MaxN, NEW p \in Partitions, Run(n, p) PROVE NobodyTwice'
  <2>1. \A w \in Threads : pc'[w] = "none"
    BY <1>1 DEF Run, WorkInv, CallerPlaces
  <2> QED BY <2>1 DEF NobodyTwice, Holds
<1>2. CASE Caller
  BY <1>2, CallerKeepsWork DEF WorkInv, NobodyTwice
<1>3. ASSUME NEW w \in Threads, Worker(w) \/ Die(w) PROVE NobodyTwice'
  <2>1. \A v \in Threads, i \in Indices : v # w => (Holds(v, i)' <=> Holds(v, i))
    BY <1>3, OthersHold
  <2>2. \A v \in Threads, i \in Indices : v # w /\ Holds(v, i) => ~Holds(w, i)'
    <3>1. CASE Draw(w)
      <4>1. \A i \in Indices : Holds(w, i)' => ~(i < work_given)
        <5>1. work_given \in Nat /\ \A i \in Indices : i \in Nat
          BY Numbers DEF WorkInv
        <5>2. \A i \in Indices : Holds(w, i)' => work_given <= i
          BY <3>1, DrawHolds
        <5> QED BY <5>1, <5>2
      <4> QED BY <4>1, HeldIsGiven
    <3>2. CASE ~Draw(w)
      <4>1. \A i \in Indices : Holds(w, i)' => Holds(w, i)
        <5>1. CASE OnStep(w)
          BY <5>1, OnStepHolds
        <5>2. CASE Die(w)
          BY <5>2 DEF Die, Goto, Holds, WorkInv, TypeOK
        <5> QED BY <1>3, <3>2, <5>1, <5>2, StepHolds DEF Worker
      <4> QED BY <4>1 DEF WorkInv, NobodyTwice
    <3> QED BY <3>1, <3>2
  <2> QED BY <2>1, <2>2 DEF WorkInv, NobodyTwice
<1>4. CASE UNCHANGED vars
  BY <1>4 DEF vars, callerVars, WorkInv, NobodyTwice, Holds
<1> QED BY <1>1, <1>2, <1>3, <1>4 DEF Next

(* What the caller is asked to do later does not make a run orderly again. *)
LEMMA CallerOrderly ==
    ASSUME WorkInv, Caller
    PROVE  Orderly' => Orderly
<1>1. mpc # "idle" /\ result = "none"
  BY DEF WorkInv, CallerPlaces, InRun, Caller, Launch, Status, Poll, Join, Kill, Killing
<1>2. CASE Killing
  BY <1>1, <1>2, Numbers DEF Killing, Orderly, WorkInv, Threads
<1>3. CASE ~Killing
  BY <1>1, <1>3 DEF Orderly, Caller, Launch, Status, Poll, Join, Kill
<1> QED BY <1>2, <1>3

(* A step that changes neither what is due nor the counts. *)
LEMMA ProcessedStable ==
    ASSUME Processed, calls' = calls, Orderly' => Orderly,
           \A i \in Indices : Due(i)' <=> Due(i)
    PROVE  Processed'
  BY DEF Processed

(* Every index is processed, held by a thread, or still to be given away. *)
LEMMA WorkProcessed == WorkInv /\ [Next]_vars => Processed'
<1> SUFFICES ASSUME WorkInv, [Next]_vars PROVE Processed'
  OBVIOUS
<1>0. /\ work_given \in Nat /\ \A i \in Indices : i \in Nat
      /\ calls \in [Indices -> Nat] /\ Processed
  BY Numbers DEF WorkInv, TypeOK
<1>1. ASSUME NEW n \in 0 .. MaxN, NEW p \in Partitions, Run(n, p) PROVE Processed'
  <2>1. work_given' = 0 /\ \A i \in Indices : calls'[i] = 0
    BY <1>1 DEF Run
  <2>2. \A i \in Indices : ~Due(i)'
    BY <1>0, <2>1 DEF Due
  <2> QED BY <2>1, <2>2 DEF Processed
<1>2. CASE Caller
  <2>1. /\ work_given' = work_given /\ calls' = calls
        /\ \A w \in Threads, i \in Indices : Holds(w, i)' <=> Holds(w, i)
    BY <1>2, CallerKeepsWork
  <2>2. \A i \in Indices : Due(i)' <=> Due(i)
    BY <2>1 DEF Due
  <2> QED BY <1>0, <1>2, <2>1, <2>2, CallerOrderly, ProcessedStable
<1>3. ASSUME NEW w \in Threads, Worker(w) \/ Die(w) PROVE Processed'
  <2>1. \A v \in Threads, i \in Indices : v # w => (Holds(v, i)' <=> Holds(v, i))
    BY <1>3, OthersHold
  <2>2. Orderly' <=> Orderly
    BY <1>3 DEF Worker, Begin, Lock, Draw, Unlock, GiveUp, OnStep, Finish, Die, callerVars, Orderly
  <2>3. CASE Begin(w) \/ Lock(w) \/ Unlock(w) \/ GiveUp(w) \/ Finish(w)
    <3>1. work_given' = work_given /\ calls' = calls
      BY <2>3 DEF Begin, Lock, Unlock, GiveUp, Finish
    <3>2. \A i \in Indices : Holds(w, i)' <=> Holds(w, i)
      BY <2>3, StepHolds
    <3>3. \A i \in Indices : Due(i)' <=> Due(i)
      BY <2>1, <3>1, <3>2 DEF Due
    <3> QED BY <1>0, <2>2, <3>1, <3>3, ProcessedStable
  <2>4. CASE Draw(w)
    <3>1. /\ work_given' = work_given + Share /\ calls' = calls
          /\ \A i \in Indices : /\ ~Holds(w, i)
                                /\ Holds(w, i)' => work_given <= i
                                /\ work_given <= i /\ i < work_given + Share => Holds(w, i)'
      BY <2>4, DrawHolds DEF Draw
    <3>2. Share \in Nat
      BY <2>4, ShareFits DEF Draw, WorkInv, Drawn
    <3>3. \A i \in Indices : Due(i)' <=> Due(i)
      <4> SUFFICES ASSUME NEW i \in Indices PROVE Due(i)' <=> Due(i)
        OBVIOUS
      <4>1. CASE i < work_given
        <5>1. i < work_given' /\ ~(work_given <= i)
          BY <1>0, <3>1, <3>2, <4>1
        <5>2. ~Holds(w, i) /\ ~Holds(w, i)'
          BY <3>1, <5>1
        <5> QED BY <2>1, <4>1, <5>1, <5>2 DEF Due
      <4>2. CASE ~(i < work_given)
        <5>1. Holds(w, i)' \/ ~(i < work_given')
          BY <1>0, <3>1, <3>2, <4>2
        <5> QED BY <4>2, <5>1 DEF Due
      <4> QED BY <4>1, <4>2
    <3> QED BY <1>0, <2>2, <3>1, <3>3, ProcessedStable
  <2>5. CASE OnStep(w)
    <3>0. work_given' = work_given
      BY <2>5 DEF OnStep
    <3>1. CASE calls' = calls /\ \A i \in Indices : ~Holds(w, i) /\ ~Holds(w, i)'
      <4>1. \A i \in Indices : Due(i)' <=> Due(i)
        BY <2>1, <3>0, <3>1 DEF Due
      <4> QED BY <1>0, <2>2, <3>1, <4>1, ProcessedStable
    <3>2. ASSUME NEW k \in Indices, Holds(w, k), calls' = [calls EXCEPT ![k] = @ + 1],
                 \A i \in Indices : Holds(w, i)' <=> Holds(w, i) /\ i # k
          PROVE  Processed'
      <4>1. ~Due(k) /\ calls[k] = 0
        BY <1>0, <3>2 DEF Due, Processed
      <4>2. Due(k)'
        <5>1. \A v \in Threads : v # w => ~Holds(v, k)
          BY <3>2 DEF WorkInv, NobodyTwice
        <5>2. k < work_given
          BY <3>2, HeldIsGiven
        <5> QED BY <2>1, <3>0, <3>2, <5>1, <5>2 DEF Due
      <4>3. calls'[k] = 1 /\ \A i \in Indices : i # k => calls'[i] = calls[i]
        BY <1>0, <3>2, <4>1
      <4>4. \A i \in Indices : i # k => (Due(i)' <=> Due(i))
        BY <2>1, <3>0, <3>2 DEF Due
      <4> QED BY <1>0, <2>2, <4>2, <4>3, <4>4 DEF Processed
    <3> QED BY <2>5, <3>1, <3>2, OnStepHolds
  <2>6. CASE Die(w)
    <3>1. work_given' = work_given /\ calls' = calls /\ ~Orderly
      BY <2>6 DEF Die, WorkInv, CallerPlaces, Orderly
    <3>2. \A i \in Indices : ~Holds(w, i)'
      BY <2>6 DEF Die, Goto, Holds, WorkInv, TypeOK
    <3>3. \A i \in Indices : Due(i) => Due(i)'
      BY <2>1, <3>1, <3>2 DEF Due
    <3> QED BY <1>0, <2>2, <3>1, <3>3 DEF Processed
  <2> QED BY <1>3, <2>3, <2>4, <2>5, <2>6 DEF Worker
<1>4. CASE UNCHANGED vars
  BY <1>0, <1>4 DEF vars, callerVars, Processed, Due, Holds, Orderly
<1> QED BY <1>1, <1>2, <1>3, <1>4 DEF Next

(* A thread that is gone found no work left, unless it was cancelled or never
   started. *)
LEMMA WorkEnds == WorkInv /\ [Next]_vars => EndsWithoutWork'
<1> SUFFICES ASSUME WorkInv, [Next]_vars PROVE EndsWithoutWork'
  OBVIOUS
<1>0. /\ pc \in [Threads -> Places] /\ work_given \in Nat /\ total \in Nat
      /\ t \in Threads /\ NumWorkers \in Nat /\ missing \in BOOLEAN
      /\ \A w \in Threads : w \in Nat
      /\ EndsWithoutWork
  BY Numbers DEF WorkInv, TypeOK, Places
<1>1. ASSUME NEW n \in 0 .. MaxN, NEW p \in Partitions, Run(n, p) PROVE EndsWithoutWork'
  <2>1. \A w \in Threads : pc'[w] = "none" /\ ~(w < 1)
    BY <1>1 DEF Run, WorkInv, CallerPlaces, Threads
  <2>2. mpc' = "launch" /\ t' = 1 /\ result' = "none"
    BY <1>1 DEF Run
  <2> QED BY <2>1, <2>2 DEF EndsWithoutWork, Started
<1>2. CASE Launch
  <2>1. /\ \A w \in Threads : w # t => pc'[w] = pc[w]
        /\ pc'[t] = "start" \/ (pc'[t] = "none" /\ missing')
        /\ missing => missing'
        /\ work_given' = work_given /\ total' = total /\ result' = "none" /\ mpc = "launch"
    BY <1>0, <1>2 DEF Launch, WorkInv, CallerPlaces, InRun
  <2>2. \A w \in Threads : Started(w)' => Started(w) \/ w = t
    <3> TAKE w \in Threads
    <3>1. w < t + 1 => w < t \/ w = t
      BY <1>0
    <3>2. CASE t < NumWorkers
      <4>1. mpc' = "launch" /\ t' = t + 1
        BY <1>2, <3>2 DEF Launch, Advance
      <4> QED BY <2>1, <3>1, <4>1 DEF Started
    <3>3. CASE ~(t < NumWorkers)
      <4>1. w < t + 1
        BY <1>0, <3>3 DEF Threads
      <4> QED BY <2>1, <3>1, <4>1 DEF Started
    <3> QED BY <3>2, <3>3
  <2> QED BY <2>1, <2>2, <1>0 DEF EndsWithoutWork
<1>3. CASE Status \/ Poll \/ Join \/ Kill \/ Killing
  <2>1. /\ pc' = pc /\ missing' = missing /\ work_given' = work_given /\ total' = total
    BY <1>3 DEF Status, Poll, Join, Kill, Killing
  <2>2. \A w \in Threads : Started(w)' => Started(w)
    <3>1. result = "none"
      BY <1>3 DEF Status, Poll, Join, Kill, Killing, WorkInv, CallerPlaces, InRun
    <3>2. CASE Status \/ Poll \/ Join
      BY <3>2 DEF Status, Poll, Join, Started
    <3>3. CASE Kill \/ Killing
      <4>1. mpc' \in {"kill", "killing", "idle"} /\ result' # "done"
        BY <3>1, <3>3 DEF Kill, Killing
      <4> QED BY <4>1 DEF Started
    <3> QED BY <1>3, <3>2, <3>3
  <2> QED BY <1>0, <2>1, <2>2 DEF EndsWithoutWork
<1>4. ASSUME NEW w \in Threads, Worker(w) \/ Die(w) PROVE EndsWithoutWork'
  <2>1. /\ missing' = missing /\ total' = total
        /\ \A v \in Threads : v # w => pc'[v] = pc[v]
    BY <1>0, <1>4 DEF Worker, Begin, Lock, Draw, Unlock, GiveUp, OnStep, Finish, Die, Goto, callerVars
  <2>2. \A v \in Threads : Started(v)' <=> Started(v)
    BY <1>4 DEF Worker, Begin, Lock, Draw, Unlock, GiveUp, OnStep, Finish, Die, callerVars, Started
  <2>3. CASE Begin(w) \/ Unlock(w) \/ OnStep(w)
    <3>1. work_given' = work_given /\ pc'[w] \in {"lock", "work"}
      BY <1>0, <2>3 DEF Begin, Unlock, OnStep, Goto
    <3> QED BY <1>0, <2>1, <2>2, <3>1 DEF EndsWithoutWork
  <2>4. CASE Lock(w)
    <3>1. work_given' = work_given /\ pc'[w] = IF work_given >= total THEN "giveup" ELSE "draw"
      BY <1>0, <2>4 DEF Lock, Goto
    <3>2. pc'[w] = "giveup" => work_given = total
      BY <1>0, <3>1 DEF WorkInv, Drawn
    <3>3. pc'[w] \in {"giveup", "draw"}
      BY <3>1
    <3> QED BY <1>0, <2>1, <2>2, <3>1, <3>2, <3>3 DEF EndsWithoutWork
  <2>5. CASE Draw(w)
    <3>1. work_given < total /\ pc'[w] = "unlock"
      BY <1>0, <2>5 DEF Draw, Goto, WorkInv, Drawn
    <3>2. work_given # total
      BY <1>0, <3>1
    <3> QED BY <1>0, <2>1, <2>2, <3>1, <3>2 DEF EndsWithoutWork
  <2>6. CASE GiveUp(w) \/ Finish(w)
    <3>1. work_given' = work_given /\ pc[w] \in {"giveup", "exit"}
      BY <2>6 DEF GiveUp, Finish
    <3> QED BY <1>0, <2>1, <2>2, <3>1 DEF EndsWithoutWork
  <2>7. CASE Die(w)
    <3>1. /\ work_given' = work_given /\ pc'[w] = "none"
          /\ mpc \in {"kill", "killing"} /\ result = "none"
      BY <1>0, <2>7 DEF Die, Goto, WorkInv, CallerPlaces, InRun
    <3>2. ~Started(w)
      BY <3>1 DEF Started
    <3> QED BY <1>0, <2>1, <2>2, <3>1, <3>2 DEF EndsWithoutWork
  <2> QED BY <1>4, <2>3, <2>4, <2>5, <2>6, <2>7 DEF Worker
<1>5. CASE UNCHANGED vars
  BY <1>0, <1>5 DEF vars, callerVars, EndsWithoutWork, Started
<1> QED BY <1>1, <1>2, <1>3, <1>4, <1>5 DEF Next, Caller

-----------------------------------------------------------------------------
(* The inductive invariant of ThreadedWork holds in every reachable state, for
   any number of threads, any total, any partition sizes. *)
THEOREM WorkInvariant == Spec => []WorkInv
<1>1. WorkInv /\ [Next]_vars => WorkInv'
  BY WorkType, WorkMutex, WorkCaller, WorkDrawn, WorkNobodyTwice, WorkProcessed, WorkEnds DEF WorkInv
<1> QED BY <1>1, WorkInit, PTL DEF Spec

(* When run has returned, no thread of it is left and the mutex is free. *)
THEOREM QuietWhenReturned == Spec => []QuietAfterRun
<1>1. WorkInv => QuietAfterRun
  <2> SUFFICES ASSUME WorkInv, ~InRun PROVE mutex = Nobody /\ \A w \in Threads : pc[w] = "none"
    BY DEF QuietAfterRun
  <2>1. \A w \in Threads : pc[w] = "none"
    BY DEF WorkInv, CallerPlaces, InRun
  <2> QED BY <2>1 DEF WorkInv, MutexHeld, TypeOK
<1> QED BY <1>1, WorkInvariant, PTL

(* get_done lies between the number of indices processed and the total, and no
   index is processed twice, with and without an abort. *)
THEOREM ProgressIsSound == Spec => []DoneIsProgress
<1>1. WorkInv => DoneIsProgress
  <2> SUFFICES ASSUME WorkInv PROVE DoneIsProgress
    OBVIOUS
  <2>1. work_given <= total
    BY DEF WorkInv, Drawn
  <2>2. ASSUME NEW i \in Indices PROVE calls[i] <= IF i < work_given THEN 1 ELSE 0
    BY DEF WorkInv, Processed, Due
  <2> QED BY <2>1, <2>2 DEF DoneIsProgress
<1> QED BY <1>1, WorkInvariant, PTL

(* While no thread exists, what was given away has been processed. *)
LEMMA AllGivenAllDone ==
    ASSUME WorkInv, Orderly, work_given = total, \A w \in Threads : pc[w] = "none"
    PROVE  \A i \in Indices : calls[i] = IF i < total THEN 1 ELSE 0
<1>1. \A i \in Indices : Due(i) <=> i < total
  BY NoThreadNoHolder DEF Due
<1> QED BY <1>1 DEF WorkInv, Processed

(* run returns true only after every index was processed exactly once, also
   when the caller left its loop on `done` flags of an earlier run. *)
THEOREM DoneIsComplete == Spec => []DoneMeansAll
<1>1. WorkInv => DoneMeansAll
  <2> SUFFICES ASSUME WorkInv, result = "done", ~missing
               PROVE  \A i \in Indices : calls[i] = IF i < total THEN 1 ELSE 0
    BY DEF DoneMeansAll
  <2>1. mpc = "idle" /\ Orderly
    BY DEF WorkInv, CallerPlaces, InRun, Orderly
  <2>2. \A w \in Threads : pc[w] = "none"
    BY <2>1 DEF WorkInv, CallerPlaces
  <2>3. 1 \in Threads /\ Started(1)
    BY WorkAssumption DEF Threads, Started
  <2>4. work_given = total
    BY <2>2, <2>3 DEF WorkInv, EndsWithoutWork
  <2> QED BY <2>1, <2>2, <2>4, AllGivenAllDone
<1> QED BY <1>1, WorkInvariant, PTL

-----------------------------------------------------------------------------
promiseVars == <<InRun, Remaining>>

(* Between two runs nothing remains. *)
LEMMA NothingRemains == WorkInv /\ ~InRun => Remaining = {}
<1> SUFFICES ASSUME WorkInv, ~InRun PROVE Remaining = {}
  OBVIOUS
<1>0. total \in Nat /\ MaxN \in Nat /\ total <= MaxN /\ result \in {"none", "done", "aborted"}
  BY Numbers DEF WorkInv, TypeOK
<1>1. CASE result = "aborted" \/ missing
  BY <1>1 DEF Remaining
<1>2. CASE result = "none" /\ ~missing
  <2>1. total = 0
    BY <1>2 DEF WorkInv, CallerPlaces
  <2> QED BY <1>2, <2>1 DEF Remaining
<1>3. CASE result = "done" /\ ~missing
  <2>1. \A w \in Threads : pc[w] = "none"
    BY DEF WorkInv, CallerPlaces, InRun
  <2>2. 1 \in Threads /\ Started(1)
    BY <1>3, WorkAssumption DEF Threads, Started
  <2>3. work_given = total
    BY <1>3, <2>1, <2>2 DEF WorkInv, EndsWithoutWork
  <2>4. Orderly
    BY <1>3 DEF InRun, Orderly
  <2>5. \A i \in 0 .. total - 1 : i \in Indices /\ i < total
    BY <1>0 DEF Indices
  <2>6. \A i \in 0 .. total - 1 : calls[i] = 1
    BY <2>1, <2>3, <2>4, <2>5, AllGivenAllDone
  <2> QED BY <1>3, <2>6 DEF Remaining
<1> QED BY <1>0, <1>1, <1>2, <1>3

(* During a run, what changes neither total nor the counts changes nothing of
   what remains. *)
LEMMA RemainingStable ==
    ASSUME WorkInv, WorkInv', InRun, InRun', total' = total, calls' = calls
    PROVE  Remaining' = Remaining
<1>1. result = "none" /\ result' = "none"
  BY DEF WorkInv, CallerPlaces
<1> QED BY <1>1 DEF Remaining

(* Every step of ThreadedWork is a step of the promise, or invisible to it. *)
LEMMA WorkStep == WorkInv /\ WorkInv' /\ [Next]_vars => [Promise!ForNext]_promiseVars
<1> SUFFICES ASSUME WorkInv, WorkInv', [Next]_vars PROVE [Promise!ForNext]_promiseVars
  OBVIOUS
<1> USE DEF promiseVars
<1>0. /\ total \in Nat /\ work_given \in Nat /\ MaxN \in Nat /\ total <= MaxN
      /\ t \in Threads /\ t <= NumWorkers /\ t \in Nat /\ NumWorkers \in Nat
      /\ calls \in [Indices -> Nat] /\ \A i \in Indices : i \in Nat
      /\ \A w \in Threads : w \in Nat
  BY Numbers DEF WorkInv, TypeOK
<1>e. (~InRun => Remaining = {}) /\ (~InRun => Remaining = {})'
  BY NothingRemains, PTL
<1>1. ASSUME NEW n \in 0 .. MaxN, NEW p \in Partitions, Run(n, p) PROVE Promise!Start
  <2>1. ~InRun /\ InRun' /\ result' = "none" /\ total' = n /\ calls' = [i \in Indices |-> 0]
    BY <1>1 DEF Run, InRun
  <2>2. 0 .. n - 1 \subseteq Indices
    BY <1>0 DEF Indices
  <2>3. Remaining' = 0 .. n - 1
    BY <2>1, <2>2 DEF Remaining
  <2> QED BY <1>e, <2>1, <2>3 DEF Promise!Start
<1>2. CASE Launch \/ Status \/ Poll \/ Kill
  <2>1. InRun /\ InRun' /\ total' = total /\ calls' = calls
    BY <1>2 DEF Launch, Status, Poll, Kill, Advance, InRun
  <2> QED BY <2>1, RemainingStable DEF InRun
<1>3. CASE Join
  <2>1. total' = total /\ calls' = calls /\ missing' = missing /\ InRun
    BY <1>3 DEF Join, InRun
  <2>2. CASE InRun'
    BY <2>1, <2>2, RemainingStable DEF InRun
  <2>3. CASE ~InRun' /\ missing
    <3>1. Aborts \/ CreateFails
      BY <2>3 DEF WorkInv, CallerPlaces
    <3>2. InRun = TRUE /\ InRun' = FALSE /\ Remaining' = {}
      BY <1>e, <2>1, <2>3 DEF InRun
    <3> QED BY <3>1, <3>2 DEF Promise!ForNext, Promise!Stop
  <2>4. CASE ~InRun' /\ ~missing
    <3>1. result' = "done"
      BY <1>0, <1>3, <2>4 DEF Join, Advance, InRun
    <3>2. result = "none" /\ result' # "aborted"
      BY <2>1, <3>1 DEF WorkInv, CallerPlaces
    <3>3. Remaining' = Remaining
      BY <2>1, <2>4, <3>2 DEF Remaining
    <3>4. InRun = TRUE /\ InRun' = FALSE /\ Remaining = {}
      BY <1>e, <2>1, <2>4, <3>3 DEF InRun
    <3> QED BY <3>3, <3>4 DEF Promise!ForNext, Promise!Return
  <2> QED BY <2>2, <2>3, <2>4
<1>4. CASE Killing
  <2>1. total' = total /\ calls' = calls /\ InRun
    BY <1>4 DEF Killing, InRun
  <2>2. CASE InRun'
    BY <2>1, <2>2, RemainingStable DEF InRun
  <2>3. CASE ~InRun'
    <3>1. Aborts \/ CreateFails
      BY <1>4 DEF Killing, WorkInv, CallerPlaces
    <3>2. InRun = TRUE /\ InRun' = FALSE /\ Remaining' = {}
      BY <1>e, <2>1, <2>3 DEF InRun
    <3> QED BY <3>1, <3>2 DEF Promise!ForNext, Promise!Stop
  <2> QED BY <2>2, <2>3
<1>5. ASSUME NEW w \in Threads, Worker(w) \/ Die(w)
      PROVE  Promise!CallF \/ UNCHANGED promiseVars
  <2>1. /\ total' = total /\ mpc' = mpc /\ result' = result /\ missing' = missing
        /\ pc[w] # "none"
    BY <1>5 DEF Worker, Begin, Lock, Draw, Unlock, GiveUp, OnStep, Finish, Die, callerVars,
                CancelPlaces
  <2>2. InRun /\ InRun' /\ InRun' = InRun /\ result = "none" /\ result' = "none"
    BY <2>1 DEF WorkInv, CallerPlaces, InRun
  <2>3. CASE calls' = calls
    BY <2>1, <2>2, <2>3, RemainingStable
  <2>4. ASSUME NEW k \in Indices, Holds(w, k), calls' = [calls EXCEPT ![k] = @ + 1]
        PROVE  Promise!CallF
    <3>1. ~Due(k) /\ calls[k] = 0
      BY <2>4 DEF Due, WorkInv, Processed
    <3>2. k \in Nat /\ k < work_given /\ work_given <= total
      BY <1>0, <2>4, HeldIsGiven DEF WorkInv, Drawn
    <3>3. k \in 0 .. total - 1 /\ 0 .. total - 1 \subseteq Indices
      BY <1>0, <3>2 DEF Indices
    <3>4. calls'[k] = 1 /\ \A i \in Indices : i # k => calls'[i] = calls[i]
      BY <1>0, <2>4, <3>1
    <3>5. /\ Remaining = {i \in 0 .. total - 1 : calls[i] = 0}
          /\ Remaining' = {i \in 0 .. total - 1 : calls'[i] = 0}
      BY <2>1, <2>2 DEF Remaining
    <3>6. k \in Remaining /\ Remaining' = Remaining \ {k}
      BY <3>1, <3>3, <3>4, <3>5
    <3> QED BY <2>2, <3>6 DEF Promise!CallF
  <2>5. CASE OnStep(w)
    BY <2>3, <2>4, <2>5, OnStepHolds
  <2>6. CASE ~OnStep(w)
    BY <1>5, <2>3, <2>6 DEF Worker, Begin, Lock, Draw, Unlock, GiveUp, Finish, Die
  <2> QED BY <2>5, <2>6
<1>6. CASE UNCHANGED vars
  BY <1>6 DEF vars, callerVars, InRun, Remaining
<1> QED BY <1>1, <1>2, <1>3, <1>4, <1>5, <1>6 DEF Next, Caller, Promise!ForNext

(* ThreadedWork implements the promise of ThreadPool::run: every step is the
   start of a run, a call of on_step for an index not called for yet, the
   return, a stop the caller asked for, or nothing a caller can see. *)
THEOREM WorkImplementsParallelFor == Spec => WorkRefinement
<1>1. Init => Promise!ForInit
  <2>1. ASSUME Init PROVE InRun = FALSE /\ Remaining = {}
    BY <2>1, WorkInit, NothingRemains DEF Init, InRun
  <2> QED BY <2>1 DEF Promise!ForInit
<1> QED BY <1>1, WorkInvariant, WorkStep, PTL DEF Spec, WorkRefinement, Promise!ForSafety, promiseVars
=============================================================================
