-------------------------- MODULE ThreadPoolProofs --------------------------
(***************************************************************************)
(* Proofs about ThreadPool, for any number of workers, any n and any       *)
(* cluster sizes.                                                          *)
(***************************************************************************)
EXTENDS ThreadPool, TLAPS

(* A cluster that starts below n is a proper interval inside 0 .. n-1. *)
LEMMA ClusterProper ==
    ASSUME TypeOK, i0 < n
    PROVE  /\ ClusterAt(i0) \in Closure
           /\ ClusterAt(i0).lo = i0
           /\ i0 < ClusterAt(i0).hi
           /\ ClusterAt(i0).hi <= n
           /\ ClusterAt(i0).hi <= i0 + cluster
           /\ \A i \in Nat : i < n => (i < ClusterAt(i0).hi <=> i < i0 + cluster)
<1> USE PoolAssumption
<1>1. n \in Nat /\ i0 \in Nat /\ cluster \in Nat \ {0} /\ n <= MaxN /\ MaxN \in Nat
  BY DEF TypeOK
<1>2. ClusterAt(i0) = [lo |-> i0, hi |-> IF n < i0 + cluster THEN n ELSE i0 + cluster]
  BY DEF ClusterAt, Smaller
<1> QED BY <1>1, <1>2 DEF Closure

LEMMA PoolInit == Init => PoolInv
<1> SUFFICES ASSUME Init PROVE PoolInv
  OBVIOUS
<1> USE PoolAssumption DEF Init
<1>1. TypeOK
  <2>1. /\ f \in [Workers -> Closure] /\ wi \in [Workers -> 0 .. MaxN]
        /\ 1 \in Workers /\ calls \in [Indices -> Nat]
    BY DEF Closure, EmptyClosure, Workers
  <2>2. /\ running \in [Workers -> BOOLEAN] /\ has_work \in [Workers -> BOOLEAN]
        /\ wpc \in [Workers -> {"none", "check", "work", "clear", "sleep"}]
    OBVIOUS
  <2> QED BY <2>1, <2>2 DEF TypeOK
<1>2. HandOver
  BY DEF HandOver
<1>3. CallerPlaces
  BY DEF CallerPlaces
<1>4. Processed
  <2>1. \A i \in Indices : ~(i < n)
    BY DEF Indices
  <2> QED BY <2>1 DEF Processed, Due
<1> QED BY <1>1, <1>2, <1>3, <1>4 DEF PoolInv

(* Types. *)
LEMMA PoolType == PoolInv /\ [Next]_poolVars => TypeOK'
<1> SUFFICES ASSUME PoolInv, [Next]_poolVars PROVE TypeOK'
  OBVIOUS
<1> USE PoolAssumption DEF PoolInv, TypeOK
<1>1. ASSUME NEW k \in 0 .. MaxN, NEW c \in Clusters, Run(k, c) PROVE TypeOK'
  BY <1>1 DEF Run, workerVars, Workers, Indices
<1>2. CASE SingleThreaded
  <2>1. i0 < n => i0 \in Indices
    BY DEF Indices
  <2>2. calls' \in [Indices -> Nat] /\ i0' \in Nat /\ mpc' \in {"single", "idle"}
    BY <1>2, <2>1 DEF SingleThreaded
  <2> QED BY <1>2, <2>2 DEF SingleThreaded, workerVars
<1>3. CASE Begin
  <2>1. t' \in Workers /\ mpc' \in {"begin", "emit"}
    BY <1>3 DEF Begin, Advance, Workers
  <2>2. running' \in [Workers -> BOOLEAN]
    BY <1>3 DEF Begin
  <2>3. wpc' \in [Workers -> {"none", "check", "work", "clear", "sleep"}]
    BY <1>3 DEF Begin
  <2> QED BY <1>3, <2>1, <2>2, <2>3 DEF Begin
<1>4. CASE EmitScan
  BY <1>4 DEF EmitScan, Advance, workerVars, Workers
<1>5. CASE EmitWrite
  <2>1. ClusterAt(i0) \in Closure
    BY <1>5, ClusterProper DEF EmitWrite, CallerPlaces
  <2> QED BY <1>5, <2>1 DEF EmitWrite
<1>6. CASE EmitPublish
  <2>1. i0' \in Nat /\ t' \in Workers /\ mpc' \in {"emit", "end"}
    BY <1>6 DEF EmitPublish, Workers
  <2>2. has_work' \in [Workers -> BOOLEAN] /\ any_running' \in BOOLEAN
    BY <1>6 DEF EmitPublish
  <2> QED BY <1>6, <2>1, <2>2 DEF EmitPublish
<1>7. CASE EndScan
  <2>1. t' \in Workers /\ mpc' \in {"end", "idle"}
    BY <1>7 DEF EndScan, Workers
  <2>2. any_running' \in BOOLEAN
    BY <1>7 DEF EndScan, AnyRunning
  <2> QED BY <1>7, <2>1, <2>2 DEF EndScan, workerVars
<1>8. CASE Destroy
  BY <1>8 DEF Destroy, Workers
<1>9. ASSUME NEW w \in Workers, Check(w) PROVE TypeOK'
  <2>1. f[w].lo \in 0 .. MaxN
    BY DEF Closure
  <2> QED BY <1>9, <2>1 DEF Check, callerVars
<1>10. ASSUME NEW w \in Workers, Work(w) PROVE TypeOK'
  <2>1. f[w].hi \in 0 .. MaxN
    BY DEF Closure
  <2>2. wi' \in [Workers -> 0 .. MaxN]
    BY <1>10, <2>1 DEF Work
  <2>3. calls' \in [Indices -> Nat]
    <3>1. wi[w] < f[w].hi => wi[w] \in Indices
      BY <2>1 DEF Indices
    <3> QED BY <1>10, <3>1 DEF Work
  <2>4. wpc' \in [Workers -> {"none", "check", "work", "clear", "sleep"}]
    BY <1>10 DEF Work
  <2> QED BY <1>10, <2>2, <2>3, <2>4 DEF Work, callerVars
<1>11. ASSUME NEW w \in Workers, Clear(w) PROVE TypeOK'
  BY <1>11 DEF Clear, callerVars
<1>12. ASSUME NEW w \in Workers, Sleep(w) PROVE TypeOK'
  BY <1>12 DEF Sleep, callerVars
<1>13. CASE UNCHANGED poolVars
  BY <1>13 DEF poolVars
<1> QED
  BY <1>1, <1>2, <1>3, <1>4, <1>5, <1>6, <1>7, <1>8, <1>9, <1>10, <1>11, <1>12, <1>13
  DEF Next, Caller, Worker

(* The numbers of a state, with their types at hand. *)
LEMMA Numbers ==
    ASSUME TypeOK
    PROVE  /\ n \in Nat /\ i0 \in Nat /\ n <= MaxN /\ MaxN \in Nat
           /\ cluster \in Nat /\ cluster >= 1
           /\ \A w \in Workers : f[w].lo \in Nat /\ f[w].hi \in Nat /\ wi[w] \in Nat
           /\ t \in 1 .. NumWorkers /\ NumWorkers \in Nat
  BY PoolAssumption DEF TypeOK, Closure, Workers

(* The hand-over: flags, closures and places of the workers. *)
LEMMA PoolHandOver == PoolInv /\ [Next]_poolVars => HandOver'
<1> SUFFICES ASSUME PoolInv, [Next]_poolVars PROVE HandOver'
  OBVIOUS
<1> USE PoolAssumption DEF PoolInv
<1>0. /\ n \in Nat /\ i0 \in Nat /\ n <= MaxN /\ MaxN \in Nat
      /\ cluster \in Nat /\ cluster >= 1
      /\ \A w \in Workers : f[w].lo \in Nat /\ f[w].hi \in Nat /\ wi[w] \in Nat
      /\ t \in Workers
  BY Numbers DEF TypeOK
<1>1. ASSUME NEW k \in 0 .. MaxN, NEW c \in Clusters, Run(k, c) PROVE HandOver'
  BY <1>1 DEF Run, HandOver, workerVars, Handing
<1>2. CASE SingleThreaded
  BY <1>2 DEF SingleThreaded, HandOver, workerVars, Handing
<1>3. CASE Begin
  <2>1. \A w \in Workers : wpc'[w] = wpc[w] \/ wpc'[w] = "check"
    BY <1>3 DEF Begin, TypeOK
  <2>2. \A w \in Workers : ~has_work[w]
    BY <1>3 DEF Begin, HandOver, Handing
  <2> QED BY <1>3, <2>1, <2>2 DEF Begin, HandOver
<1>4. CASE EmitScan
  BY <1>4 DEF EmitScan, Advance, HandOver, workerVars, Handing
<1>5. CASE EmitWrite
  <2>1. \A w \in Workers : has_work[w] => f'[w] = f[w]
    BY <1>5 DEF EmitWrite, CallerPlaces, TypeOK
  <2> QED BY <1>5, <2>1 DEF EmitWrite, HandOver, Handing
<1>6. CASE EmitPublish
  <2>1. f[t] = ClusterAt(i0) /\ i0 < n /\ ~has_work[t]
    BY <1>6 DEF EmitPublish, CallerPlaces
  <2>2. /\ f[t].lo = i0 /\ i0 < f[t].hi
        /\ f[t].hi <= n /\ f[t].hi <= i0 + cluster
    BY <2>1, ClusterProper
  <2>3. /\ i0' = i0 + cluster /\ n' = n /\ f' = f /\ wpc' = wpc /\ wi' = wi
        /\ mpc' \in Handing
    BY <1>6 DEF EmitPublish, Handing
  <2>4. \A w \in Workers : has_work'[w] <=> has_work[w] \/ w = t
    BY <1>0, <1>6 DEF EmitPublish, TypeOK
  <2>5. \A w \in Workers : has_work[w] => f[w].hi <= i0 /\ w # t
    BY <2>1 DEF HandOver
  <2>6. wpc[t] \notin {"work", "clear"}
    BY <1>0, <2>1 DEF HandOver
  <2>7. \A w \in Workers : wpc'[w] \in {"work", "clear"} => has_work'[w]
    BY <2>3, <2>4 DEF HandOver
  <2>8. \A w \in Workers : has_work'[w] =>
          /\ mpc' \in Handing
          /\ f'[w].lo <= f'[w].hi /\ f'[w].hi <= n' /\ f'[w].hi <= i0'
          /\ wpc'[w] = "work" => f'[w].lo <= wi'[w] /\ wi'[w] <= f'[w].hi
          /\ wpc'[w] = "clear" => wi'[w] = f'[w].hi
    <3> SUFFICES ASSUME NEW w \in Workers, has_work[w] \/ w = t
                 PROVE  /\ f[w].lo <= f[w].hi /\ f[w].hi <= n /\ f[w].hi <= i0 + cluster
                        /\ wpc[w] = "work" => f[w].lo <= wi[w] /\ wi[w] <= f[w].hi
                        /\ wpc[w] = "clear" => wi[w] = f[w].hi
      BY <2>3, <2>4
    <3>1. CASE w = t
      BY <1>0, <2>2, <2>6, <3>1
    <3>2. CASE has_work[w]
      <4>1. f[w].hi <= i0 /\ f[w].hi \in Nat
        BY <1>0, <2>5, <3>2
      <4>2. f[w].hi <= i0 + cluster
        BY <1>0, <4>1
      <4> QED BY <3>2, <4>2 DEF HandOver
    <3> QED BY <3>1, <3>2
  <2>9. \A v, w \in Workers : v # w /\ has_work'[v] /\ has_work'[w] =>
          f'[v].hi <= f'[w].lo \/ f'[w].hi <= f'[v].lo
    BY <2>2, <2>3, <2>4, <2>5 DEF HandOver
  <2> QED BY <2>7, <2>8, <2>9 DEF HandOver
<1>7. CASE EndScan
  <2>1. mpc' = "idle" => \A w \in Workers : ~has_work[w]
    BY <1>0, <1>7 DEF EndScan, AnyRunning, CallerPlaces, Workers
  <2> QED BY <1>7, <2>1 DEF EndScan, HandOver, workerVars, Handing
<1>8. CASE Destroy
  <2>1. \A w \in Workers : ~has_work[w] /\ wpc'[w] = "none"
    BY <1>8 DEF Destroy, HandOver, Handing
  <2> QED BY <1>8, <2>1 DEF Destroy, HandOver
<1>9. ASSUME NEW w \in Workers, Check(w) PROVE HandOver'
  <2>1. /\ has_work' = has_work /\ f' = f /\ mpc' = mpc /\ i0' = i0 /\ n' = n
        /\ \A v \in Workers : v # w => wpc'[v] = wpc[v] /\ wi'[v] = wi[v]
    BY <1>9 DEF Check, callerVars, TypeOK
  <2>2. has_work[w] => wpc'[w] = "work" /\ wi'[w] = f[w].lo
    BY <1>9 DEF Check, TypeOK
  <2>3. ~has_work[w] => wpc'[w] = "sleep"
    BY <1>9 DEF Check, TypeOK
  <2> QED BY <1>0, <2>1, <2>2, <2>3 DEF HandOver
<1>10. ASSUME NEW w \in Workers, Work(w) PROVE HandOver'
  <2>1. /\ has_work' = has_work /\ f' = f /\ mpc' = mpc /\ i0' = i0 /\ n' = n
        /\ \A v \in Workers : v # w => wpc'[v] = wpc[v] /\ wi'[v] = wi[v]
    BY <1>10 DEF Work, callerVars, TypeOK
  <2>2. has_work[w] /\ wpc[w] = "work" /\ f[w].lo <= wi[w] /\ wi[w] <= f[w].hi
    BY <1>10 DEF Work, HandOver
  <2>3. wi[w] < f[w].hi => wpc'[w] = "work" /\ wi'[w] = wi[w] + 1
    BY <1>10 DEF Work, TypeOK
  <2>4. ~(wi[w] < f[w].hi) => wpc'[w] = "clear" /\ wi'[w] = wi[w]
    BY <1>10 DEF Work, TypeOK
  <2>5. /\ wpc'[w] = "work" => f[w].lo <= wi'[w] /\ wi'[w] <= f[w].hi
        /\ wpc'[w] = "clear" => wi'[w] = f[w].hi
    BY <1>0, <2>2, <2>3, <2>4
  <2> QED BY <2>1, <2>2, <2>5 DEF HandOver
<1>11. ASSUME NEW w \in Workers, Clear(w) PROVE HandOver'
  <2>1. /\ f' = f /\ mpc' = mpc /\ i0' = i0 /\ n' = n /\ wi' = wi
        /\ \A v \in Workers : v # w => wpc'[v] = wpc[v] /\ has_work'[v] = has_work[v]
        /\ wpc'[w] = "sleep" /\ has_work'[w] = FALSE
    BY <1>11 DEF Clear, callerVars, TypeOK
  <2> QED BY <2>1 DEF HandOver
<1>12. ASSUME NEW w \in Workers, Sleep(w) PROVE HandOver'
  <2>1. /\ f' = f /\ mpc' = mpc /\ i0' = i0 /\ n' = n /\ wi' = wi /\ has_work' = has_work
        /\ \A v \in Workers : v # w => wpc'[v] = wpc[v]
        /\ wpc[w] = "sleep" /\ wpc'[w] = "check"
    BY <1>12 DEF Sleep, callerVars, TypeOK
  <2> QED BY <2>1 DEF HandOver
<1>13. CASE UNCHANGED poolVars
  BY <1>13 DEF poolVars, HandOver
<1> QED
  BY <1>1, <1>2, <1>3, <1>4, <1>5, <1>6, <1>7, <1>8, <1>9, <1>10, <1>11, <1>12, <1>13
  DEF Next, Caller, Worker

(* What holds where the caller is. *)
LEMMA PoolCallerPlaces == PoolInv /\ [Next]_poolVars => CallerPlaces'
<1> SUFFICES ASSUME PoolInv, [Next]_poolVars PROVE CallerPlaces'
  OBVIOUS
<1> USE PoolAssumption DEF PoolInv
<1>0. /\ n \in Nat /\ i0 \in Nat /\ n <= MaxN /\ MaxN \in Nat
      /\ cluster \in Nat /\ cluster >= 1
      /\ t \in 1 .. NumWorkers /\ NumWorkers \in Nat
      /\ has_work \in [Workers -> BOOLEAN] /\ t \in Workers
  BY Numbers DEF TypeOK
<1>1. ASSUME NEW k \in 0 .. MaxN, NEW c \in Clusters, Run(k, c) PROVE CallerPlaces'
  BY <1>1 DEF Run, CallerPlaces
<1>2. CASE SingleThreaded
  BY <1>0, <1>2 DEF SingleThreaded, CallerPlaces
<1>3. CASE Begin
  BY <1>0, <1>3 DEF Begin, Advance, CallerPlaces
<1>4. CASE EmitScan
  BY <1>0, <1>4 DEF EmitScan, Advance, Free, CallerPlaces, workerVars
<1>5. CASE EmitWrite
  <2>1. f'[t] = ClusterAt(i0)
    BY <1>0, <1>5 DEF EmitWrite, TypeOK
  <2>2. ClusterAt(i0)' = ClusterAt(i0)
    BY <1>5 DEF EmitWrite, ClusterAt, Smaller
  <2> QED BY <1>5, <2>1, <2>2 DEF EmitWrite, CallerPlaces
<1>6. CASE EmitPublish
  BY <1>0, <1>6 DEF EmitPublish, CallerPlaces
<1>7. CASE EndScan
  <2>1. CASE t < NumWorkers
    <3>1. /\ mpc' = "end" /\ t' = t + 1 /\ has_work' = has_work /\ n' = n /\ i0' = i0
          /\ any_running' = AnyRunning
      BY <1>7, <2>1 DEF EndScan, workerVars
    <3>2. ~any_running' => ~any_running /\ ~has_work[t]
      BY <3>1, Zenon DEF AnyRunning
    <3>3. mpc = "end"
      BY <1>7 DEF EndScan
    <3>4. ~any_running' => \A w \in 1 .. t : ~has_work[w]
      <4> SUFFICES ASSUME ~any_running', NEW w \in 1 .. t PROVE ~has_work[w]
        OBVIOUS
      <4>1. w \in 1 .. t - 1 \/ w = t
        BY <1>0
      <4> QED BY <3>2, <3>3, <4>1 DEF CallerPlaces
    <3>5. t' - 1 = t
      BY <1>0, <3>1
    <3> QED BY <1>0, <3>1, <3>3, <3>4, <3>5 DEF CallerPlaces
  <2>2. CASE ~(t < NumWorkers)
    BY <1>0, <1>7, <2>2 DEF EndScan, CallerPlaces, workerVars
  <2> QED BY <2>1, <2>2
<1>8. CASE Destroy
  BY <1>8 DEF Destroy, CallerPlaces
<1>9. ASSUME NEW w \in Workers, Worker(w) PROVE CallerPlaces'
  <2>1. /\ mpc' = mpc /\ n' = n /\ cluster' = cluster /\ i0' = i0 /\ t' = t
        /\ any_running' = any_running /\ f' = f
    BY <1>9 DEF Worker, Check, Work, Clear, Sleep, callerVars
  <2>2. \A v \in Workers : has_work'[v] => has_work[v]
    BY <1>0, <1>9 DEF Worker, Check, Work, Clear, Sleep
  <2>3. ClusterAt(i0)' = ClusterAt(i0)
    BY <2>1 DEF ClusterAt, Smaller
  <2>4. \A v \in 1 .. t - 1 : v \in Workers
    BY <1>0 DEF Workers
  <2> QED BY <1>0, <2>1, <2>2, <2>3, <2>4 DEF CallerPlaces
<1>10. CASE UNCHANGED poolVars
  BY <1>10 DEF poolVars, CallerPlaces, ClusterAt, Smaller
<1> QED
  BY <1>1, <1>2, <1>3, <1>4, <1>5, <1>6, <1>7, <1>8, <1>9, <1>10 DEF Next, Caller

(* While no flag is set, no index is pending. *)
LEMMA NoFlagNoPending ==
    ASSUME \A w \in Workers : ~has_work[w]
    PROVE  \A w \in Workers, i \in Indices : ~Pending(w, i)
  BY DEF Pending

(* A step that changes neither what was handed out nor what is pending. *)
LEMMA DueStable ==
    ASSUME NEW i \in Indices, n' = n, i0' = i0,
           \A w \in Workers : Pending(w, i)' <=> Pending(w, i)
    PROVE  Due(i)' <=> Due(i)
  BY DEF Due

LEMMA ProcessedStable ==
    ASSUME Processed, n' = n, i0' = i0, calls' = calls,
           \A w \in Workers, i \in Indices : Pending(w, i)' <=> Pending(w, i)
    PROVE  Processed'
<1>1. \A i \in Indices : Due(i)' <=> Due(i)
  BY DueStable
<1> QED BY <1>1 DEF Processed

(* Every index is processed, pending at a worker, or still to be handed out. *)
LEMMA PoolProcessed == PoolInv /\ [Next]_poolVars => Processed'
<1> SUFFICES ASSUME PoolInv, [Next]_poolVars PROVE Processed'
  OBVIOUS
<1> USE PoolAssumption DEF PoolInv
<1>0. /\ n \in Nat /\ i0 \in Nat /\ n <= MaxN /\ MaxN \in Nat
      /\ cluster \in Nat /\ cluster >= 1
      /\ \A w \in Workers : f[w].lo \in Nat /\ f[w].hi \in Nat /\ wi[w] \in Nat
      /\ t \in Workers /\ has_work \in [Workers -> BOOLEAN]
      /\ calls \in [Indices -> Nat] /\ \A i \in Indices : i \in Nat
  BY Numbers DEF TypeOK, Indices
<1>1. ASSUME NEW k \in 0 .. MaxN, NEW c \in Clusters, Run(k, c) PROVE Processed'
  <2>1. i0' = 0 /\ \A i \in Indices : calls'[i] = 0
    BY <1>1 DEF Run
  <2>2. \A i \in Indices : ~Due(i)'
    BY <1>0, <2>1 DEF Due
  <2> QED BY <2>1, <2>2 DEF Processed
<1>2. CASE SingleThreaded
  <2>1. \A w \in Workers : ~has_work[w] /\ has_work'[w] = has_work[w]
    BY <1>2 DEF SingleThreaded, HandOver, Handing, workerVars
  <2>2. \A w \in Workers, i \in Indices : ~Pending(w, i) /\ ~Pending(w, i)'
    BY <2>1 DEF Pending
  <2>3. CASE i0 < n
    <3> PICK k \in Nat : k = i0
      BY <1>0
    <3>1. /\ \A i \in Indices : calls'[i] = IF i = k THEN calls[i] + 1 ELSE calls[i]
          /\ i0' = k + 1 /\ n' = n
      BY <1>0, <1>2, <2>3 DEF SingleThreaded
    <3>2. \A i \in Indices : i # k => (Due(i)' <=> Due(i))
      BY <1>0, <2>2, <3>1 DEF Due
    <3>3. ~Due(k)
      BY <1>0 DEF Due
    <3>4. k \in Indices => Due(k)'
      BY <1>0, <2>2, <2>3, <3>1 DEF Due
    <3> QED BY <3>1, <3>2, <3>3, <3>4 DEF Processed
  <2>4. CASE ~(i0 < n)
    <3>1. n' = n /\ i0' = i0 /\ calls' = calls
      BY <1>2, <2>4 DEF SingleThreaded
    <3> QED BY <2>2, <3>1, ProcessedStable
  <2> QED BY <2>3, <2>4
<1>3. CASE Begin
  <2>1. /\ \A w \in Workers : ~has_work[w] /\ ~has_work'[w]
        /\ n' = n /\ i0' = i0 /\ calls' = calls
    BY <1>3 DEF Begin, HandOver, Handing
  <2>2. \A w \in Workers, i \in Indices : Pending(w, i)' <=> Pending(w, i)
    BY <2>1 DEF Pending
  <2> QED BY <2>1, <2>2, ProcessedStable
<1>4. CASE EmitScan
  <2>1. /\ \A w \in Workers, i \in Indices : Pending(w, i)' <=> Pending(w, i)
        /\ n' = n /\ i0' = i0 /\ calls' = calls
    BY <1>4 DEF EmitScan, Pending, workerVars
  <2> QED BY <2>1, ProcessedStable
<1>5. CASE EmitWrite
  <2>1. \A w \in Workers : has_work[w] => f'[w] = f[w]
    BY <1>0, <1>5 DEF EmitWrite, CallerPlaces, TypeOK
  <2>2. /\ \A w \in Workers, i \in Indices : Pending(w, i)' <=> Pending(w, i)
        /\ n' = n /\ i0' = i0 /\ calls' = calls
    BY <1>5, <2>1 DEF EmitWrite, Pending
  <2> QED BY <2>2, ProcessedStable
<1>6. CASE EmitPublish
  <2> PICK p \in Workers : p = t
    BY <1>0
  <2>1. f[p] = ClusterAt(i0) /\ i0 < n /\ ~has_work[p]
    BY <1>6 DEF EmitPublish, CallerPlaces
  <2>2. /\ f[p].lo = i0
        /\ \A i \in Nat : i < n => (i < f[p].hi <=> i < i0 + cluster)
        /\ f[p].hi <= n
    BY <2>1, ClusterProper
  <2>3. /\ i0' = i0 + cluster /\ n' = n /\ f' = f /\ wpc' = wpc /\ wi' = wi /\ calls' = calls
        /\ \A w \in Workers : w # p => has_work'[w] = has_work[w]
        /\ has_work'[p] = TRUE
    BY <1>0, <1>6 DEF EmitPublish
  <2>4. wpc[p] \notin {"work", "clear"}
    BY <1>0, <2>1 DEF HandOver
  <2>5. \A w \in Workers, i \in Indices : w # p => (Pending(w, i)' <=> Pending(w, i))
    BY <2>3 DEF Pending
  <2>6. \A i \in Indices : ~Pending(p, i)
    BY <2>1 DEF Pending
  <2>7. \A i \in Indices : i < i0 => ~Pending(p, i)'
    BY <1>0, <2>2, <2>3 DEF Pending
  <2>8. \A i \in Indices : i0 <= i /\ i < n /\ i < i0 + cluster => Pending(p, i)'
    <3> SUFFICES ASSUME NEW i \in Indices, i0 <= i, i < n, i < i0 + cluster
                 PROVE  Pending(p, i)'
      OBVIOUS
    <3>1. f'[p].lo <= i /\ i < f'[p].hi
      BY <1>0, <2>2, <2>3
    <3>2. wpc'[p] \notin {"work", "clear"}
      BY <2>3, <2>4
    <3> QED BY <2>3, <3>1, <3>2, Zenon DEF Pending
  <2>9. ASSUME NEW i \in Indices PROVE Due(i)' <=> Due(i)
    <3>1. CASE i < i0
      <4>1. (\A w \in Workers : ~Pending(w, i)') <=> (\A w \in Workers : ~Pending(w, i))
        BY <1>0, <2>5, <2>6, <2>7, <3>1, Zenon
      <4>2. i < n' <=> i < n
        BY <2>3
      <4>3. i < i0'
        BY <1>0, <2>3, <3>1
      <4> QED BY <3>1, <4>1, <4>2, <4>3 DEF Due
    <3>2. CASE ~(i < i0)
      <4>1. i0 <= i
        BY <1>0, <3>2
      <4>2. ~(i < n /\ i < i0 + cluster) \/ Pending(p, i)'
        BY <2>8, <4>1
      <4> QED BY <1>0, <2>3, <3>2, <4>2, Zenon DEF Due
    <3> QED BY <3>1, <3>2
  <2> QED BY <2>3, <2>9 DEF Processed
<1>7. CASE EndScan
  <2>1. /\ \A w \in Workers, i \in Indices : Pending(w, i)' <=> Pending(w, i)
        /\ n' = n /\ i0' = i0 /\ calls' = calls
    BY <1>7 DEF EndScan, Pending, workerVars
  <2> QED BY <2>1, ProcessedStable
<1>8. CASE Destroy
  <2>1. /\ \A w \in Workers : ~has_work[w] /\ ~has_work'[w]
        /\ n' = n /\ i0' = i0 /\ calls' = calls
    BY <1>8 DEF Destroy, HandOver, Handing
  <2>2. \A w \in Workers, i \in Indices : Pending(w, i)' <=> Pending(w, i)
    BY <2>1 DEF Pending
  <2> QED BY <2>1, <2>2, ProcessedStable
<1>9. ASSUME NEW w \in Workers, Check(w) PROVE Processed'
  <2>1. /\ has_work' = has_work /\ f' = f /\ i0' = i0 /\ n' = n /\ calls' = calls
        /\ \A v \in Workers : v # w => wpc'[v] = wpc[v] /\ wi'[v] = wi[v]
        /\ wpc[w] = "check"
        /\ has_work[w] => wi'[w] = f[w].lo
    BY <1>9 DEF Check, callerVars, TypeOK
  <2>2. \A v \in Workers, i \in Indices : Pending(v, i)' <=> Pending(v, i)
    BY <2>1 DEF Pending
  <2> QED BY <2>1, <2>2, ProcessedStable
<1>10. ASSUME NEW w \in Workers, Work(w) PROVE Processed'
  <2>1. /\ has_work' = has_work /\ f' = f /\ i0' = i0 /\ n' = n
        /\ \A v \in Workers : v # w => wpc'[v] = wpc[v] /\ wi'[v] = wi[v]
        /\ wpc[w] = "work" /\ wpc'[w] \in {"work", "clear"}
    BY <1>10 DEF Work, callerVars, TypeOK
  <2>2. /\ has_work[w] /\ f[w].lo <= wi[w] /\ wi[w] <= f[w].hi
        /\ f[w].hi <= n /\ f[w].hi <= i0
    BY <2>1 DEF HandOver
  <2>3. \A v \in Workers, i \in Indices : v # w => (Pending(v, i)' <=> Pending(v, i))
    BY <2>1 DEF Pending
  <2>4. CASE wi[w] < f[w].hi
    <3> PICK k \in Nat : k = wi[w]
      BY <1>0
    <3>1. /\ k \in Indices
          /\ wi'[w] = k + 1
          /\ \A i \in Indices : calls'[i] = IF i = k THEN calls[i] + 1 ELSE calls[i]
      BY <1>0, <1>10, <2>2, <2>4, SMTT(40) DEF Work, TypeOK, Indices
    <3>2. \A i \in Indices : i # k => (Pending(w, i)' <=> Pending(w, i))
      <4>1. \A i \in Nat : i # k => (k + 1 <= i <=> k <= i)
        OBVIOUS
      <4>2. \A i \in Indices : i # k => (wi'[w] <= i <=> wi[w] <= i)
        <5> SUFFICES ASSUME NEW i \in Indices, i # k PROVE wi'[w] <= i <=> wi[w] <= i
          OBVIOUS
        <5>1. i \in Nat /\ wi[w] = k /\ wi'[w] = k + 1
          BY <1>0, <3>1
        <5> QED BY <4>1, <5>1
      <4> QED BY <2>1, <4>2 DEF Pending
    <3>3. Pending(w, k)
      BY <1>0, <2>1, <2>2, <2>4 DEF Pending
    <3>4. ~Pending(w, k)'
      <4>1. ~(wi'[w] <= k)
        BY <1>0, <3>1
      <4> QED BY <2>1, <4>1, Zenon DEF Pending
    <3>5. \A v \in Workers : v # w => ~Pending(v, k)
      <4> SUFFICES ASSUME NEW v \in Workers, v # w, has_work[v], f[v].lo <= k, k < f[v].hi
                   PROVE  FALSE
        BY DEF Pending
      <4>1. f[v].hi <= f[w].lo \/ f[w].hi <= f[v].lo
        BY <2>2 DEF HandOver
      <4> QED BY <1>0, <2>2, <2>4, <4>1
    <3>6. \A v \in Workers : ~Pending(v, k)'
      BY <2>3, <3>1, <3>4, <3>5, Zenon
    <3>7. k < n' /\ k < i0'
      BY <1>0, <2>1, <2>2, <2>4
    <3>8. Due(k)' /\ ~Due(k)
      BY <3>3, <3>6, <3>7, Zenon DEF Due
    <3>9. \A i \in Indices : i # k => (Due(i)' <=> Due(i))
      <4> SUFFICES ASSUME NEW i \in Indices, i # k PROVE Due(i)' <=> Due(i)
        OBVIOUS
      <4>1. \A v \in Workers : Pending(v, i)' <=> Pending(v, i)
        BY <2>3, <3>2, Zenon
      <4> QED BY <2>1, <4>1, DueStable
    <3> QED BY <3>1, <3>8, <3>9 DEF Processed
  <2>5. CASE ~(wi[w] < f[w].hi)
    <3>1. calls' = calls /\ wi' = wi
      BY <1>10, <2>5 DEF Work
    <3>2. \A i \in Indices : Pending(w, i)' <=> Pending(w, i)
      BY <2>1, <3>1 DEF Pending
    <3>3. \A v \in Workers, i \in Indices : Pending(v, i)' <=> Pending(v, i)
      BY <2>3, <3>2, Zenon
    <3> QED BY <2>1, <3>1, <3>3, ProcessedStable
  <2> QED BY <2>4, <2>5
<1>11. ASSUME NEW w \in Workers, Clear(w) PROVE Processed'
  <2>1. /\ f' = f /\ i0' = i0 /\ n' = n /\ wi' = wi /\ calls' = calls
        /\ \A v \in Workers : v # w => wpc'[v] = wpc[v] /\ has_work'[v] = has_work[v]
        /\ wpc[w] = "clear" /\ has_work'[w] = FALSE
    BY <1>0, <1>11 DEF Clear, callerVars, TypeOK
  <2>2. wi[w] = f[w].hi
    BY <2>1 DEF HandOver
  <2>3. \A i \in Indices : ~Pending(w, i) /\ ~Pending(w, i)'
    BY <1>0, <2>1, <2>2 DEF Pending
  <2>4. \A v \in Workers, i \in Indices : v # w => (Pending(v, i)' <=> Pending(v, i))
    BY <2>1 DEF Pending
  <2>5. \A v \in Workers, i \in Indices : Pending(v, i)' <=> Pending(v, i)
    BY <2>3, <2>4, Zenon
  <2> QED BY <2>1, <2>5, ProcessedStable
<1>12. ASSUME NEW w \in Workers, Sleep(w) PROVE Processed'
  <2>1. /\ f' = f /\ i0' = i0 /\ n' = n /\ wi' = wi /\ calls' = calls /\ has_work' = has_work
        /\ \A v \in Workers : v # w => wpc'[v] = wpc[v]
        /\ wpc[w] = "sleep" /\ wpc'[w] = "check"
    BY <1>12 DEF Sleep, callerVars, TypeOK
  <2>2. \A v \in Workers, i \in Indices : Pending(v, i)' <=> Pending(v, i)
    BY <2>1 DEF Pending
  <2> QED BY <2>1, <2>2, ProcessedStable
<1>13. CASE UNCHANGED poolVars
  <2>1. /\ \A w \in Workers, i \in Indices : Pending(w, i)' <=> Pending(w, i)
        /\ n' = n /\ i0' = i0 /\ calls' = calls
    BY <1>13 DEF poolVars, Pending
  <2> QED BY <2>1, ProcessedStable
<1> QED
  BY <1>1, <1>2, <1>3, <1>4, <1>5, <1>6, <1>7, <1>8, <1>9, <1>10, <1>11, <1>12, <1>13
  DEF Next, Caller, Worker

(* The inductive invariant holds in every reachable state. *)
THEOREM PoolInvariant == Spec => []PoolInv
<1>1. PoolInv /\ [Next]_poolVars => PoolInv'
  BY PoolType, PoolHandOver, PoolCallerPlaces, PoolProcessed DEF PoolInv
<1> QED BY <1>1, PoolInit, PTL DEF Spec

(* ThreadPool::run never processes an index twice and none beyond n, for any
   number of workers, any n and any cluster sizes. *)
THEOREM IndexOnce == Spec => []AtMostOnce
<1>1. PoolInv => AtMostOnce
  <2>1. \A i \in Indices : Due(i) => i < n
    BY DEF Due
  <2>2. Processed => AtMostOnce
    BY <2>1 DEF Processed, AtMostOnce
  <2> QED BY <2>2 DEF PoolInv
<1> QED BY <1>1, PoolInvariant, PTL

(* When ThreadPool::run has returned, every index is processed and no worker
   holds a closure. *)
THEOREM BarrierHolds == Spec => []Barrier
<1>1. PoolInv => Barrier
  <2> SUFFICES ASSUME PoolInv, mpc = "idle"
               PROVE  /\ \A w \in Workers : ~has_work[w] /\ wpc[w] # "work"
                      /\ \A i \in Indices : i < n => calls[i] = 1
    BY DEF Barrier
  <2> USE DEF PoolInv
  <2>0. n \in Nat /\ i0 \in Nat /\ \A i \in Indices : i \in Nat
    BY Numbers, PoolAssumption DEF TypeOK, Indices
  <2>1. \A w \in Workers : ~has_work[w] /\ wpc[w] # "work"
    BY DEF HandOver, Handing
  <2>2. \A i \in Indices : i < n => i < i0
    BY <2>0 DEF CallerPlaces
  <2>3. \A w \in Workers, i \in Indices : ~Pending(w, i)
    BY <2>1, NoFlagNoPending
  <2>4. \A i \in Indices : i < n => Due(i)
    BY <2>2, <2>3 DEF Due
  <2> QED BY <2>1, <2>4 DEF Processed
<1> QED BY <1>1, PoolInvariant, PTL

(* The unprotected std::function of a worker is never written while its worker
   may call it: there is no data race on f. *)
THEOREM ClosureIsStable == Spec => ClosureStable
<1> DEFINE Keep == \A w \in Workers : has_work[w] \/ wpc[w] = "work" => f'[w] = f[w]
<1>1. PoolInv /\ [Next]_poolVars => [Keep]_poolVars
  <2> SUFFICES ASSUME PoolInv, Next PROVE Keep
    OBVIOUS
  <2> USE DEF PoolInv
  <2>0. t \in Workers /\ \A w \in Workers : wpc[w] = "work" => has_work[w]
    BY DEF TypeOK, HandOver
  <2>1. CASE EmitWrite
    <3>1. \A w \in Workers : w # t => f'[w] = f[w]
      BY <2>1 DEF EmitWrite, TypeOK
    <3>2. ~has_work[t]
      BY <2>1 DEF EmitWrite, CallerPlaces
    <3> QED BY <2>0, <3>1, <3>2
  <2>2. CASE ~EmitWrite
    <3>1. f' = f
      BY <2>2 DEF Next, Run, SingleThreaded, Begin, EmitScan, EmitPublish, EndScan, Destroy,
                  Caller, Worker, Check, Work, Clear, Sleep, workerVars
    <3> QED BY <3>1
  <2> QED BY <2>1, <2>2
<1> QED BY <1>1, PoolInvariant, PTL DEF Spec, ClosureStable

-----------------------------------------------------------------------------
promiseVars == <<InRun, Remaining>>

(* Once nothing is pending and all is handed out, nothing remains. *)
LEMMA NothingRemains == PoolInv /\ ~InRun => Remaining = {}
<1> SUFFICES ASSUME PoolInv, ~InRun, NEW i \in 0 .. n - 1 PROVE calls[i] # 0
  BY DEF Remaining
<1> USE PoolAssumption DEF PoolInv
<1>0. /\ n \in Nat /\ i0 \in Nat /\ n <= MaxN /\ MaxN \in Nat
      /\ i \in Indices /\ i \in Nat /\ i < n /\ i < i0
  BY Numbers DEF TypeOK, Indices, CallerPlaces, InRun
<1>1. \A w \in Workers : ~has_work[w]
  BY DEF HandOver, Handing, InRun
<1>2. Due(i)
  BY <1>0, <1>1, NoFlagNoPending DEF Due
<1> QED BY <1>0, <1>2 DEF Processed

(* What changes neither n nor the counts changes nothing of what remains. *)
LEMMA RemainingStable == n' = n /\ calls' = calls => Remaining' = Remaining
  BY DEF Remaining

(* One call for an index that was not processed takes it out of Remaining. *)
LEMMA RemainingStep ==
    ASSUME NEW k \in Indices, PoolInv, n' = n, k < n, calls[k] = 0,
           calls' = [calls EXCEPT ![k] = @ + 1]
    PROVE  k \in Remaining /\ Remaining' = Remaining \ {k}
<1> USE PoolAssumption DEF PoolInv
<1>1. /\ n \in Nat /\ n <= MaxN /\ MaxN \in Nat /\ calls \in [Indices -> Nat]
      /\ k \in Nat /\ 0 .. n - 1 \subseteq Indices
  BY Numbers DEF TypeOK, Indices
<1>2. /\ \A i \in Indices : i # k => calls'[i] = calls[i]
      /\ calls'[k] = 1
  BY <1>1
<1>3. k \in 0 .. n - 1
  BY <1>1
<1> QED BY <1>1, <1>2, <1>3 DEF Remaining

(* Every step of the pool is a step of the promise, or invisible to it. *)
LEMMA PoolStep == PoolInv /\ PoolInv' /\ [Next]_poolVars => [Promise!ForNext]_promiseVars
<1> SUFFICES ASSUME PoolInv, PoolInv', [Next]_poolVars PROVE [Promise!ForNext]_promiseVars
  OBVIOUS
<1> USE PoolAssumption DEF promiseVars
<1>0. /\ n \in Nat /\ i0 \in Nat /\ n <= MaxN /\ MaxN \in Nat
      /\ \A w \in Workers : f[w].lo \in Nat /\ f[w].hi \in Nat /\ wi[w] \in Nat
  BY Numbers DEF TypeOK, PoolInv
<1>1. ASSUME NEW k \in 0 .. MaxN, NEW c \in Clusters, Run(k, c)
      PROVE  Promise!Start
  <2>1. ~InRun /\ InRun'
    BY <1>1 DEF Run, InRun
  <2>2. /\ 0 .. k - 1 \subseteq Indices /\ n' = k
        /\ calls' = [i \in Indices |-> 0]
    BY <1>0, <1>1 DEF Run, Indices
  <2>3. Remaining' = 0 .. k - 1
    BY <2>2 DEF Remaining
  <2>4. Remaining = {}
    BY <2>1, NothingRemains
  <2> QED BY <2>1, <2>3, <2>4 DEF Promise!Start
<1>2. CASE SingleThreaded
  <2>1. CASE i0 < n
    <3>1. /\ i0 \in Indices /\ ~Due(i0)
      BY <1>0, <2>1 DEF Indices, Due
    <3>2. calls[i0] = 0
      BY <3>1 DEF PoolInv, Processed
    <3>3. /\ n' = n /\ calls' = [calls EXCEPT ![i0] = @ + 1]
          /\ InRun /\ InRun' /\ InRun' = InRun
      BY <1>2, <2>1 DEF SingleThreaded, InRun
    <3>4. i0 \in Remaining /\ Remaining' = Remaining \ {i0}
      BY <2>1, <3>1, <3>2, <3>3, RemainingStep
    <3> QED BY <3>3, <3>4 DEF Promise!ForNext, Promise!CallF
  <2>2. CASE ~(i0 < n)
    <3>1. /\ n' = n /\ calls' = calls /\ InRun /\ ~InRun'
      BY <1>2, <2>2 DEF SingleThreaded, InRun
    <3>2. Remaining' = Remaining
      BY <3>1, RemainingStable
    <3>3. (~InRun => Remaining = {})'
      BY NothingRemains, PTL
    <3> QED BY <3>1, <3>2, <3>3 DEF Promise!ForNext, Promise!Return, InRun
  <2> QED BY <2>1, <2>2
<1>3. CASE EndScan
  <2>1. n' = n /\ calls' = calls /\ InRun
    BY <1>3 DEF EndScan, InRun
  <2>2. Remaining' = Remaining
    BY <2>1, RemainingStable
  <2>3. CASE InRun'
    BY <2>1, <2>2, <2>3
  <2>4. CASE ~InRun'
    <3>1. (~InRun => Remaining = {})'
      BY NothingRemains, PTL
    <3> QED BY <2>1, <2>2, <2>4, <3>1 DEF Promise!ForNext, Promise!Return, InRun
  <2> QED BY <2>3, <2>4
<1>4. ASSUME NEW w \in Workers, Work(w), wi[w] < f[w].hi
      PROVE  Promise!CallF
  <2>1. /\ has_work[w] /\ f[w].lo <= wi[w] /\ f[w].hi <= n /\ wpc[w] = "work" /\ InRun
    BY <1>4 DEF Work, PoolInv, HandOver, Handing, InRun
  <2> PICK k \in Nat : k = wi[w]
    BY <1>0
  <2>2. k \in Indices /\ k < n
    BY <1>0, <1>4, <2>1 DEF Indices
  <2>3. Pending(w, k)
    BY <1>0, <1>4, <2>1 DEF Pending
  <2>4. calls[k] = 0
    BY <2>2, <2>3 DEF PoolInv, Processed, Due
  <2>5. n' = n /\ calls' = [calls EXCEPT ![k] = @ + 1] /\ mpc' = mpc
    BY <1>4 DEF Work, callerVars
  <2>6. k \in Remaining /\ Remaining' = Remaining \ {k}
    BY <2>2, <2>4, <2>5, RemainingStep
  <2> QED BY <2>1, <2>5, <2>6 DEF Promise!CallF, InRun
<1>5. ASSUME NEW w \in Workers, Work(w), ~(wi[w] < f[w].hi)
      PROVE  UNCHANGED promiseVars
  <2>1. n' = n /\ calls' = calls /\ mpc' = mpc
    BY <1>5 DEF Work, callerVars
  <2> QED BY <2>1, RemainingStable DEF InRun
<1>6. CASE Begin \/ EmitScan \/ EmitWrite \/ EmitPublish \/ Destroy
  <2>1. n' = n /\ calls' = calls /\ InRun' = InRun
    BY <1>6 DEF Begin, EmitScan, EmitWrite, EmitPublish, Destroy, Advance, InRun
  <2> QED BY <2>1, RemainingStable
<1>7. ASSUME NEW w \in Workers, Check(w) \/ Clear(w) \/ Sleep(w)
      PROVE  UNCHANGED promiseVars
  <2>1. n' = n /\ calls' = calls /\ mpc' = mpc
    BY <1>7 DEF Check, Clear, Sleep, callerVars
  <2> QED BY <2>1, RemainingStable DEF InRun
<1>8. CASE UNCHANGED poolVars
  BY <1>8, RemainingStable DEF poolVars, InRun
<1> QED
  BY <1>1, <1>2, <1>3, <1>4, <1>5, <1>6, <1>7, <1>8
  DEF Next, Caller, Worker, Promise!ForNext

(* The lock-free hand-over implements the promise of ThreadPool::run: every
   step of the pool is the start, a call of the function, the return of a
   ParallelFor, or changes nothing a caller can see. *)
THEOREM PoolImplementsParallelFor == Spec => PoolRefinement
<1>1. Init => Promise!ForInit
  <2>1. ASSUME Init PROVE ~InRun /\ Remaining = {}
    BY <2>1, PoolInit, NothingRemains DEF Init, InRun
  <2> QED BY <2>1 DEF Promise!ForInit
<1> QED BY <1>1, PoolInvariant, PoolStep, PTL DEF Spec, PoolRefinement, Promise!ForSafety, promiseVars
=============================================================================
