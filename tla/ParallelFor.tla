---------------------------- MODULE ParallelFor -----------------------------
(***************************************************************************)
(* What run promises the callers of ThreadPool and ThreadedWork: f is      *)
(* called once for every index below n, in any order, and when run returns *)
(* no call is left; or, if the caller may stop it, none is made any more.  *)
(***************************************************************************)
EXTENDS Integers

CONSTANTS
    MaxN,               \* bound: the largest n a caller asks for
    MayStop             \* the caller may stop a run before it is done

VARIABLES
    busy,               \* a run is in progress
    todo                \* the indices f has not been called for

Start ==
    /\ ~busy /\ todo = {}
    /\ busy' = TRUE
    /\ \E n \in 0 .. MaxN : todo' = 0 .. n - 1

CallF ==
    /\ busy
    /\ \E i \in todo : todo' = todo \ {i}
    /\ UNCHANGED busy

Return ==
    /\ busy /\ todo = {}
    /\ busy' = FALSE
    /\ UNCHANGED todo

Stop ==
    /\ MayStop /\ busy
    /\ busy' = FALSE /\ todo' = {}

ForInit == busy = FALSE /\ todo = {}
ForNext == Start \/ CallF \/ Return \/ Stop

ForSafety == ForInit /\ [][ForNext]_<<busy, todo>>
=============================================================================
