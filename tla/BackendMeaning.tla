--------------------------- MODULE BackendMeaning ---------------------------
(***************************************************************************)
(* A back end compiles a function, command by command, while the same      *)
(* commands act on the ideal machine; then the processor executes the      *)
(* result.  The function says which of the back ends.                      *)
(***************************************************************************)
EXTENDS ProcessorAmd64, ProcessorArm64

VARIABLES
    cpu,        \* the processor
    pc          \* its next instruction

vars == <<fn, pre_cmd, list, phase, at, func_params, stack_offset, max_push_size, want, cpu, pc>>

MInit ==
    /\ Init \/ ArmInit
    /\ want = IdealEntry
    /\ cpu = [pc |-> 0]
    /\ pc = 0

CompileNext ==
    /\ \/ /\ PushParam \/ ImplementCall \/ ImplementCommand \/ ArmPushParam \/ ArmImplementCall \/ ArmImplementCommand
          /\ want' = Ideal(want, fn.code[at])
       \/ /\ \/ IntroParams \/ MapReferenced \/ MapRemaining \/ ResolveDeref
             \/ CorrectIndirect \/ ShortenCompares \/ CorrectFar
             \/ ArmMapTemp \/ ArmCorrect \/ ArmRefuse \/ ArmIntroduce
          /\ UNCHANGED want
    /\ UNCHANGED <<cpu, pc>>

Enter ==
    /\ phase = "done" /\ pc = 0
    /\ cpu' = IF OnArm THEN ArmEntry ELSE CpuEntry
    /\ pc' = 1
    /\ UNCHANGED <<fn, pre_cmd, list, phase, at, func_params, stack_offset, max_push_size, want>>

Execute ==
    /\ pc \in DOMAIN list.cmd
    /\ cpu' = IF OnArm THEN ArmExecution(cpu, list.cmd[pc]) ELSE Execution(cpu, list.cmd[pc])
    /\ pc' = pc + 1
    /\ UNCHANGED <<fn, pre_cmd, list, phase, at, func_params, stack_offset, max_push_size, want>>

Next == CompileNext \/ Enter \/ Execute

Spec == MInit /\ [][Next]_vars
-----------------------------------------------------------------------------
(* Whatever the back end makes of the operands of a function's commands, in
   the end each of its instructions exists: at most one operand in memory,
   operands of the sizes and in the registers that an encoding wants, no
   temporary and no pointer left to follow. *)
Encodable ==
    phase = "done" => \A i \in DOMAIN list.cmd : IF OnArm THEN ArmEncoded(list.cmd[i]) ELSE Encoded(list.cmd[i])

(* No pass leaves a use of a virtual register outside of the live range that
   the following passes look at to find a free register. *)
Covered == phase \notin {"failed", "refused"} /\ ~(OnArm /\ phase = "done") => RangesCover(list)

(* The instructions do to variables, to memory behind pointers, to other
   functions and to the caller what the commands mean, with scratch registers
   in between, parameters on the stack and registers lost to calls. *)
Outcome(m) ==
    [locals |-> Load(m, IF OnArm THEN FrameBase ELSE -fn.var_size, fn.var_size), heap |-> Load(m, HeapBase, HeapSize),
     events |-> m.events, returned |-> m.returned]
SameEffect == pc > Len(list.cmd) => Outcome(cpu) = Outcome(want)

(* At each call the stack pointer is a multiple of 16, as the convention wants. *)
AlignedAtCalls == pc > 0 => cpu.aligned

(* Three scratch registers are enough: compiling only fails where a single
   byte behind a pointer is the fifth or sixth integer parameter of a call. *)
RegistersSuffice ==
    phase = "failed" =>
        \E i \in DOMAIN pre_cmd :
            /\ pre_cmd[i].inst = "PUSH"
            /\ pre_cmd[i].p[1].kind = "DereferenceVarTemp" /\ SizeOf[pre_cmd[i].p[1].type] = 1
            /\ Cardinality({j \in 1 .. i - 1 : pre_cmd[j].inst = "PUSH" /\ pre_cmd[j].p[1].type \in IntTypes}) \in 4 .. 5
=============================================================================
