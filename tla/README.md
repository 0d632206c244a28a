# Formal models of kaba

kaba is a compiler for a small object-oriented language. It translates modules
to machine code in memory and runs them there, together with a C++ library that
its programs and the compiler itself use. This directory holds TLA+ models of
its core, TLC configurations that check them on small instances, and TLAPS
proofs for all instances. Paths below are relative to `src/src/lib/` unless they
start with `src/`.

    tlc -config pool.cfg ThreadPool          # model checking
    tlapm ThreadPoolProofs.tla               # proofs

`PROJECT.json` lists the components, the runs, the source lines of every
definition (`map`), the hazards of the code, a plausible bug for every property
that the property detects (`mutants`), the differences found, and the theorems.

## 1. The system

A program goes through the parts in this order:

    Context -> Module -> Parser (lexical, import, concretifier, template)
            -> Transformer -> Serializer -> CommandList -> Backend
            -> Assembler -> Compiler (memory, linking) -> machine code
    machine code -> library bindings, exceptions, futures, threads

Everything from Context to Compiler runs on one thread, and recursively: an
import starts a complete compilation in the middle of a parse. Concurrency
exists only in `threads/`; persistence nowhere.

### Loading and reading of modules

| Component | State | Operations, partners | Hard because | Correct if |
|---|---|---|---|---|
| Module loading (`kaba/Context.cpp`, `Module.cpp`) | `public_modules`, `created_modules`, `external_packages`, the global `loading_module_stack`, the C++ stack | load_module, create_module_for_source, execute_single_command, clean_up; calls the parser and the compiler; called by the parser for each `use` | recursion through the parser, exceptions on any level, three structures that have to agree, modules loaded without compiling | each file is published once, after what it uses, never after a failure; cycles are reported, and only cycles; a failure leaves nothing behind |
| Lexer (`parser/lexical.cpp`) | lines, tokens, indentation, position | analyse, next, jump, rewind | strings with code in them, continued lines, token numbers that outlive them | the lines and tokens are those of the text; a jump back lands where it came from |
| AbstractParser (`parser/AbstractParser.cpp`) | the place in the text, loop depth | one method per construct, recursive, looking ahead and jumping back; reads from the Lexer | operator levels, types between expressions, blocks that end by indentation, else and except that belong to something above | the tree is the one the text was written from; nothing is skipped |
| Parser (`parser/Parser.cpp`) | the syntax tree under construction, list of functions to parse later | one method per construct, with backtracking; calls import and concretifier | order of declarations, macros evaluated while parsing | every name is found if declared |
| Import of symbols (`parser/import.cpp`) | namespaces | find a file or a package, make names visible | packages, aliases, re-export | a name means one thing |
| Concretifier (`parser/concretifier/`) | abstract tree to typed tree | overloads, casts, auto-implemented operators | rules that compete, trees built from trees | the tree means what the text says |
| Constant folding (`parser/preprocessor.cpp`) | tree | calls C++ functions at compile time | two implementations of every operator | folding changes no result |
| Classes (`parser/Parser.cpp`, `syntax/Class.cpp`, `template/implicit_regular.cpp`) | per class: parent, elements with offsets, functions, virtual table, initializers, flags; the header waiting for a later declaration | open a class, its lines, close it; derive, override, implement a trait; write missing constructors, destructors, assignments; link the table | the order of lines and classes decides what is inherited, hidden, replaced or still missing; written functions call each other | a derived object is an object of its parent; a virtual call reaches the last definition; each element is constructed and destructed once, in opposite orders |
| Implicit functions (`template/implicit_*.cpp`) | none; what they write works on the heap of the program | constructors, destructors, assignment, comparison, add, remove, resize, clear, set, get, call operators of lists, dictionaries, optionals, results, products, arrays, pointers | element lifetimes across reallocation, nesting, aliasing of arguments | nothing is freed twice, used after it was freed, or lost; values equal if their parts are |
| Templates (`template/template.cpp`) | instances by parameters | create a class or function on demand | instances that need themselves | one instance per parameters |
| Syntax tree (`syntax/`) | nodes, blocks, variables | building and copying | sharing of nodes | |

### From trees to machine code

| Component | State | Operations, partners | Hard because | Correct if |
|---|---|---|---|---|
| Transformer (`parser/Transformer.cpp`) | tree, hidden variables, pending insertions | conv_* over all nodes of a function | commands move in front of statements | the program makes the same calls in the same order |
| Serializer (`compiler/Serializer.cpp`) | block level, loop_stack, try_stack, inserted temporaries | one method per node; fills a command list; peephole passes | object lifetimes across branches, loops and raises; fusion of comparisons | as above, and each object is constructed and destructed once |
| Inline functions (`Serializer.cpp`, serialize_inline_function) | | 90 operators written out as commands | signedness, aliasing, sizes | equal to the C++ function registered |
| Command list (`compiler/CommandList.cpp`) | commands, temporaries and virtual registers with live ranges, insertion point | add, insert, remove, set operand, ranges | positions shift with each edit | no use outside its range |
| x86-64 back end (`compiler/BackendX86.cpp`, `BackendAmd64.cpp`) | a new command list, parameters waiting for their call, the frame | 9 passes: commands, parameters, temporaries to the stack, pointers, operands that no instruction takes | three scratch registers, passes that trust each other, the calling convention | instructions exist and do what the commands mean |
| ARM64 back end (`compiler/BackendArm64.cpp`, parts of `BackendARM.cpp`) | a new command list, virtual registers, the frame | every temporary gets a place on the stack, each command becomes loads, one operation and stores | reach of offsets, constants in pieces, registers that are freed by hand | as above |
| ARM32 back end (`compiler/BackendARM.cpp`) | as above | as above | as above | as above |
| Assembler (`asm/`) | instructions, labels, wanted labels | parse, optimise jumps, encode | jump distances that depend on each other | every label is reached |
| Linker and memory (`compiler/Compiler.cpp`) | opcode and data memory, patches | allocate near, compile functions, link, virtual tables, global constructors | references between modules, 32-bit distances | every reference is patched once |

### At run time

| Component | State | Operations, partners | Hard because | Correct if |
|---|---|---|---|---|
| Exceptions (`kaba/dynamic/exception.cpp`) | the machine stack | raise: walk frames, destruct blocks, find a handler | machine code positions to blocks | destructors once, innermost handler |
| Dynamic calls and values (`kaba/dynamic/`, `any/`) | | typed values to `any` and back, calls by signature | layouts | round trips |
| Futures (`base/future.h`, `kaba/lib/future.h`) | state, result, callbacks | success, fail, reset, then, await | callbacks before and after the result, re-entrance | each callback once |
| Pointers (`base/pointer.h`) | reference counts | shared, owned | copy, move, self-assignment | freed once |
| Containers (`base/array.cpp`) | memory, length, capacity | resize, clear, remove, forget; called by the implicit functions | reallocation | element lifetimes |
| Thread pool (`threads/ThreadPool.cpp`) | `has_work` and `f` per worker | run(n, cluster, f), destructor | hand-over through atomic flags without a lock | every index once, run is a barrier |
| Threaded work (`threads/ThreadedWork.cpp`) | `work_given` under a mutex, `done` per thread | run, on_step, on_status, abort | stale flags, cancellation | as above, also after an abort |
| Threads and mutexes (`threads/Thread.cpp`, `Mutex.cpp`) | running, done | run, join, kill, is_done | failing creation, cancellation | |
| Interpreter, library bindings, mathematics, os, image, command line, host interface | | | | not modelled, see section 7 |

Hazards of the code, with the line where each bites and the properties that
would notice, are listed in `PROJECT.json`.

## 2. Modules

| Module | Models | Uses |
|---|---|---|
| `ParallelFor` | the abstract promise of both thread libraries: every index once, then return | |
| `ThreadPool` | `ThreadPool.cpp`: run, _begin, _emit_cluster, _end, the workers' loop, the destructor | implements `ParallelFor` |
| `ThreadPoolProofs` | proofs about it | `ThreadPool` |
| `ThreadedWork` | `ThreadedWork.cpp` with `Thread` and `Mutex` | implements `ParallelFor` |
| `ThreadedWorkProofs` | proofs about it | `ThreadedWork` |
| `ModuleRegistry` | the abstract promise of a Context: a set of files that grows in dependency order | |
| `ModuleLoader` | `Context.cpp`, `Module.cpp`, get_import_module | implements `ModuleRegistry` |
| `ModuleLoaderProofs` | proofs about it | `ModuleLoader` |
| `ModuleUsableProofs` | proofs about what a load may use | `ModuleLoaderProofs` |
| `Transformer` | syntax trees, and `Transformer.cpp` on them | |
| `ProgramMeaning` | the reference: what a tree means, as a sequence of calls | `Transformer` (trees) |
| `Serializer` | `Serializer.cpp` but for inline functions | `Transformer` |
| `CompiledFunction` | a function that is transformed, serialized, executed | `Serializer`, `ProgramMeaning` |
| `InlineFunctions` | serialize_inline_function, executed, against the registered C++ functions | |
| `InlineFunctionsProofs` | proofs about it | `InlineFunctions` |
| `CommandList` | `CommandList.cpp` as operators on a record | |
| `CommandListMachine` | a list and any sequence of legal calls on it | `CommandList` |
| `CommandListProofs` | proofs about it | `CommandListMachine` |
| `BackendAmd64` | `BackendX86.cpp` and `BackendAmd64.cpp`, one action per command and pass | `CommandList` |
| `BackendArm64` | `BackendArm64.cpp` and what it uses of `BackendARM.cpp` | `BackendAmd64` (operands, variables) |
| `BackendMachine` | the ideal machine that executes commands | `BackendArm64` (all operands) |
| `ProcessorAmd64`, `ProcessorArm64` | what instructions do, and which of them the assembler has an encoding for | `BackendMachine` |
| `BackendMeaning` | a function is compiled for one of the two and executed | both processors |
| `ObjectTypes` | the types of the language that own something, which functions each gets, which need one | |
| `Objects` | the implicit functions of those types, executed on a heap with `DynamicArray` under them, against plain values | `ObjectTypes` |
| `ClassTable` | the parser's table of classes: `Class.cpp`, the class half of `Parser.cpp`, headers of implicit functions | |
| `LinkedClasses` | what is rejected when the functions are written, linking of virtual tables, what a virtual call reaches, the layout of classes | `ClassTable` |
| `ClassLayoutProofs` | proofs about the layout | `LinkedClasses` |
| `VirtualCallsProofs` | proofs about the functions of classes and their tables | `ClassLayoutProofs` |
| `Classes` | the bodies of constructors and destructors, and what they do to an object | `LinkedClasses` |
| `Lexer` | `lexical.cpp`: characters to lines of tokens, and the walker over them | |
| `AbstractParser` | `AbstractParser.cpp`, parse_import: one operator per method | `Lexer` |
| `SourceGrammar` | the reference: how a tree is written down, with no more parentheses than the levels of the operators ask for | `AbstractParser` (trees) |
| `SourceText` | a program that is written in some layout, perhaps damaged, then read and parsed | `SourceGrammar` |
| `MC...` | finite instances for TLC | |

### How the state corresponds to the code

*ThreadPool, ThreadedWork.* The variables are the members and locals of the same
names; `mpc` and `wpc` (`pc`) say which statement a thread is at. One action is one
read or write of something another thread can see. The flags are `std::atomic`
with the default order, so interleaving is all that can happen; `f`, a plain
function object, is protected only by the protocol, which is what
`ClosureStable` is about. A closure is the pair of bounds it captures; what the
user's function does is a counter per index. `calls` counts them, `missing`
remembers that a thread of the run could not be started; both are history.

*ModuleLoader.* `uses` is the disk: what each file imports. `frames` is the C++ stack of nested loads. The code never looks
at it; it looks at `loading_module_stack` for recursion and at `public_modules`
for what is loaded. An action is a piece of code between two calls or throws:
begin of a load, a `use`, compilation, return, each handler that an exception
passes. A file is reduced to the files it imports, in order; it may fail to
read, to parse or compile, or let an exception escape that no handler of the
loader catches ("foreign").

*Transformer, Serializer, CompiledFunction.* Operators translate trees to trees
and trees to commands, as the code's methods do, and return the Serializer's
state (`code`, `inserted`, `temps`, `loops`, `tries`, ...). Types are reduced to
what decides the treatment: fits a register, plain but larger, or an object
with constructor and destructor. The machine executes the commands one by one;
a call is an event, with the values of its arguments, and may answer either way
if it returns a bool. References are operands that name places.

*InlineFunctions.* A job is one call of an inline function with its operand
places and target. Integers are bit patterns, floats are terms. `Bits` is how many bits the patterns of a type have,
`Logic` what AND, OR and XOR make of two of them.
The commands are executed in the order and on the places the Serializer chose. `Sensible` says for which calls
commands and function are meant to agree.

*CommandList.* A list is a record of commands, temporaries, virtual registers and
the insertion point (positions count from 1). `CommandListMachine` calls its
operations in any order that respects what callers guarantee.

*BackendAmd64, BackendArm64.* `list` is `Backend::cmd`, `phase` the pass and `at` the position
of its loop. Each action is a turn of that loop. Operands keep kind, size, shift
and virtual register. A function says for which processor it is compiled. On ARM64 a virtual
register lives from `vreg_alloc` to `vreg_free`, and each serial command is replaced by its piece of code in one step.
`BackendMeaning` runs the source commands on an ideal
machine while they are compiled and the instructions on a processor afterwards,
byte by byte: a byte is a token that says where it comes from. `Encoded` and `ArmEncoded` are the
parts of the assembler's tables that the instructions of these passes need.

*ObjectTypes, Objects.* A type is its kind and the types inside of it. `decl` has the types of the program's variables.
`heap` is a sequence of blocks: one for each variable, one for each buffer of a list or dictionary, one for each object behind a
pointer. What lies in a block is a tree of storages: numbers, constructed values (with a length, a count or an address), or raw
memory. A place is a block and a path into it. `live` counts what was constructed and not destructed yet, `sound` is false once
a constructor has met anything but raw memory, or anything else has met raw or freed memory. An action is one statement of the
program (`Do`). `Execute` runs the functions that `implicit_*.cpp` writes for it, call by call
(an assignment of a list clears, resizes, assigns elements); each of these functions is an operator on the machine `[heap, gone, live,
sound]`. `ObjectTypes` knows nothing of memory: a
value is a plain list, map or option, and `Promise` says which values the variables have after a
statement. `Values` reads the values of a heap back, and `KeepsPromise` compares, for every statement in every state.
Blocks are renamed after each statement in the order they are reached, since addresses mean nothing.

*ClassTable, LinkedClasses, Classes.* `classes` is the table the parser fills: one record per class,
with the members of `Class` that decide something. The lines of a source file arrive one by one
(`DeclareClass`, `AddVariable`, `AddLine`, `CloseClass`, ...), in any order the language
allows; each action is the whole handler with what it sets off (`AddFunction` updates the
table, `PostProcess` lays out what was postponed, writes headers). A class whose parent is unknown waits and is tried again
when another one has been closed. `Compile` ends the file: bodies are written, tables linked.
From there nothing changes, and the properties speak about what a call in the finished program
would do, by walking through the written bodies. A function keeps the flags of its line (`virtual`, `override`), as in the code:
a class that takes the functions of a trait reads them again. Methods take no parameters, and no constructor or assignment
is declared virtual (`FunctionConstants`): calls of those name their class.

*Lexer, AbstractParser, SourceText.* `text` is a file as a sequence of tokens, line ends
and tabs. `Characters` spells it in a layout: with or without spaces, with comments, empty lines, lines continued
behind a comma, by a `\` or by a pipe. `Analyse` makes `lines` of the characters, as `ExpressionBuffer` does. A place in them is
the walker: a line, a token in it, and the loop depth of the parser. Each method of `AbstractParser` is an operator from a place to a
node and the place behind it. After an error the place is `Nowhere`, where no token is found, so that everything that
would follow fails as well. The recursion goes through one operator, `Parse`. `program` is the
tree that was written and `root` the one that was read.

## 3. Runs

| Run | Instance | States | Shows |
|---|---|---|---|
| `pool` | 3 workers, runs of 0 to 7 indices in clusters of 2, two runs, threads that may not start | 204 864 | no index twice (`AtMostOnce`), run is a barrier (`Barrier`), closures are never overwritten (`ClosureStable`), `PoolRefinement`, `RunReturns`, and the invariant of the proof (`PoolInv`) |
| `work` | 2 threads, runs of 0 to 3 indices in partitions of 1 or 2, two runs, aborts, threads that may not start | 164 381 | `QuietAfterRun`, `DoneIsProgress`, `DoneMeansAll`, `RunReturns`, `WorkRefinement` |
| `loader` | three files that use each other in a diamond, in a cycle, or themselves, and a command; two calls of any kind; all three failures | 121 821 | `LoaderInv` (the invariant of the proof), `NoDuplicatePublic`, `DependencyOrder`, `FullLoadUsable`, `RegistryRefinement`, `NoFalseRecursion`, `EveryCallReturns` |
| `compiled_function` | several hundred functions: each statement alone, in pairs, in branches, loops, handlers, and those in each other; up to 4 positive conditions | 31 962 | `FollowsProgram`, `Lifetimes`, `NothingLeft` |
| `compiled_pipe` | functions with `optional \|> f` | violation | `NoneBypassed` fails |
| `inline_functions` | all inline functions on all values of small types | 29 402 | `SameAsFunction` |
| `list_edit` | all sequences of edits of lists of up to 3 commands, 2 temporaries or registers | 98 141 | `Covered`, `StaysApart` |
| `backend` | 1828 functions, half for each processor: moves, conversions, arithmetic, comparisons, calls, address taking, returns and signatures, with their operands in variables, temporaries, behind pointers, and as near or far constants | 94 535 | `Encodable`, `Covered`, `SameEffect`, `AlignedAtCalls`, `RegistersSuffice` |
| `backend_imul` | `i *= x` on integers | violation | `Encodable` fails |
| `objects` | 20 declarations of two variables, their types nested up to three deep, and any statements on them | 6 853 | `Sound`, `NothingLost`, `KeepsPromise`, `EqualMeansSame` |
| `classes` | three classes, parents in any order of declaration, up to three lines inside of them in all, nested up to depth two | 471 671 | `LayoutExtends`, `VirtualCalls`, `ConstructedOnce`, `DestroyedInReverse` |
| `source_text` | some 2000 programs: all pairs and many triples of operators, every operand in every place, statements in each other, types, definitions, imports; in four layouts; 90 of them with each token missing or doubled | 47 915 | `ReadsBack`, `ParsesBack`, `NothingIgnored` |

The bounds, and why they are enough:

* *pool*: seven indices in clusters of two are four clusters for three workers:
  a worker is reused, and the last cluster is cut off. Two runs show
  what one leaves for the next, and a worker that could not be started is
  started again. The theorems cover all sizes.
* *work*: three indices for two threads: a thread draws twice, the last partition is
  cut off, somebody finds nothing. The second run starts on the flags of the first.
* *loader*: three files are enough for a file that is imported twice on different
  paths, a file that is loaded while its importer is, a cycle below the file
  asked for, and a file that uses itself; what the files use is chosen in the initial
  state (`UsesChoices`). Two calls are a load that fails or only analyses
  and one that meets what it left, with any number of clean_ups in between. `MaxCalls`
  bounds the calls; `ModuleBound` bounds Module objects and no run reaches it
  (the run checks for deadlock). The theorems cover all files, uses and calls.
* *compiled_function*: the Serializer looks at one statement and its block at a
  time, so its cases meet in nesting of depth two or three and in neighbouring
  statements. `MaxOutcomes` makes every loop run up to four times in some
  execution and end.
* *inline_functions*: operations on patterns are uniform in the width; two to four
  bits have both signs, the extreme values, carries and borrows. Proved for all widths. `JobsAreSensible`, evaluated by
  the run, says that the theorem's hypothesis holds for every call of the instance.
* *list_edit*: what an edit does to a range depends on its own position against the
  two ends: three commands have before, at, between and after. Proved for all.
* *objects*: two elements per list, two keys, one number: an element that stays, one that goes,
  one that moves when memory is allocated anew. Two variables of the same type are the two sides of an assignment
  or a comparison. Types of types make the functions call each other. `MaxUsed` bounds the blocks in use, `MaxBlocks` those a single
  statement needs meanwhile. Values are finite, so all reachable heaps are visited.
* *classes*: a parent, a child that derives, a grandchild or a class inside another one; declared in
  any order. `MaxLines` counts the lines inside of all classes of a text together. Three lines are a virtual function, its override in a
  child and a variable, or a constructor, a destructor and a variable, in one class or spread over three; what needs four lines
  (an override in each of two children, say, and a variable) is beyond the run: the proofs cover the layout and the calls for any number of lines, construction and destruction are checked for three only.
  The headers, variables and functions to choose from are in `MCClasses`. No class comes near the 8 elements of `FullConstructorMaxParams`.
* *backend*: a pass decides by the kinds and sizes of the operands of one command;
  for each instruction the functions combine a choice of types with the kinds of places its operands can be in. Not every
  instruction meets every type and place there (`Moves` to `Floats` in MCBackend say which), and labels and jumps are left out. Calls have six, seven, eight and
  nine parameters: around the six integer and eight float registers. On ARM64 the offsets of variables matter too:
  `ArmDeep` puts them around the ends of what the forms of an instruction reach. Left out there is what section 5 lists.

* *source_text*: precedence is decided between two neighbours, and the order of reduction needs three. A block ends
  by comparing the indentation of two lines; blocks in blocks with a command behind them have all
  cases. A missing or doubled token moves everything behind it into a place where the parser did not expect it. Imports are not among the
  damaged programs, as the rest of their line is not read (`use a b`, section 5); nor are the compact forms of `match` and `try`.

`CHECK_DEADLOCK FALSE` is set where the system may stop: no more calls (bounded
by the run), a function that has been executed, or a file that has been read or compiled.

### Fairness

* *pool*: weak fairness of the caller inside `run` and of each worker: threads are
  scheduled and the model's steps do not block. Nobody has to call run again or
  destroy the pool, and a failing pthread_create is never required.
* *work*: the same. The mutex need not be fair: a thread that is overtaken sees
  less work left each time. Cancellation is not fair: a cancelled thread may
  just as well run to its end.
* *loader*: weak fairness of `Progress`, the thread that executes the call in
  flight. New calls and failures are not fair.
* The other runs check safety only.

## 4. Proofs

`tlapm` proves, without the bounds of the runs:

* `ThreadPoolProofs!PoolInvariant`: `Spec => []PoolInv`. `AtMostOnce` alone is not
  inductive: one has to know who owns a worker's flag. `PoolInv` says it in three
  parts. `HandOver`: a flag that is set belongs to its worker, its closure lies
  below `i0`, closures in hand are disjoint. `CallerPlaces`: what the caller knows
  at each of its places, above all that all workers behind its scan in `_end`
  are without work. `Processed`: an index is counted once exactly if it was handed out
  and is not pending. Then `IndexOnce`, `BarrierHolds`, `ClosureIsStable` and
  `PoolImplementsParallelFor` (each step is a step of `ParallelFor` or a stutter)
  follow from it. For any number of workers, indices, runs and cluster sizes, with or without
  failing threads. Assumption: `PoolAssumption` (sizes are natural numbers,
  at least one worker, clusters not empty), which the code's configuration gives.
* `ThreadedWorkProofs!WorkInvariant`: `Spec => []WorkInv`, the counterpart for `ThreadedWork`, where threads draw partitions
  under a mutex and run may end by abort. `MutexHeld`: the mutex belongs to the thread that is between
  lock and unlock, if there is one. `CallerPlaces`: which threads are gone at each place of run. `Drawn`,
  `NobodyTwice`, `Processed`: what threads hold lies below `work_given` and is disjoint, and an index
  that was given away is held or processed, unless the run was asked to stop. `EndsWithoutWork`: a thread that was started and is gone without being
  cancelled has seen that no work is left; that is why run may believe `done` flags of an earlier
  run. Then `QuietWhenReturned` (`[]QuietAfterRun`), `ProgressIsSound` (`[]DoneIsProgress`), `DoneIsComplete` (`[]DoneMeansAll`)
  and `WorkImplementsParallelFor`, step by step. For any number of threads, indices, partition sizes and runs, with
  cancellation at any step, and with threads that do not start.
* `CommandListProofs!UsesAreCovered`: `Spec => []Covered`, for all registers,
  instructions, operand kinds and lengths. The invariant is `TypeOK /\ Covered`;
  one lemma per operation says that it moves the range of a register and its uses in
  the same way. `TypeCorrect` is its first half. `LivesStayApart` (`Spec => StaysApart`) is an action property: an insertion
  shifts the ends of all ranges by the same rule, so two that are apart stay apart unless the new command names one of them.
* `ModuleLoaderProofs!LoaderInvariant`: `Spec => []LoaderInv`, for all files, graphs
  of imports, failures and bounds. The code keeps three records of the same
  recursion: the C++ stack, `loading_module_stack`, `public_modules`. `LoaderInv` says
  how they agree. `CallChain`: each activation loads the file its caller
  stands at. `OwnModules`, `Aligned`, `Accounted`: the activations lie at the end of the
  loading stack in their order, and every other entry belongs to a command or a
  load that an unknown exception left. `StillPrivate`: nothing in progress is public,
  included or a result, which makes the check before and the append after a load
  one step. `UsesIncluded`, `PublicWhole`: what has been dealt with is public, and what
  is public is whole. One lemma per action, `OuterKeep` and `PoppedKeeps` for what
  returning and unwinding share. Then `PublicOnce`, `IncludedFirst`, `RecursionIsReal` and
  `LoaderImplementsRegistry` (each step publishes one file, empties the registry or
  stutters). Assumptions: files use files, "<command-line>" is not a file, and
  the flags and failures are those of the code.
* `ModuleLoaderProofs!TypeCorrect`: `Spec => []TypeOK`: all indices in stacks and
  lists name modules that exist.
* `ModuleUsableProofs!UsableInvariant` (`[]UsableInv`) and `LoadedIsUsable` (`[]FullLoadUsable`): a module that a load returns,
  unless it was only analysed, and all it includes are compiled, with their packages initialised. On top of `LoaderInv`, `UsableInv` says it of what is public, of what is included by
  any module, failed ones too, and of the package of each load in progress. No step takes a translation or a package back (`Grown`),
  so each step has to answer for the one module that it publishes, includes or returns.
* `ClassLayoutProofs!TableInvariant` and `LayoutHolds` (`[]LayoutExtends`): every text of any number of classes
  and lines, nested to any depth, over any basic types whose alignments are powers of two. `LayoutExtends` speaks
  about the finished table only, and its reasons lie in the order of reading. `TableInv` collects
  them: no class is read twice at a time (`OpenOnce`); a header that waits is untouched, and neither its
  parent nor its trait is a class around it (`Waiting`); what a class is made of is parsed and closed (`UsersWait`);
  every class, an open one too, is laid out as far as it is read (`SoFar`); a variable is named after its line
  (`NamedAfterLine`), and a trait has no parent (`TraitsArePlain`). The argument is that a step changes one class
  (`Changes`), of which no other class is made. So the others, and all they refer to, keep their sizes (`OthersGood`), and the rest is about
  the one class: `DeriveFrom` keeps the parent's elements, `ImplementTrait` and `AddElement` place theirs behind, aligned;
  `MoveBehindTable` shifts all of them by the size of a pointer, a multiple of every alignment; `AddMissingHeaders`
  touches only functions. `TraitEnds` is a recursive function of the length of the trait: what is needed of it is proved with the
  least number for which it would fail (the library's `WFMin`), since induction theorems with an operator as
  parameter cannot be used here.
  Assumptions: `TableConstants`, and `WithinLimits`: the program neither uses a class that is still open, except as a
  parent, nor overrides a class in use. Both are accepted by the compiler and then break the
  layout (section 5), so the theorem cannot do without them; the other entries of `Defects` are not restricted. TLC has checked
  `TableInv` on the instance of `classes`.
* `VirtualCallsProofs!FunctionsInvariant` (`[]FunctionInv`) and `VirtualCallsHold` (`[]VirtualCalls`): any number of classes, functions,
  traits, overrides and levels of inheritance, declared in any order. `VirtualCalls` compares two classes that may be far apart, one that
  the call was compiled for and the object's own; the invariant only relates a class to its parent. `IsTable`: no two functions of a
  class have the same signature or the same place, and a function that is not an override is virtual exactly if it has a place.
  `Follows`: a declared name belongs to the class, any other function is one of the parent's; every function of the parent is still there,
  by name, at its place; a new name is virtual as its first line says; and functions
  without a body exist only while the class is in work. `ParentsAreAbove`: parents are those of the text, without circles.
  `TablesLinked`: linking leaves each function at its place. Each step is a proof about one class again, and most of it about what
  `AddFunction` replaces (`AddFunctionIs`), what `DeriveFrom` and `ImplementTrait` take over (`InheritedIs`, `TakenIs`), and that
  `AddMissingHeaders` gives a body to all inherited constructors and destructors or removes them (`MissingHeadersAre`). That the parent stays as it is
  comes from `TableInv` (`UsersWait`). The loops over functions are recursive
  functions, reasoned about like `TraitEnds`. The theorem follows by going up from the object's class: places are kept
  (`PlacesKept`), the body belongs to the lowest class that declares the name (`LowestDeclares`), and the first declaration is in the highest
  (`HighestDeclares`). Assumptions: `TableConstants`, `FunctionConstants`, `WithinLimits`, the last
  because a parent that changes afterwards gives out places that its heirs do not have. TLC has checked `FunctionInv` on the same instance.
* `InlineFunctionsProofs!CommandsInvariant` (`[]SoFar`) and `InlineSameAsFunction` (`[]SameAsFunction`): any number of words,
  operands anywhere, numbers of any width (`BitsAssumption`: at least one bit, a bool has one; `LogicAssumption`: what AND, OR and XOR do to
  bools). `SoFar` says for each kind of function what the commands up to `pc` have left in the target, in the temporaries and in the flags.
  For a function that works word by word it is the words below `pc`; a large comparison has passed the
  pairs before its own, which were equal. The lemmas are of three kinds. Arithmetic: `SamePattern` and `SumOfPattern`
  (sums, differences and products need no sign), `SameLowBits`, `ValueIs` (different patterns are different numbers). What one command does: `WordDoes`, `SetsByOrder`,
  `ComplexCommands`. Where it writes: `TargetsDiffer`, `OperandsKept`. Hypothesis: every call is `Sensible`. That is a part of the
  types and sizes the compiler emits (`HasTypes`, `HasWords`), no undefined arithmetic (`Defined`), and
  `NothingOverwritten`: no word is read after it became a result. Where the code breaks the rest of it, section 5 has the calls
  that fail. TLC has checked `SoFar` on the instance of `inline_functions`.

What stays model-checked, and why:

* `RunReturns` and `EveryCallReturns` are liveness under fairness, which needs ENABLED.
* `ConstructedOnce`, `DestroyedInReverse` and everything about `Lexer`, `AbstractParser`, `Transformer`,
  `Serializer` and `Objects`: the operators are recursive over trees, types or classes (RECURSIVE),
  and what a recursive operator computes for every input is an induction over data.
* The properties of `BackendMeaning`: the effect of a function is a fold over its bytes and commands, and
  which instructions exist is a table; both are decided by enumeration.

## 5. Differences between the code and what it says

Two violation runs, with the lines in `PROJECT.json`:

* `compiled_pipe`: `optional |> f` calls f on an optional without a value: the constructor
  call around it is moved before the `if` (`Transformer.cpp:80`).
* `backend_imul`: `i *= x` in place becomes an instruction that does not exist
  (`Serializer.cpp:797`).

More of them have instances in the MC modules and are left out of the passing runs.
To see one, assign the set in the cfg:

| Set | In | Fails | Why |
|---|---|---|---|
| `NotEqualJobs` | MCInlineFunctions (`Jobs`) | `SameAsFunction` | `!=` on values larger than a pointer leaves its loop at the first pair of words that is equal (`Serializer.cpp:775`) |
| `XorJobs` | | | `^` is compiled to OR |
| `ShiftJobs` | | | `>>` of a negative number shifts zeros in |
| `NanJobs` | | | comparisons with NaN |
| `InPlaceJobs` | | | complex product or constructor into one of its operands |
| `ScaleJobs` | | | `v *= v.x` reads the factor after changing it |
| `JumpPrograms` | MCCompiledFunction (`Programs`) | `NothingLeft`, `Lifetimes` | return destructs only the innermost block, break, continue and raise nothing |
| `TemporaryPrograms` | | `Lifetimes` | temporaries of conditions and branches are destructed where the statement ends |
| `HoistedPrograms` | | `FollowsProgram` | hidden variables are filled before the statement, once |
| `RaisePrograms` | | `FollowsProgram` | `raise f()` with a handler without a variable does not call f |
| `FusedPrograms` | | `FollowsProgram` | a comparison without use is fused with the next test |
| `ImulInPlace` | MCBackend (`Functions`) | `Encodable` | as above |

`Defects` of `ClassTable` names lines that a source may contain only if the set says so. Each of them violates the
property in brackets:

| In `Defects` | What the code does |
|---|---|
| "use of a class that is still open" (`LayoutExtends`) | `derive_from` copies the flag "fully parsed" from the parent (`Class.cpp:693`): a derived class counts as complete while it is open, and is used with the size it has so far |
| "override of a class in use" (`LayoutExtends`) | `class override` adds elements to a class others have already derived from or contain (`Parser.cpp:500`) |
| "override of a full constructor" (`ConstructedOnce`) | overriding the constructor that is written for a struct leaves its elements raw |
| "value built in place" (`ConstructedOnce`) | `var x = T(...)` in a class calls a constructor for an element that has been constructed ("FIXME skip default init"); a second constructor of the class does not accept the initializer any more, the first has rewritten its tree |
| "value of a static or overridden variable" (`ConstructedOnce`) | the initializer is attached to the last element, whichever that is (`Parser.cpp:792`) |
| "destructor that returns early" (`DestroyedInReverse`) | destructors of elements and parent are called at the end of the body, behind the `return` (`Concretifier.cpp:1543`) |
| "constructor that is skipped" (`ConstructedOnce`) | a parent that needs no constructor, but has one with parameters only, is not constructed at all |

The functions for ARM64 in MCBackend leave out, besides `i *= x`, what the back end gets wrong there:

| Left out | What the code does (`BackendArm64.cpp`) |
|---|---|
| `<`, `>` on single signed bytes | they are loaded with zeros in front and compared as 32-bit numbers |
| `*` and `%` of 64-bit integers | the rows for MUL in the assembler's table have 32 and 64 bits swapped |
| a sixth or later integer parameter that is a large 32-bit constant | it is put together in W5, which has the sixth parameter already |
| more than eight integer or eight float parameters | those behind are dropped without a message |
| single bytes in globals | are stored with four bytes |
| single bytes in variables at offsets above 4095 | ADD with a register in place of a constant reads R31 as zero |
| results by memory, parameters on the stack, most conversions between integers | an error message |
| frames larger than 32 KiB | the offset has no encoding |

Three operators of `ObjectTypes` leave statements out of `objects` for the same reason:

* `SelfAssignable`: `a = a` frees what it copies from, for shared and owned pointers, dictionaries, optionals of something managed.
* `Comparable`: `!=` of products is true only if all parts differ, so `[(1,2)] == [(1,3)]`; dictionaries and arrays have no `==`.
* `Managed`: arrays of results and of pointers get no constructor and no destructor (`Class.cpp:301`).

`PointedByte` in MCBackend is in the passing run: a byte behind a pointer as fifth or sixth
integer parameter, with byte parameters before, makes the compiler
raise "no free register available"; `RegistersSuffice` says that nothing else does.

Observations without a run of their own, at the place in the code:

* A thread that pthread_create could not start hangs `ThreadPool::run` forever; in
  `ThreadedWork` the first run hangs, a later one may return true on the `done`
  flags of an earlier one. The liveness properties except these runs.
* `create_module_for_source` puts nothing on `loading_module_stack`, so
  `kaba.this_module` in such a source reads the back of an array that may be empty.
* A raise in the outermost handler reads the back of an empty `try_stack`.
* The division of the back end needs D, and finds it free only because C is
  tried before D for the divisor; IMUL by a constant is right only because its register is A
  (`asm_x86.cpp:622` leaves the register field 0).
* `-x` of an i64 subtracts from an immediate of 32 bits (`Serializer.cpp:880`);
  `f()!` on a nullable evaluates `f()` twice (`Concretifier.cpp:1168`).
* `clear` and the destructor of a dictionary never destruct a value. In the loop they are made of, the variable `v` already refers to the value,
  which lies `sizeof(string)` behind the start of its row (`Transformer.cpp:232`), and `implicit_dict.cpp:50` adds `sizeof(string)` once
  more. So the value's destructor runs on what is `2*sizeof(string)` behind the start of the row: past the row, at the key of the next one for
  a value as large as a key (a list, a string), inside that key for a smaller one (a pointer), and behind the last row for the last
  one. `DestructRows` does this, with the next row's key; it passes for dictionaries of plain values, which have no destructor.
* `a.add(a[0])` reads its argument after the reallocation; `a |= a` reads the buffer it frees. Two errors of a result always compare equal.
* A second `class override` inserts another element `-vtable-`, and so does a trait with virtual functions.
* A top-level class whose parent is declared after it is dropped without a message (`Parser.cpp:905`).
  A `virtual override` of a function that is not virtual does not become virtual.
* Destructors of parents run with the virtual table of the derived class.
* In the text of a program: a word that begins with "asm" starts an asm block, and the character behind the block is lost (`lexical.cpp:405`).
  `0xFF` in upper case is two tokens (501). The rest of a line is ignored without a message behind
  the compact result of a `match` (`b => a a`, `AbstractParser.cpp:688`), a compact `try a a` (762)
  and, in a `use`, behind the alias, or behind the name if no alias follows (`use a b`, `Parser.cpp:371`). `-a*b` is `-(a*b)` and `not a == b` is `(not a) == b`: both operators read what follows them with level 13
  (445), whatever level the table in `Operator.cpp` gives them. In `a * *b` and `a & *b` the first sign is taken for
  part of a type (273, a FIXME). `a = b, c` is a tuple of `a = b` and c.
  Lines of a block may be indented more than its first. A file that ends in the
  middle of a construct is read past its last line (`next_line`, 134). `SourceGrammar` writes parentheses where these matter.
* Never executed: `move_param`, `simplify_movs`, `simplify_fpu_stack`,
  `try_merge_temp_vars`, `simplify_float_store`, `try_map_temp_vars_to_registers`,
  `scan_temp_var_usage`. They are not modelled.

## 6. What is left out of the modelled parts

Message texts, line numbers, formatting. In the loader: finding a file for a name
and making symbols visible. In the Transformer: shifts, references, dictionaries and
tuples (built like arrays). In the Serializer: new and delete, virtual calls
as such, operands with shifts. In the back end: labels, jumps, inline assembly, 32-bit
code, the Windows convention. In the command list: labels and the flags mapped,
referenced and entangled. In the threads: get_self, tryLock, and
InterThreadFifoBuffer, which nobody uses. In the objects: functions that a program registers from C++, callables, enums,
futures, pointers that cannot be nil, strings but as objects with a buffer. In the classes: enums,
named constants, templates, extern classes, static functions, use statements. In the Lexer and the parser: what an error says
and where, the maximal length of names, the inside of asm blocks and of strings.

## 7. Not modelled

Import of symbols, templates, the ARM32 back end, linker, exceptions, dynamic values,
futures, and pointers as C++ uses them are not modelled; the most valuable are in section 8. The interpreter is an experiment that
knows a handful of instructions. The bindings of the library are tables. Mathematics is
floating point arithmetic, image and os are codecs and input/output: nothing
that a model of this kind can say something about. The command line calls the Context in one order;
the model has any order.

## 8. Plan

In this order, the most important first.

1. `Futures` (`base/future.h`) with `Pointers` (`base/pointer.h`) under it: promises that are fulfilled
   before and after callbacks are attached, reset, and freed; an abstract
   single-assignment cell that they implement.
2. `Unwinder` (`dynamic/exception.cpp`) composed with `CompiledFunction`:
   frames, blocks and handlers instead of the Serializer's local jumps; objects
   destructed once, innermost handler.
3. `Linker` (`Compiler.cpp`) composed with `ModuleLoader`: memory, opcode, patches,
   virtual tables, global constructors in dependency order, cleaning up.
4. `TypeMatching` (`concretifier/type_matching.cpp`): casts, overloads, and that
   the choice does not depend on the order of declarations.
5. `ImportResolution` (`parser/import.cpp`).
6. `Assembler`: labels and jump sizes (`asm.cpp`), the distances that depend on each other.
7. `Dynamic` values.
8. The ARM32 back end on `BackendMeaning`'s machine.

Runs are shared between a composition and its parts. Theorems in this order: `AlignedAtCalls` for the back
ends, which needs only what they do to the stack pointer; `DestroyedInReverse`, once constructors and destructors are recursive functions, on
top of `FunctionInv` and `TableInv`; the cell that `Futures` implements.
