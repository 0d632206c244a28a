---------------------------- MODULE ModuleLoader ----------------------------
(***************************************************************************)
(* Loading of kaba modules by one Context: Context.cpp (_load_module_throw *)
(* and its callers), Module.cpp (Module::load) and parser/import.cpp       *)
(* (get_import_module).                                                    *)
(*                                                                         *)
(* The C++ recursion  load_module -> Module::load -> parse -> parse_import *)
(* -> get_import_module -> _load_module_throw -> ...  is the sequence      *)
(* `frames`; the recursion check of the code does not look at it but at    *)
(* the separate global array loading_module_stack, and the cache does not  *)
(* look at either but at public_modules.  What has to be right is the      *)
(* agreement of the three, on every error path.                            *)
(*                                                                         *)
(* The text of a file is reduced to `uses`: the modules it imports, in     *)
(* order.  Lookup of a name on disk, and of names in a module, is left out.*)
(***************************************************************************)
EXTENDS Naturals, Sequences, FiniteSets

CONSTANTS
    Files,          \* source files that load_module or `use` can name
    CommandLine,    \* the pseudo file "<command-line>" of execute_single_command
    UsesChoices,    \* what the files on disk may import: a set of values for `uses`
    PackageOf,      \* PackageOf[f]: directory holding f if it has a .kaba-package, else NoPackage
    NoPackage,
    Failures,       \* subset of {"file", "kaba", "foreign"}: what parsing and compiling may throw
    Modes,          \* the just_analyse flags that callers of the Context pass
    FullyLinear,    \* config.fully_linear_output
    MaxCalls,       \* bound: loads and commands asked for in one behaviour
    ModuleBound     \* bound: Module objects in one behaviour (memory)

Sources == Files \cup {CommandLine}

ASSUME CommandLineAssumption == CommandLine \notin Files
ASSUME UsesAssumption == UsesChoices \subseteq [Sources -> Seq(Files)]
ASSUME ModesAssumption == Modes \subseteq BOOLEAN /\ FullyLinear \in BOOLEAN
ASSUME FailuresAssumption == Failures \subseteq {"file", "kaba", "foreign"}
ASSUME BoundsAssumption == MaxCalls \in Nat /\ ModuleBound \in Nat
ASSUME PackageAssumption == DOMAIN PackageOf = Files

VARIABLES
    uses,               \* uses[f]: the files that f imports, in source order
    modules,            \* every Module object ever created, in creation order
    loading_module_stack, \* the global array of Module.cpp: indices of modules
    public_modules,     \* Context::public_modules: indices of modules
    created_modules,    \* Context::created_modules: indices of modules
    external_packages,  \* Context::external_packages: package directories
    frames,             \* the C++ call stack, outermost first
    thrown,             \* the exception in flight, "none" if there is none
    result,             \* what the last finished call of the interface returned
    calls               \* number of loads and commands so far (bounded by MaxCalls)

loaderVars == <<uses, modules, loading_module_stack, public_modules, created_modules,
                external_packages, frames, thrown, result, calls>>

Kinds == {"load", "source", "command"}
Ids == 1 .. Len(modules)

Outcomes == {"none", "file", "kaba", "foreign"}

(* A Module object: the file it stands for, the flag it was loaded with, the
   modules it includes, how far it got, and the exception that left its load
   (what the model remembers; the code forgets it). *)
ModuleRecord == [file : Sources, just_analyse : BOOLEAN, includes : SUBSET Nat,
                 compiled : BOOLEAN, failed : Outcomes]

NewModule(f, analyse) ==
    [file |-> f, just_analyse |-> analyse, includes |-> {},
     compiled |-> FALSE, failed |-> "none"]

(* An activation: the module being built and the next `use` to process. *)
Frame == [kind : Kinds, mod : Nat, next : Nat]

NoResult == [ok |-> FALSE, mod |-> 0, analyse |-> FALSE]

Idle == frames = <<>>
Top == frames[Len(frames)]
Current == modules[Top.mod]
Pop(s) == SubSeq(s, 1, Len(s) - 1)
Elements(s) == {s[i] : i \in DOMAIN s}

(* Mutant: a cache that passes over modules that were only parsed. *)
PublicWith_FullOnly(f) ==
    {m \in Elements(public_modules) : modules[m].file = f /\ ~modules[m].just_analyse}

(* The already-loaded test of _load_module_throw: by file name alone. *)
PublicWith(f) == {m \in Elements(public_modules) : modules[m].file = f}

(* Mutant: a recursion test that compares with the importing module alone. *)
OnLoadingStack_Innermost(f) ==
    LET depth == Len(loading_module_stack)
    IN depth > 0 /\ modules[loading_module_stack[depth]].file = f

(* The recursion test of get_import_module. *)
OnLoadingStack(f) == \E m \in Elements(loading_module_stack) : modules[m].file = f

(* Mutant: the stack loses its oldest entry. *)
PoppedStack_Oldest == Tail(loading_module_stack)

(* loading_module_stack.pop() *)
PoppedStack == Pop(loading_module_stack)

(* Mutant: no handler for a file that cannot be read. *)
CaughtByLoad_NoFileError == {"kaba"}

(* The exceptions that Module::load handles by popping the stack. *)
CaughtByLoad == {"file", "kaba"}

(* Mutant: publishing at the front. *)
Published_Front(m) == <<m>> \o public_modules

(* public_modules.add(module) *)
Published(m) == Append(public_modules, m)

(* The parser begins with the first use. *)
FirstUse == 1

TypeOK ==
    /\ uses \in UsesChoices
    /\ modules \in Seq(ModuleRecord)
    /\ loading_module_stack \in Seq(Ids)
    /\ public_modules \in Seq(Ids)
    /\ created_modules \in Seq(Ids)
    /\ external_packages \subseteq {PackageOf[f] : f \in Files}
    /\ frames \in Seq([kind : Kinds, mod : Ids, next : Nat \ {0}])
    /\ thrown \in Outcomes
    /\ result \in [ok : BOOLEAN, mod : Nat, analyse : BOOLEAN]
    /\ calls \in Nat
-----------------------------------------------------------------------------
Init ==
    /\ uses \in UsesChoices
    /\ modules = <<>>
    /\ loading_module_stack = <<>>
    /\ public_modules = <<>>
    /\ created_modules = <<>>
    /\ external_packages = {}
    /\ frames = <<>>
    /\ thrown = "none"
    /\ result = NoResult
    /\ calls = 0

(* _load_module_throw past its cache: get_package_at for a full load, then a
   new Module that Module::load puts on the loading stack. *)
StartLoad(f, analyse) ==
    /\ Len(modules) < ModuleBound
    /\ external_packages' = IF analyse \/ PackageOf[f] = NoPackage
                            THEN external_packages
                            ELSE external_packages \cup {PackageOf[f]}
    /\ modules' = Append(modules, NewModule(f, analyse))
    /\ loading_module_stack' = Append(loading_module_stack, Len(modules) + 1)
    /\ frames' = Append(frames, [kind |-> "load", mod |-> Len(modules) + 1, next |-> FirstUse])
    /\ UNCHANGED public_modules

(* Context::load_module for a file that is public already. *)
LoadCached(f, analyse) ==
    /\ Idle /\ calls < MaxCalls
    /\ PublicWith(f) # {}
    /\ \E m \in PublicWith(f) : result' = [ok |-> TRUE, mod |-> m, analyse |-> analyse]
    /\ calls' = calls + 1
    /\ UNCHANGED <<modules, loading_module_stack, public_modules, created_modules,
                   external_packages, frames, thrown>>

(* Context::load_module for a file that is not. *)
LoadModule(f, analyse) ==
    /\ Idle /\ calls < MaxCalls
    /\ PublicWith(f) = {}
    /\ StartLoad(f, analyse)
    /\ calls' = calls + 1
    /\ UNCHANGED <<created_modules, thrown, result>>

(* Context::create_module_for_source: the text of file f from a buffer.  No
   cache, no package, and the module is not put on the loading stack. *)
CreateModuleForSource(f, analyse) ==
    /\ Idle /\ calls < MaxCalls
    /\ Len(modules) < ModuleBound
    /\ modules' = Append(modules, NewModule(f, analyse))
    /\ frames' = <<[kind |-> "source", mod |-> Len(modules) + 1, next |-> FirstUse]>>
    /\ calls' = calls + 1
    /\ UNCHANGED <<loading_module_stack, public_modules, created_modules,
                   external_packages, thrown, result>>

(* Context::execute_single_command: a module on the loading stack that nobody
   takes off again. *)
ExecuteSingleCommand ==
    /\ Idle /\ calls < MaxCalls
    /\ Len(modules) < ModuleBound
    /\ modules' = Append(modules, NewModule(CommandLine, FALSE))
    /\ loading_module_stack' = Append(loading_module_stack, Len(modules) + 1)
    /\ frames' = <<[kind |-> "command", mod |-> Len(modules) + 1, next |-> FirstUse]>>
    /\ calls' = calls + 1
    /\ UNCHANGED <<public_modules, created_modules, external_packages, thrown, result>>

(* Context::clean_up: only the lists of the Context, not the global stack. *)
CleanUp ==
    /\ Idle
    /\ public_modules' = <<>>
    /\ UNCHANGED <<modules, loading_module_stack, created_modules, external_packages,
                   frames, thrown, result, calls>>
-----------------------------------------------------------------------------
(* The parser of the innermost activation stands at a `use` of file f. *)
AtUse(f) ==
    /\ ~Idle /\ thrown = "none"
    /\ Top.next \in DOMAIN uses[Current.file]
    /\ f = uses[Current.file][Top.next]

(* The flag get_import_module passes on. *)
ImportFlag == Current.just_analyse \/ FullyLinear

(* parser->do_error("recursive import") *)
RecursiveImport(f) ==
    /\ AtUse(f) /\ OnLoadingStack(f)
    /\ thrown' = "kaba"
    /\ UNCHANGED <<modules, loading_module_stack, public_modules, created_modules,
                   external_packages, frames, result, calls>>

(* import_flags: one entry per included module. *)
Include(m) == [modules EXCEPT ![Top.mod].includes = @ \cup {m}]

ImportCached(f) ==
    /\ AtUse(f) /\ ~OnLoadingStack(f)
    /\ \E m \in PublicWith(f) : modules' = Include(m)
    /\ frames' = [frames EXCEPT ![Len(frames)].next = @ + 1]
    /\ UNCHANGED <<loading_module_stack, public_modules, created_modules,
                   external_packages, thrown, result, calls>>

ImportLoad(f) ==
    /\ AtUse(f) /\ ~OnLoadingStack(f)
    /\ PublicWith(f) = {}
    /\ StartLoad(f, ImportFlag)
    /\ UNCHANGED <<created_modules, thrown, result, calls>>

Parsed == ~Idle /\ thrown = "none" /\ Top.next > Len(uses[Current.file])

(* A module created from source is registered between parsing and compiling. *)
Registered == Top.kind = "source" => Top.mod \in Elements(created_modules)

RegisterSource ==
    /\ Parsed /\ ~Registered
    /\ created_modules' = Append(created_modules, Top.mod)
    /\ UNCHANGED <<modules, loading_module_stack, public_modules, external_packages,
                   frames, thrown, result, calls>>

(* Compiler::compile *)
Compile ==
    /\ Parsed /\ Registered
    /\ ~Current.just_analyse /\ ~Current.compiled
    /\ modules' = [modules EXCEPT ![Top.mod].compiled = TRUE]
    /\ UNCHANGED <<loading_module_stack, public_modules, created_modules,
                   external_packages, frames, thrown, result, calls>>

(* Mutant: a module counts as loaded as soon as it is parsed. *)
Finished_Parsed == Parsed /\ Registered

Finished == Parsed /\ Registered /\ (Current.just_analyse \/ Current.compiled)

(* Module::load returns and _load_module_throw publishes the module; if an
   import asked for it, the importer includes it and goes on. *)
ReturnLoad ==
    /\ Finished /\ Top.kind = "load"
    /\ loading_module_stack' = PoppedStack
    /\ public_modules' = Published(Top.mod)
    /\ IF Len(frames) = 1
       THEN /\ frames' = <<>>
            /\ result' = [ok |-> TRUE, mod |-> Top.mod, analyse |-> Current.just_analyse]
            /\ UNCHANGED modules
       ELSE LET caller == Len(frames) - 1
            IN /\ frames' = [Pop(frames) EXCEPT ![caller].next = @ + 1]
               /\ modules' = [modules EXCEPT ![frames[caller].mod].includes = @ \cup {Top.mod}]
               /\ UNCHANGED result
    /\ UNCHANGED <<created_modules, external_packages, thrown, calls>>

(* The other two calls return; a command without a statement is not compiled. *)
ReturnOther ==
    /\ \/ Finished /\ Top.kind # "load"
       \/ Parsed /\ Top.kind = "command"
    /\ frames' = <<>>
    /\ result' = [ok |-> TRUE, mod |-> Top.mod, analyse |-> Current.just_analyse]
    /\ UNCHANGED <<modules, loading_module_stack, public_modules, created_modules,
                   external_packages, thrown, calls>>

(* Reading the file, parsing it or compiling the innermost module throws. *)
Fail(kind) ==
    /\ ~Idle /\ thrown = "none" /\ ~Current.compiled
    /\ kind = "file" => Top.kind = "load" /\ Top.next = 1
    /\ thrown' = kind
    /\ UNCHANGED <<uses, modules, loading_module_stack, public_modules, created_modules,
                   external_packages, frames, result, calls>>

(* Mutant: a module whose loading failed is published all the same. *)
Unwind_Publishing ==
    /\ ~Idle /\ thrown # "none"
    /\ modules' = [modules EXCEPT ![Top.mod].failed = thrown]
    /\ frames' = Pop(frames)
    /\ loading_module_stack' = IF Top.kind = "load" /\ thrown \in CaughtByLoad
                               THEN PoppedStack ELSE loading_module_stack
    /\ public_modules' = IF Top.kind = "load" THEN Published(Top.mod) ELSE public_modules
    /\ thrown' = IF Len(frames) = 1 THEN "none" ELSE thrown
    /\ UNCHANGED <<result, created_modules, external_packages, calls>>

(* The handlers an exception meets on its way out of the innermost activation.
   Module::load pops the stack for a FileError (which becomes a
   kaba::Exception) and for a kaba::Exception, and for nothing else; the
   Context turns a kaba::Exception into a result. *)
Unwind ==
    /\ ~Idle /\ thrown # "none"
    /\ modules' = [modules EXCEPT ![Top.mod].failed = thrown]
    /\ frames' = Pop(frames)
    /\ loading_module_stack' = IF Top.kind = "load" /\ thrown \in CaughtByLoad
                               THEN PoppedStack ELSE loading_module_stack
    /\ thrown' = IF Len(frames) = 1 THEN "none"
                 ELSE IF thrown = "file" THEN "kaba" ELSE thrown
    /\ result' = IF Len(frames) = 1 THEN [NoResult EXCEPT !.mod = Top.mod] ELSE result
    /\ UNCHANGED <<public_modules, created_modules, external_packages, calls>>

Call ==
    /\ \/ \E f \in Files, analyse \in Modes :
             LoadCached(f, analyse) \/ LoadModule(f, analyse) \/ CreateModuleForSource(f, analyse)
       \/ ExecuteSingleCommand
       \/ CleanUp
    /\ UNCHANGED uses

Progress ==
    /\ \/ \E f \in Files : RecursiveImport(f) \/ ImportCached(f) \/ ImportLoad(f)
       \/ RegisterSource
       \/ Compile
       \/ ReturnLoad
       \/ ReturnOther
       \/ Unwind
    /\ UNCHANGED uses

Next ==
    \/ Call
    \/ Progress
    \/ \E kind \in Failures : Fail(kind)

Spec == Init /\ [][Next]_loaderVars

(* A call that has begun is executed by the calling thread: it makes the next
   step of the recursion whenever there is one. *)
FairSpec == Spec /\ WF_loaderVars(Progress)
-----------------------------------------------------------------------------
AvailableFiles == {modules[m].file : m \in Elements(public_modules)}

(* The Context offers its users a registry of modules loaded in dependency order. *)
Registry == INSTANCE ModuleRegistry WITH available <- AvailableFiles

(* Every behaviour of the loader, with all its recursion and error paths, is a
   behaviour of that registry: public_modules gains one file at a time, only
   after everything the file uses, and loses them only by clean_up. *)
RegistryRefinement == Registry!RegistrySpec

(* _load_module_throw looks at public_modules before it loads and appends
   afterwards, with arbitrary loading in between: still no file is public
   twice. *)
NoDuplicatePublic ==
    \A i, j \in DOMAIN public_modules :
        modules[public_modules[i]].file = modules[public_modules[j]].file => i = j

(* A module is published after all modules it includes; so the includes of
   public modules have no cycle, and the linker finds every address it needs. *)
DependencyOrder ==
    \A i \in DOMAIN public_modules :
        \A m \in modules[public_modules[i]].includes :
            \E j \in 1 .. i - 1 : public_modules[j] = m

(* No file is being loaded twice at the same time: the recursion test sees
   every load in progress, through any chain of imports. *)
ActiveOnce ==
    \A i, j \in DOMAIN frames :
        /\ frames[i].kind = "load" /\ frames[j].kind = "load"
        /\ modules[frames[i].mod].file = modules[frames[j].mod].file
        => i = j

(* Every entry of the loading stack belongs to a load in progress, to a
   finished command, or to a load that an exception left that Module::load does
   not handle.  In particular, when no call is in progress, a failed load does
   not make later loads of the same file fail as "recursive". *)
Accounted ==
    \A j \in DOMAIN loading_module_stack :
        LET m == loading_module_stack[j]
        IN \/ modules[m].file = CommandLine
           \/ modules[m].failed = "foreign"
           \/ \E i \in DOMAIN frames : frames[i].kind = "load" /\ frames[i].mod = m

(* The activations lie on the loading stack in the same order, at its end: so
   kaba.this_module (get_current_module reads the top of the stack) is the
   module being compiled, and the module a handler takes off is its own.  A
   module created from source is not on the stack. *)
Aligned ==
    thrown # "foreign" =>
    \A i \in DOMAIN frames :
        frames[i].kind # "source" =>
            /\ Len(loading_module_stack) > Len(frames) - i
            /\ loading_module_stack[Len(loading_module_stack) - (Len(frames) - i)] = frames[i].mod

(* A module whose loading failed is never handed out, neither to a caller nor
   to an importing module. *)
FailedStaysPrivate ==
    /\ result.ok => modules[result.mod].failed = "none"
    /\ \A m \in Ids : \A n \in modules[m].includes : modules[n].failed = "none"

(* A full load that succeeds returns a module that is compiled, whose includes
   are compiled, and whose package is initialised.  It needs a Context
   that was never asked to parse only: the cache ignores the flag. *)
FullLoadUsable ==
    (\A m \in Ids : ~modules[m].just_analyse) =>
    (result.ok /\ ~result.analyse /\ modules[result.mod].file # CommandLine =>
        /\ modules[result.mod].compiled
        /\ \A m \in modules[result.mod].includes :
              /\ modules[m].compiled
              /\ PackageOf[modules[m].file] \in external_packages \cup {NoPackage})

(* "recursive import" is reported for a real cycle only, some load of that very
   file being in progress, or after a load of it that ended with an exception
   nobody handles. *)
NoFalseRecursion ==
    [][\A f \in Files : RecursiveImport(f) =>
          \/ \E i \in DOMAIN frames :
                frames[i].kind = "load" /\ modules[frames[i].mod].file = f
          \/ \E m \in Ids : modules[m].file = f /\ modules[m].failed = "foreign"]_loaderVars

(* Every call of the interface returns, whatever the files import. *)
EveryCallReturns == ~Idle ~> Idle
-----------------------------------------------------------------------------
(* Why the three bookkeepings agree: an inductive invariant. *)

(* Imports are nested: an activation other than the first loads the file its
   caller stands at. *)
CallChain ==
    /\ \A i \in DOMAIN frames : i > 1 =>
          /\ frames[i].kind = "load"
          /\ frames[i - 1].next \in DOMAIN uses[modules[frames[i - 1].mod].file]
          /\ modules[frames[i].mod].file = uses[modules[frames[i - 1].mod].file][frames[i - 1].next]
    /\ \A i \in DOMAIN frames :
          /\ modules[frames[i].mod].failed = "none"
          /\ frames[i].kind = "load" => modules[frames[i].mod].file \in Files

(* Every load has a Module object of its own, newer than all before. *)
OwnModules ==
    /\ \A i, j \in DOMAIN frames : i < j => frames[i].mod < frames[j].mod
    /\ \A i, j \in DOMAIN loading_module_stack :
          i < j => loading_module_stack[i] < loading_module_stack[j]

(* What is being loaded is not public yet, nor included by anyone, nor a result. *)
StillPrivate ==
    \A i \in DOMAIN frames :
        /\ frames[i].mod \notin Elements(public_modules)
        /\ frames[i].kind = "load" => PublicWith(modules[frames[i].mod].file) = {}
        /\ \A m \in Ids : frames[i].mod \notin modules[m].includes
        /\ result.ok => frames[i].mod # result.mod

(* The uses an activation has dealt with are public, and so is what it includes. *)
UsesIncluded ==
    \A i \in DOMAIN frames :
        LET mod == modules[frames[i].mod]
        IN /\ \A u \in DOMAIN uses[mod.file] :
                 u < frames[i].next => uses[mod.file][u] \in AvailableFiles
           /\ mod.includes \subseteq Elements(public_modules)

(* Public modules are whole, and so is what they use, which precedes them. *)
PublicWhole ==
    \A i \in DOMAIN public_modules :
        LET mod == modules[public_modules[i]]
        IN /\ mod.file \in Files /\ mod.failed = "none"
           /\ \A u \in DOMAIN uses[mod.file] :
                 \E j \in 1 .. i - 1 : modules[public_modules[j]].file = uses[mod.file][u]

KnownIds ==
    /\ result.ok => result.mod \in Ids
    /\ \A m \in Ids : modules[m].includes \subseteq Ids

(* The inductive invariant: it ties the C++ call stack, the global loading stack
   and the list of public modules together on every path, error paths included. *)
LoaderInv ==
    /\ TypeOK
    /\ CallChain /\ OwnModules /\ StillPrivate /\ UsesIncluded /\ PublicWhole /\ KnownIds
    /\ NoDuplicatePublic /\ DependencyOrder
    /\ ActiveOnce /\ Accounted /\ Aligned /\ FailedStaysPrivate

(* How far a Module object got, unless it was only to be parsed. *)
Translated(m) == modules[m].just_analyse \/ modules[m].compiled
Initialised(m) ==
    modules[m].just_analyse \/ PackageOf[modules[m].file] \in external_packages \cup {NoPackage}

(* Why a successful load is usable: what is public or included is translated
   and its package initialised, which every load in progress has already done. *)
UsableInv ==
    /\ \A p \in Elements(public_modules) : Translated(p) /\ Initialised(p)
    /\ \A m \in Ids : \A n \in modules[m].includes : Translated(n) /\ Initialised(n)
    /\ \A i \in DOMAIN frames :
          /\ frames[i].kind = "load" => Initialised(frames[i].mod)
          /\ frames[i].kind = "command" => modules[frames[i].mod].file = CommandLine
    /\ result.ok => Translated(result.mod) \/ modules[result.mod].file = CommandLine
=============================================================================
