------------------------- MODULE ModuleUsableProofs -------------------------
(***************************************************************************)
(* Why what a load returns can be used: proofs about ModuleLoader, for all *)
(* files, uses and bounds, on top of its inductive invariant.              *)
(***************************************************************************)
EXTENDS ModuleLoaderProofs

(* Nothing that is known of a module gets lost: its file and its flag stay, a
   translation and an initialised package are never taken back. *)
Grown ==
    /\ Ids \subseteq Ids'
    /\ \A m \in Ids : /\ modules'[m].file = modules[m].file
                      /\ modules'[m].just_analyse = modules[m].just_analyse
                      /\ modules[m].compiled => modules'[m].compiled
    /\ external_packages \subseteq external_packages'

LEMMA GrownKeeps ==
    ASSUME Grown, NEW m \in Ids
    PROVE  /\ m \in Ids'
           /\ Translated(m) => Translated(m)'
           /\ Initialised(m) => Initialised(m)'
  BY DEF Grown, Translated, Initialised

(* A new module at the end of the list. *)
LEMMA AppendGrows ==
    ASSUME TypeOK, NEW r \in ModuleRecord, modules' = Append(modules, r),
           external_packages \subseteq external_packages'
    PROVE  /\ Grown /\ modules'[Len(modules) + 1] = r
           /\ Ids' = Ids \cup {Len(modules) + 1}
           /\ \A m \in Ids : modules'[m].includes = modules[m].includes
<1>1. modules \in Seq(ModuleRecord) /\ Len(modules) \in Nat
  BY LenProperties DEF TypeOK
<1>2. /\ Len(modules') = Len(modules) + 1
      /\ modules'[Len(modules) + 1] = r
      /\ \A i \in Ids : modules'[i] = modules[i]
  BY <1>1, AppendedProperties DEF Ids
<1>3. Ids' = Ids \cup {Len(modules) + 1}
  BY <1>1, <1>2 DEF Ids
<1> QED BY <1>2, <1>3 DEF Grown

(* One field of one module is written: not its file, nor its flag. *)
LEMMA UpdateGrows ==
    ASSUME TypeOK, NEW k \in Ids, NEW r \in ModuleRecord, modules' = [modules EXCEPT ![k] = r],
           r.file = modules[k].file, r.just_analyse = modules[k].just_analyse,
           modules[k].compiled => r.compiled,
           external_packages' = external_packages
    PROVE  /\ Grown /\ Ids' = Ids /\ modules'[k] = r
           /\ \A m \in Ids : m # k => modules'[m].includes = modules[m].includes
<1>1. Ids' = Ids
  BY ModuleUpdate DEF Ids
<1>2. modules \in Seq(ModuleRecord) /\ DOMAIN modules = Ids
  BY LenProperties DEF TypeOK, Ids
<1>3. modules'[k] = r /\ \A m \in Ids : m # k => modules'[m] = modules[m]
  BY <1>2
<1> QED BY <1>1, <1>3 DEF Grown

(* The module that is innermost, when it is finished, is translated; a load
   has initialised its package before it began. *)
LEMMA FinishedIsUsable ==
    ASSUME LoaderInv, UsableInv, Finished, Top.kind = "load"
    PROVE  Top.mod \in Ids /\ Translated(Top.mod) /\ Initialised(Top.mod)
<1>1. ~Idle
  BY DEF Finished, Parsed
<1>2. Top.mod \in Ids /\ Len(frames) \in DOMAIN frames /\ Top = frames[Len(frames)]
  BY <1>1, TopType DEF LoaderInv, Top
<1>3. Translated(Top.mod)
  BY DEF Finished, Translated, Current
<1> QED BY <1>2, <1>3 DEF UsableInv

(* What a step can change of the facts in UsableInv, and why it may. *)
LEMMA UsableKeeps ==
    ASSUME LoaderInv, UsableInv, Grown,
           \A p \in Elements(public_modules)' :
              \/ p \in Elements(public_modules)
              \/ p \in Ids /\ Translated(p) /\ Initialised(p),
           \A m \in Ids' : \A n \in modules'[m].includes :
              \/ m \in Ids /\ n \in modules[m].includes
              \/ n \in Ids /\ Translated(n) /\ Initialised(n),
           \A i \in DOMAIN frames' :
              \/ /\ i \in DOMAIN frames
                 /\ frames'[i].mod = frames[i].mod /\ frames'[i].kind = frames[i].kind
              \/ /\ frames'[i].kind = "load" => Initialised(frames[i].mod)'
                 /\ frames'[i].kind = "command" => modules'[frames'[i].mod].file = CommandLine,
           result'.ok =>
              \/ result.ok /\ result'.mod = result.mod
              \/ result'.mod \in Ids /\ (Translated(result'.mod) \/ modules[result'.mod].file = CommandLine)
    PROVE  UsableInv'
<1> USE DEF LoaderInv
<1>1. /\ Elements(public_modules) \subseteq Ids
      /\ \A i \in DOMAIN frames : frames[i].mod \in Ids
      /\ \A m \in Ids : modules[m].includes \subseteq Ids
      /\ result.ok => result.mod \in Ids
  BY Indices DEF KnownIds, Elements
<1>2. \A m \in Ids : /\ Translated(m) => Translated(m)'
                     /\ Initialised(m) => Initialised(m)'
                     /\ modules'[m].file = modules[m].file
  BY GrownKeeps DEF Grown
<1>3. ASSUME NEW p \in Elements(public_modules)' PROVE Translated(p)' /\ Initialised(p)'
  BY <1>1, <1>2 DEF UsableInv
<1>4. ASSUME NEW m \in Ids', NEW n \in modules'[m].includes
      PROVE  Translated(n)' /\ Initialised(n)'
  <2>1. n \in Ids /\ Translated(n) /\ Initialised(n)
    BY <1>1 DEF UsableInv
  <2> QED BY <1>2, <2>1
<1>5. ASSUME NEW i \in DOMAIN frames'
      PROVE  /\ frames'[i].kind = "load" => Initialised(frames[i].mod)'
             /\ frames'[i].kind = "command" => modules'[frames'[i].mod].file = CommandLine
  <2>1. ASSUME i \in DOMAIN frames,
               frames'[i].mod = frames[i].mod, frames'[i].kind = frames[i].kind
        PROVE  /\ frames'[i].kind = "load" => Initialised(frames[i].mod)'
               /\ frames'[i].kind = "command" => modules'[frames'[i].mod].file = CommandLine
    <3> PICK m \in Ids : m = frames[i].mod
      BY <1>1, <2>1
    <3>1. /\ frames[i].kind = "load" => Initialised(m)
          /\ frames[i].kind = "command" => modules[m].file = CommandLine
      BY <2>1 DEF UsableInv
    <3> QED BY <1>2, <2>1, <3>1
  <2> QED BY <2>1
<1>6. ASSUME result'.ok
      PROVE  Translated(result.mod)' \/ modules'[result'.mod].file = CommandLine
  <2>1. /\ result'.mod \in Ids
        /\ Translated(result'.mod) \/ modules[result'.mod].file = CommandLine
    BY <1>1, <1>6 DEF UsableInv
  <2> QED BY <1>2, <2>1
<1> QED BY <1>3, <1>4, <1>5, <1>6 DEF UsableInv

LEMMA UsableInit == Init => UsableInv
  BY DEF Init, UsableInv, Elements, Ids, NoResult

(* Steps that write no module. *)
LEMMA SameGrows ==
    ASSUME modules' = modules, external_packages' = external_packages
    PROVE  Grown
  BY DEF Grown, Ids

(* A load begins: with its package initialised, if it is not to parse only. *)
LEMMA StartLoadUsable ==
    ASSUME LoaderInv, UsableInv, NEW f \in Files, NEW analyse \in BOOLEAN,
           StartLoad(f, analyse), result' = result
    PROVE  UsableInv'
<1> DEFINE r == NewModule(f, analyse)
           e == [kind |-> "load", mod |-> Len(modules) + 1, next |-> FirstUse]
<1>1. r \in ModuleRecord
  BY NewModuleType DEF Sources
<1>2. /\ modules' = Append(modules, r) /\ frames' = Append(frames, e)
      /\ public_modules' = public_modules
      /\ external_packages \subseteq external_packages'
      /\ analyse \/ PackageOf[f] \in external_packages' \cup {NoPackage}
  BY DEF StartLoad
<1>3. /\ Grown /\ modules'[Len(modules) + 1] = r /\ Ids' = Ids \cup {Len(modules) + 1}
      /\ \A m \in Ids : modules'[m].includes = modules[m].includes
  BY <1>1, <1>2, AppendGrows DEF LoaderInv
<1>4. r.file = f /\ r.just_analyse = analyse /\ r.includes = {}
  BY DEF NewModule
<1>5. Elements(public_modules)' = Elements(public_modules)
  BY <1>2 DEF Elements
<1>6. \A m \in Ids' : \A n \in modules'[m].includes : m \in Ids /\ n \in modules[m].includes
  BY <1>3, <1>4
<1>7. ASSUME NEW i \in DOMAIN frames'
      PROVE  \/ /\ i \in DOMAIN frames
                /\ frames'[i].mod = frames[i].mod /\ frames'[i].kind = frames[i].kind
             \/ /\ frames'[i].kind = "load" => Initialised(frames[i].mod)'
                /\ frames'[i].kind = "command" => modules'[frames'[i].mod].file = CommandLine
  <2>1. /\ Len(frames) \in Nat /\ DOMAIN frames = 1 .. Len(frames)
        /\ DOMAIN frames' = 1 .. Len(frames) + 1
        /\ frames'[Len(frames) + 1] = e
        /\ \A j \in 1 .. Len(frames) : frames'[j] = frames[j]
    BY <1>2, Indices DEF LoaderInv, TypeOK
  <2>2. CASE i \in 1 .. Len(frames)
    BY <2>1, <2>2
  <2>3. CASE i = Len(frames) + 1
    <3>1. frames'[i].mod = Len(modules) + 1 /\ frames'[i].kind = "load"
      BY <2>1, <2>3
    <3>2. Initialised(frames[i].mod)'
      BY <1>2, <1>3, <1>4, <3>1 DEF Initialised
    <3> QED BY <3>1, <3>2
  <2> QED BY <2>1, <2>2, <2>3
<1> QED BY <1>3, <1>5, <1>6, <1>7, UsableKeeps

(* A call with a module of its own begins, which is not a load. *)
LEMMA OpenedUsable ==
    ASSUME LoaderInv, UsableInv, NEW f \in Sources, NEW analyse \in BOOLEAN, NEW kind,
           Idle, modules' = Append(modules, NewModule(f, analyse)),
           frames' = <<[kind |-> kind, mod |-> Len(modules) + 1, next |-> FirstUse]>>,
           kind # "load", kind = "command" => f = CommandLine,
           public_modules' = public_modules, external_packages' = external_packages,
           result' = result
    PROVE  UsableInv'
<1> DEFINE r == NewModule(f, analyse)
<1>1. r \in ModuleRecord
  BY NewModuleType
<1>2. /\ Grown /\ modules'[Len(modules) + 1] = r /\ Ids' = Ids \cup {Len(modules) + 1}
      /\ \A m \in Ids : modules'[m].includes = modules[m].includes
  BY <1>1, AppendGrows DEF LoaderInv
<1>3. r.file = f /\ r.includes = {}
  BY DEF NewModule
<1>4. Elements(public_modules)' = Elements(public_modules)
  BY DEF Elements
<1>5. \A m \in Ids' : \A n \in modules'[m].includes : m \in Ids /\ n \in modules[m].includes
  BY <1>2, <1>3
<1>6. \A i \in DOMAIN frames' : /\ frames'[i].kind = kind
                               /\ modules'[frames'[i].mod].file = f
  BY <1>2, <1>3
<1>7. \A i \in DOMAIN frames' :
        /\ frames'[i].kind = "load" => Initialised(frames[i].mod)'
        /\ frames'[i].kind = "command" => modules'[frames'[i].mod].file = CommandLine
  BY <1>6
<1> QED BY <1>2, <1>4, <1>5, <1>7, UsableKeeps

(* The parser includes a public module. *)
LEMMA ImportCachedUsable ==
    ASSUME LoaderInv, UsableInv, NEW f \in Files, ImportCached(f)
    PROVE  UsableInv'
<1>1. PICK p \in PublicWith(f) : modules' = Include(p)
  BY DEF ImportCached
<1>2. /\ ~Idle /\ frames' = [frames EXCEPT ![Len(frames)].next = @ + 1]
      /\ public_modules' = public_modules /\ external_packages' = external_packages
      /\ result' = result
  BY DEF ImportCached, AtUse
<1>3. Top.mod \in Ids /\ Current \in ModuleRecord /\ Current = modules[Top.mod]
  BY <1>2, TopType DEF LoaderInv, Current
<1>4. /\ p \in Elements(public_modules) /\ p \in Ids /\ p \in Nat
      /\ Translated(p) /\ Initialised(p)
  <2>1. p \in Elements(public_modules)
    BY DEF PublicWith
  <2>2. p \in Ids /\ Ids \subseteq Nat
    BY <2>1, Indices DEF LoaderInv, Elements
  <2> QED BY <2>1, <2>2 DEF UsableInv
<1> DEFINE r == [Current EXCEPT !.includes = @ \cup {p}]
<1>5. /\ r \in ModuleRecord /\ r.file = Current.file /\ r.just_analyse = Current.just_analyse
      /\ r.compiled = Current.compiled /\ r.includes = Current.includes \cup {p}
  BY <1>3, <1>4 DEF ModuleRecord
<1>6. modules' = [modules EXCEPT ![Top.mod] = r]
  BY <1>1 DEF Include, Current
<1> HIDE DEF r
<1>7. /\ Grown /\ Ids' = Ids /\ modules'[Top.mod] = r
      /\ \A m \in Ids : m # Top.mod => modules'[m].includes = modules[m].includes
  BY <1>2, <1>3, <1>5, <1>6, UpdateGrows DEF LoaderInv
<1>8. ASSUME NEW m \in Ids', NEW n \in modules'[m].includes
      PROVE  \/ m \in Ids /\ n \in modules[m].includes
             \/ n \in Ids /\ Translated(n) /\ Initialised(n)
  <2>1. CASE m = Top.mod
    BY <1>3, <1>4, <1>5, <1>7, <2>1
  <2>2. CASE m # Top.mod
    BY <1>7, <2>2
  <2> QED BY <2>1, <2>2
<1>9. Elements(public_modules)' = Elements(public_modules)
  BY <1>2 DEF Elements
<1>10. ASSUME NEW i \in DOMAIN frames'
       PROVE  /\ i \in DOMAIN frames
              /\ frames'[i].mod = frames[i].mod /\ frames'[i].kind = frames[i].kind
  BY <1>2, <1>10
<1> QED BY <1>2, <1>7, <1>8, <1>9, <1>10, UsableKeeps

(* A load returns: its module, translated by now, is published and included. *)
LEMMA ReturnLoadUsable ==
    ASSUME LoaderInv, UsableInv, ReturnLoad
    PROVE  UsableInv'
<1> DEFINE n == Len(frames)
           k == n - 1
<1>1. /\ ~Idle /\ Finished /\ Top.kind = "load"
      /\ public_modules' = Append(public_modules, Top.mod)
      /\ external_packages' = external_packages
  BY DEF ReturnLoad, Finished, Parsed, Published
<1>2. Top.mod \in Ids /\ Translated(Top.mod) /\ Initialised(Top.mod)
  BY <1>1, FinishedIsUsable
<1>3. \A p \in Elements(public_modules)' : p \in Elements(public_modules) \/ p = Top.mod
  BY <1>1 DEF LoaderInv, TypeOK, Elements
<1>4. /\ n \in Nat \ {0} /\ DOMAIN frames = 1 .. n
      /\ \A i \in 1 .. k : frames[i].mod \in Ids
      /\ DOMAIN Pop(frames) = 1 .. k
      /\ \A i \in 1 .. k : Pop(frames)[i] = frames[i]
  BY <1>1, Innermost
<1>5. CASE n = 1
  <2>1. /\ frames' = <<>> /\ modules' = modules
        /\ result' = [ok |-> TRUE, mod |-> Top.mod, analyse |-> Current.just_analyse]
    BY <1>5 DEF ReturnLoad
  <2>2. Grown /\ Ids' = Ids
    BY <1>1, <2>1, SameGrows DEF Ids
  <2>3. DOMAIN frames' = {}
    BY <2>1
  <2> QED BY <1>2, <1>3, <2>1, <2>2, <2>3, UsableKeeps
<1>6. CASE n # 1
  <2> DEFINE c == frames[k].mod
             r == [modules[c] EXCEPT !.includes = @ \cup {Top.mod}]
  <2>1. /\ frames' = [Pop(frames) EXCEPT ![k].next = @ + 1]
        /\ modules' = [modules EXCEPT ![c].includes = @ \cup {Top.mod}]
        /\ result' = result
    BY <1>6 DEF ReturnLoad
  <2>2. k \in 1 .. k /\ \A i \in 1 .. k : i \in 1 .. n
    <3>1. \A z \in Nat \ {0} : z # 1 => z - 1 \in 1 .. z - 1 /\ \A i \in 1 .. z - 1 : i \in 1 .. z
      OBVIOUS
    <3> QED BY <1>4, <1>6, <3>1, Zenon
  <2>3. c \in Ids /\ modules[c] \in ModuleRecord /\ Top.mod \in Nat
    <3>1. c \in Ids
      BY <1>4, <2>2
    <3>2. modules[c] \in ModuleRecord
      <4> HIDE DEF c
      <4> QED BY <3>1, ElementOfSeq DEF LoaderInv, TypeOK, Ids
    <3>3. Top.mod \in Nat
      BY <1>2, Indices DEF LoaderInv
    <3> QED BY <3>1, <3>2, <3>3
  <2>4. /\ r \in ModuleRecord /\ r.file = modules[c].file
        /\ r.just_analyse = modules[c].just_analyse /\ r.compiled = modules[c].compiled
        /\ r.includes = modules[c].includes \cup {Top.mod}
    <3> HIDE DEF c
    <3> QED BY <2>3 DEF ModuleRecord
  <2>5. modules' = [modules EXCEPT ![c] = r]
    BY <2>1
  <2> HIDE DEF c, r
  <2>6. /\ Grown /\ Ids' = Ids /\ modules'[c] = r
        /\ \A m \in Ids : m # c => modules'[m].includes = modules[m].includes
    BY <1>1, <2>3, <2>4, <2>5, UpdateGrows DEF LoaderInv
  <2>7. ASSUME NEW m \in Ids', NEW j \in modules'[m].includes
        PROVE  \/ m \in Ids /\ j \in modules[m].includes
               \/ j \in Ids /\ Translated(j) /\ Initialised(j)
    <3>1. CASE m = c
      BY <1>2, <2>3, <2>4, <2>6, <3>1
    <3>2. CASE m # c
      BY <2>6, <3>2
    <3> QED BY <3>1, <3>2
  <2>8. ASSUME NEW i \in DOMAIN frames'
        PROVE  /\ i \in DOMAIN frames
               /\ frames'[i].mod = frames[i].mod /\ frames'[i].kind = frames[i].kind
    <3>1. i \in 1 .. k
      BY <1>4, <2>1
    <3>2. frames'[i].mod = Pop(frames)[i].mod /\ frames'[i].kind = Pop(frames)[i].kind
      BY <1>4, <2>1, <3>1
    <3> QED BY <1>4, <2>2, <3>1, <3>2
  <2> QED BY <1>2, <1>3, <2>1, <2>6, <2>7, <2>8, UsableKeeps
<1> QED BY <1>5, <1>6

(* Compile and Unwind write one field of the innermost module. *)
LEMMA FieldWrittenUsable ==
    ASSUME LoaderInv, UsableInv, ~Idle, NEW r \in ModuleRecord,
           modules' = [modules EXCEPT ![Top.mod] = r],
           r.file = Current.file, r.just_analyse = Current.just_analyse,
           Current.compiled => r.compiled, r.includes = Current.includes,
           public_modules' = public_modules, external_packages' = external_packages,
           frames' = frames \/ frames' = Pop(frames),
           result' = result \/ ~result'.ok
    PROVE  UsableInv'
<1>1. Top.mod \in Ids /\ Current = modules[Top.mod]
  BY TopType DEF LoaderInv, Current
<1>2. /\ Grown /\ Ids' = Ids /\ modules'[Top.mod] = r
      /\ \A m \in Ids : m # Top.mod => modules'[m].includes = modules[m].includes
  BY <1>1, UpdateGrows DEF LoaderInv
<1>3. \A m \in Ids' : \A n \in modules'[m].includes : m \in Ids /\ n \in modules[m].includes
  BY <1>1, <1>2
<1>4. Elements(public_modules)' = Elements(public_modules)
  BY DEF Elements
<1>5. ASSUME NEW i \in DOMAIN frames'
      PROVE  /\ i \in DOMAIN frames
             /\ frames'[i].mod = frames[i].mod /\ frames'[i].kind = frames[i].kind
  <2>1. /\ DOMAIN frames = 1 .. Len(frames) /\ Len(frames) \in Nat \ {0}
        /\ DOMAIN Pop(frames) = 1 .. Len(frames) - 1
        /\ \A j \in 1 .. Len(frames) - 1 : Pop(frames)[j] = frames[j]
    BY Innermost
  <2>2. \A z \in Nat : \A j \in 1 .. z - 1 : j \in 1 .. z
    OBVIOUS
  <2> QED BY <2>1, <2>2
<1> QED BY <1>2, <1>3, <1>4, <1>5, UsableKeeps

(* Steps that write no module and publish nothing. *)
LEMMA QuietUsable ==
    ASSUME LoaderInv, UsableInv, modules' = modules, external_packages' = external_packages,
           public_modules' = public_modules \/ public_modules' = <<>>,
           frames' = frames \/ frames' = <<>>,
           result'.ok =>
              \/ result' = result
              \/ result'.mod \in Ids /\ (Translated(result'.mod) \/ modules[result'.mod].file = CommandLine)
    PROVE  UsableInv'
<1>1. Grown /\ Ids' = Ids
  BY SameGrows DEF Ids
<1>2. \A p \in Elements(public_modules)' : p \in Elements(public_modules)
  BY DEF Elements
<1> QED BY <1>1, <1>2, UsableKeeps

LEMMA UsableNext == LoaderInv /\ UsableInv /\ [Next]_loaderVars => UsableInv'
<1> SUFFICES ASSUME LoaderInv, UsableInv, [Next]_loaderVars PROVE UsableInv'
  OBVIOUS
<1> USE ModesAssumption
<1>t. TypeOK
  BY DEF LoaderInv
<1>1. ASSUME NEW f \in Files, NEW analyse \in Modes, LoadCached(f, analyse) PROVE UsableInv'
  <2>1. PICK m \in PublicWith(f) : result' = [ok |-> TRUE, mod |-> m, analyse |-> analyse]
    BY <1>1 DEF LoadCached
  <2>2. m \in Elements(public_modules)
    BY DEF PublicWith
  <2>3. m \in Ids /\ Translated(m)
    BY <1>t, <2>2, Indices DEF Elements, UsableInv
  <2> QED BY <1>1, <2>1, <2>3, QuietUsable DEF LoadCached
<1>2. ASSUME NEW f \in Files, NEW analyse \in Modes, LoadModule(f, analyse) PROVE UsableInv'
  BY <1>2, StartLoadUsable DEF LoadModule
<1>3. ASSUME NEW f \in Files, NEW analyse \in Modes, CreateModuleForSource(f, analyse)
      PROVE  UsableInv'
  <2>1. /\ Idle /\ modules' = Append(modules, NewModule(f, analyse))
        /\ frames' = <<[kind |-> "source", mod |-> Len(modules) + 1, next |-> FirstUse]>>
        /\ public_modules' = public_modules /\ external_packages' = external_packages
        /\ result' = result
    BY <1>3 DEF CreateModuleForSource
  <2>2. f \in Sources /\ analyse \in BOOLEAN
    BY DEF Sources
  <2>3. "source" # "load" /\ "source" # "command"
    OBVIOUS
  <2> QED BY <2>1, <2>2, <2>3, OpenedUsable
<1>4. CASE ExecuteSingleCommand
  <2>1. /\ Idle /\ modules' = Append(modules, NewModule(CommandLine, FALSE))
        /\ frames' = <<[kind |-> "command", mod |-> Len(modules) + 1, next |-> FirstUse]>>
        /\ public_modules' = public_modules /\ external_packages' = external_packages
        /\ result' = result
    BY <1>4 DEF ExecuteSingleCommand
  <2>2. CommandLine \in Sources /\ FALSE \in BOOLEAN /\ "command" # "load"
    BY DEF Sources
  <2> QED BY <2>1, <2>2, OpenedUsable
<1>5. CASE CleanUp
  BY <1>5, QuietUsable DEF CleanUp
<1>6. ASSUME NEW f \in Files, RecursiveImport(f) PROVE UsableInv'
  BY <1>6, QuietUsable DEF RecursiveImport
<1>7. ASSUME NEW f \in Files, ImportCached(f) PROVE UsableInv'
  BY <1>7, ImportCachedUsable
<1>8. ASSUME NEW f \in Files, ImportLoad(f) PROVE UsableInv'
  <2>1. ImportFlag \in BOOLEAN
    BY <1>8, <1>t, TopType DEF ImportLoad, AtUse, ImportFlag, ModuleRecord
  <2> QED BY <1>8, <2>1, StartLoadUsable DEF ImportLoad
<1>9. CASE RegisterSource
  BY <1>9, QuietUsable DEF RegisterSource
<1>10. CASE Compile
  <2>1. ~Idle /\ Current \in ModuleRecord
    BY <1>10, <1>t, TopType DEF Compile, Parsed
  <2> DEFINE r == [Current EXCEPT !.compiled = TRUE]
  <2>2. /\ r \in ModuleRecord /\ r.file = Current.file /\ r.just_analyse = Current.just_analyse
        /\ r.compiled = TRUE /\ r.includes = Current.includes
    BY <2>1 DEF ModuleRecord
  <2>3. /\ modules' = [modules EXCEPT ![Top.mod] = r] /\ public_modules' = public_modules
        /\ external_packages' = external_packages /\ frames' = frames /\ result' = result
    BY <1>10 DEF Compile, Current
  <2> HIDE DEF r
  <2> QED BY <2>1, <2>2, <2>3, FieldWrittenUsable
<1>11. CASE ReturnLoad
  BY <1>11, ReturnLoadUsable
<1>12. CASE ReturnOther
  <2>1. /\ ~Idle /\ result' = [ok |-> TRUE, mod |-> Top.mod, analyse |-> Current.just_analyse]
    BY <1>12 DEF ReturnOther, Finished, Parsed
  <2>2. Top.mod \in Ids /\ Len(frames) \in DOMAIN frames /\ Top = frames[Len(frames)]
    BY <1>t, <2>1, TopType DEF Top
  <2>3. Translated(Top.mod) \/ modules[Top.mod].file = CommandLine
    <3>1. CASE Finished
      BY <3>1 DEF Finished, Translated, Current
    <3>2. CASE Top.kind = "command"
      BY <2>2, <3>2 DEF UsableInv
    <3> QED BY <1>12, <3>1, <3>2 DEF ReturnOther
  <2> QED BY <1>12, <2>1, <2>2, <2>3, QuietUsable DEF ReturnOther
<1>13. ASSUME NEW kind \in Failures, Fail(kind) PROVE UsableInv'
  BY <1>13, QuietUsable DEF Fail
<1>14. CASE Unwind
  <2>1. ~Idle /\ Current \in ModuleRecord /\ thrown \in Outcomes
    BY <1>14, <1>t, TopType DEF Unwind, TypeOK
  <2> DEFINE r == [Current EXCEPT !.failed = thrown]
  <2>2. /\ r \in ModuleRecord /\ r.file = Current.file /\ r.just_analyse = Current.just_analyse
        /\ r.compiled = Current.compiled /\ r.includes = Current.includes
    BY <2>1 DEF ModuleRecord
  <2>3. /\ modules' = [modules EXCEPT ![Top.mod] = r] /\ public_modules' = public_modules
        /\ external_packages' = external_packages /\ frames' = Pop(frames)
        /\ result' = result \/ ~result'.ok
    BY <1>14 DEF Unwind, Current, NoResult
  <2> HIDE DEF r
  <2> QED BY <2>1, <2>2, <2>3, FieldWrittenUsable
<1>15. CASE UNCHANGED loaderVars
  BY <1>15, QuietUsable DEF loaderVars
<1> QED
  BY <1>1, <1>2, <1>3, <1>4, <1>5, <1>6, <1>7, <1>8, <1>9, <1>10, <1>11, <1>12, <1>13,
     <1>14, <1>15 DEF Next, Call, Progress

-----------------------------------------------------------------------------
(* What is public or included is translated, and its package is initialised. *)
THEOREM UsableInvariant == Spec => []UsableInv
<1> QED BY UsableInit, UsableNext, LoaderInvariant, PTL DEF Spec

(* A full load that succeeds returns a module that is translated, with all it
   includes, and whose packages are initialised, if nobody asked this Context
   to parse only. *)
THEOREM LoadedIsUsable == Spec => []FullLoadUsable
<1>1. LoaderInv /\ UsableInv => FullLoadUsable
  <2> SUFFICES ASSUME LoaderInv, UsableInv, \A m \in Ids : ~modules[m].just_analyse,
                      result.ok, modules[result.mod].file # CommandLine
               PROVE  /\ modules[result.mod].compiled
                      /\ \A m \in modules[result.mod].includes :
                            /\ modules[m].compiled
                            /\ PackageOf[modules[m].file] \in external_packages \cup {NoPackage}
    BY DEF FullLoadUsable
  <2>1. result.mod \in Ids /\ modules[result.mod].includes \subseteq Ids
    BY DEF LoaderInv, KnownIds
  <2>2. modules[result.mod].compiled
    BY <2>1 DEF UsableInv, Translated
  <2>3. ASSUME NEW m \in modules[result.mod].includes
        PROVE  /\ modules[m].compiled
               /\ PackageOf[modules[m].file] \in external_packages \cup {NoPackage}
    <3>1. m \in Ids /\ ~modules[m].just_analyse
      BY <2>1
    <3>2. Translated(m) /\ Initialised(m)
      BY <2>1 DEF UsableInv
    <3> QED BY <3>1, <3>2 DEF Translated, Initialised
  <2> QED BY <2>2, <2>3
<1> QED BY <1>1, LoaderInvariant, UsableInvariant, PTL
=============================================================================
