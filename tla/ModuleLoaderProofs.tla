------------------------- MODULE ModuleLoaderProofs -------------------------
(***************************************************************************)
(* Proofs about ModuleLoader, for all files, uses and bounds.              *)
(***************************************************************************)
EXTENDS ModuleLoader, SequenceTheorems, TLAPS

(* What the last entry of a sequence is, and what is left without it. *)
LEMMA PopProperties ==
    ASSUME NEW S, NEW s \in Seq(S)
    PROVE  /\ Pop(s) \in Seq(S)
           /\ s # <<>> => /\ Len(s) \in Nat \ {0}
                          /\ Len(Pop(s)) = Len(s) - 1
                          /\ s[Len(s)] \in S
                          /\ \A i \in 1 .. Len(s) - 1 : Pop(s)[i] = s[i]
<1>1. Len(s) \in Nat /\ \A i \in 1 .. Len(s) - 1 : s[i] \in S
  BY LenProperties, ElementOfSeq
<1>2. /\ Pop(s) \in Seq(S)
      /\ 1 <= Len(s) - 1 => Len(Pop(s)) = Len(s) - 1
      /\ ~(1 <= Len(s) - 1) => Len(Pop(s)) = 0
      /\ \A i \in 1 .. Len(s) - 1 : Pop(s)[i] = s[i]
  BY <1>1, SubSeqProperties DEF Pop
<1>3. s # <<>> => Len(s) \in Nat \ {0}
  BY EmptySeq
<1>4. s # <<>> => s[Len(s)] \in S
  BY <1>3, ElementOfSeq
<1>5. s # <<>> => Len(Pop(s)) = Len(s) - 1
  BY <1>2, <1>3
<1> QED BY <1>2, <1>3, <1>4, <1>5, Zenon

(* The same for one entry more. *)
LEMMA AppendedProperties ==
    ASSUME NEW S, NEW s \in Seq(S), NEW e \in S
    PROVE  /\ Append(s, e) \in Seq(S)
           /\ Len(Append(s, e)) = Len(s) + 1
           /\ Append(s, e)[Len(s) + 1] = e
           /\ \A i \in 1 .. Len(s) : Append(s, e)[i] = s[i]
  OBVIOUS

Frames(n) == [kind : Kinds, mod : 1 .. n, next : Nat \ {0}]

(* Updating one Module object or one activation keeps the type of the list. *)
LEMMA ModuleUpdate ==
    ASSUME TypeOK, NEW i \in Ids, NEW r \in ModuleRecord
    PROVE  /\ [modules EXCEPT ![i] = r] \in Seq(ModuleRecord)
           /\ Len([modules EXCEPT ![i] = r]) = Len(modules)
  BY ExceptSeq DEF TypeOK, Ids

(* The innermost activation and its module. *)
LEMMA TopType ==
    ASSUME TypeOK, ~Idle
    PROVE  /\ Len(frames) \in Nat \ {0}
           /\ Len(frames) \in DOMAIN frames
           /\ Top \in Frames(Len(modules))
           /\ Top.mod \in Ids
           /\ Current \in ModuleRecord
<1>1. frames \in Seq(Frames(Len(modules)))
  BY DEF TypeOK, Frames, Ids
<1>2. Len(frames) \in Nat \ {0} /\ DOMAIN frames = 1 .. Len(frames)
  BY <1>1, EmptySeq, LenProperties DEF Idle
<1>3. Top \in Frames(Len(modules))
  BY <1>1, <1>2, ElementOfSeq DEF Top
<1>4. Top.mod \in Ids
  BY <1>3 DEF Frames, Ids
<1>5. Current \in ModuleRecord
  BY <1>4, ElementOfSeq DEF Current, Ids, TypeOK
<1> QED BY <1>2, <1>3, <1>4, <1>5

(* Appending a module keeps every index of the old list valid. *)
LEMMA IdsGrow ==
    ASSUME TypeOK, NEW r \in ModuleRecord, modules' = Append(modules, r)
    PROVE  /\ modules' \in Seq(ModuleRecord)
           /\ Len(modules') = Len(modules) + 1
           /\ Len(modules) + 1 \in Ids'
           /\ Ids \subseteq Ids'
           /\ \A s : s \in Seq(Ids) => s \in Seq(Ids')
           /\ frames \in Seq(Frames(Len(modules')))
<1>1. /\ modules' \in Seq(ModuleRecord)
      /\ Len(modules') = Len(modules) + 1
      /\ Len(modules) \in Nat
  BY AppendedProperties, LenProperties DEF TypeOK
<1>2. Len(modules) + 1 \in Ids' /\ Ids \subseteq Ids'
  BY <1>1 DEF Ids
<1>3. \A s : s \in Seq(Ids) => s \in Seq(Ids')
  BY <1>2, SeqMonotonic
<1>4. Frames(Len(modules)) \subseteq Frames(Len(modules'))
  BY <1>1 DEF Frames
<1>5. frames \in Seq(Frames(Len(modules')))
  <2>1. frames \in Seq(Frames(Len(modules)))
    BY DEF TypeOK, Frames, Ids
  <2> QED BY <1>4, <2>1, SeqMonotonic
<1> QED BY <1>1, <1>2, <1>3, <1>5

(* A new module of any of the three kinds of call. *)
LEMMA NewModuleType ==
    ASSUME NEW f \in Sources, NEW analyse \in BOOLEAN
    PROVE  NewModule(f, analyse) \in ModuleRecord
  BY DEF NewModule, ModuleRecord, Outcomes

LEMMA StartLoadType ==
    ASSUME TypeOK, NEW f \in Files, NEW analyse \in BOOLEAN, StartLoad(f, analyse)
    PROVE  /\ modules' \in Seq(ModuleRecord)
           /\ Ids \subseteq Ids'
           /\ \A s : s \in Seq(Ids) => s \in Seq(Ids')
           /\ loading_module_stack' \in Seq(Ids')
           /\ public_modules' \in Seq(Ids')
           /\ frames' \in Seq(Frames(Len(modules')))
           /\ external_packages' \subseteq {PackageOf[g] : g \in Files}
<1>1. NewModule(f, analyse) \in ModuleRecord
  BY NewModuleType DEF Sources
<1>2. modules' = Append(modules, NewModule(f, analyse))
  BY DEF StartLoad
<1>3. /\ modules' \in Seq(ModuleRecord)
      /\ Len(modules') = Len(modules) + 1
      /\ Len(modules) + 1 \in Ids'
      /\ Ids \subseteq Ids'
      /\ \A s : s \in Seq(Ids) => s \in Seq(Ids')
      /\ frames \in Seq(Frames(Len(modules')))
  BY <1>1, <1>2, IdsGrow
<1>4. loading_module_stack' \in Seq(Ids')
  BY <1>3, AppendedProperties DEF StartLoad, TypeOK
<1>5. public_modules' \in Seq(Ids')
  BY <1>3 DEF StartLoad, TypeOK
<1>6. [kind |-> "load", mod |-> Len(modules) + 1, next |-> FirstUse] \in Frames(Len(modules'))
  BY <1>3 DEF Frames, Kinds, FirstUse, Ids
<1>7. frames' \in Seq(Frames(Len(modules')))
  BY <1>3, <1>6, AppendedProperties DEF StartLoad
<1>8. external_packages' \subseteq {PackageOf[g] : g \in Files}
  BY DEF StartLoad, TypeOK
<1> QED BY <1>3, <1>4, <1>5, <1>7, <1>8

LEMMA TypeInit == Init => TypeOK
  BY EmptySeq DEF Init, TypeOK, Ids, NoResult, Outcomes

(* One more use of an activation is dealt with. *)
LEMMA NextFrame ==
    ASSUME NEW S, NEW r \in [kind : Kinds, mod : S, next : Nat \ {0}]
    PROVE  [r EXCEPT !.next = @ + 1] \in [kind : Kinds, mod : S, next : Nat \ {0}]
  OBVIOUS

LEMMA NextUseType ==
    ASSUME TypeOK, NEW s \in Seq(Frames(Len(modules))), NEW i \in 1 .. Len(s)
    PROVE  [s EXCEPT ![i].next = @ + 1] \in Seq(Frames(Len(modules)))
<1>1. s[i] \in Frames(Len(modules))
  BY ElementOfSeq
<1>2. [s[i] EXCEPT !.next = @ + 1] \in Frames(Len(modules))
  BY <1>1, NextFrame DEF Frames
<1>3. [s EXCEPT ![i] = [s[i] EXCEPT !.next = @ + 1]] \in Seq(Frames(Len(modules)))
  BY <1>2, ExceptSeq
<1>4. [s EXCEPT ![i].next = @ + 1] = [s EXCEPT ![i] = [s[i] EXCEPT !.next = @ + 1]]
  OBVIOUS
<1> QED BY <1>3, <1>4

(* Every action of the loader keeps the types. *)
LEMMA TypeNext == TypeOK /\ [Next]_loaderVars => TypeOK'
<1> SUFFICES ASSUME TypeOK, [Next]_loaderVars PROVE TypeOK'
  OBVIOUS
<1> USE ModesAssumption, FailuresAssumption
<1>u. uses' = uses
  BY DEF Next, Call, Progress, Fail, loaderVars
<1>0. frames \in Seq(Frames(Len(modules))) /\ Len(modules) \in Nat
  BY LenProperties DEF TypeOK, Frames, Ids
<1>1. ASSUME NEW f \in Files, NEW analyse \in Modes, LoadCached(f, analyse) PROVE TypeOK'
  BY <1>u, <1>1 DEF LoadCached, TypeOK, Ids, PublicWith, Elements
<1>2. ASSUME NEW f \in Files, NEW analyse \in Modes, LoadModule(f, analyse) PROVE TypeOK'
  <2>1. StartLoad(f, analyse) /\ analyse \in BOOLEAN
    BY <1>2 DEF LoadModule
  <2>2. /\ modules' \in Seq(ModuleRecord)
        /\ \A s : s \in Seq(Ids) => s \in Seq(Ids')
        /\ loading_module_stack' \in Seq(Ids')
        /\ public_modules' \in Seq(Ids')
        /\ frames' \in Seq(Frames(Len(modules')))
        /\ external_packages' \subseteq {PackageOf[g] : g \in Files}
    BY <2>1, StartLoadType
  <2>3. created_modules' \in Seq(Ids')
    BY <1>u, <1>2, <2>2 DEF LoadModule, TypeOK
  <2>4. frames' \in Seq([kind : Kinds, mod : Ids', next : Nat \ {0}])
    BY <2>2 DEF Frames, Ids
  <2> QED BY <1>u, <1>2, <2>2, <2>3, <2>4 DEF LoadModule, TypeOK
<1>3. ASSUME NEW f \in Files, NEW analyse \in Modes, CreateModuleForSource(f, analyse)
      PROVE  TypeOK'
  <2>1. NewModule(f, analyse) \in ModuleRecord
    BY NewModuleType DEF Sources
  <2>2. modules' = Append(modules, NewModule(f, analyse))
    BY <1>3 DEF CreateModuleForSource
  <2>3. /\ modules' \in Seq(ModuleRecord)
        /\ Len(modules) + 1 \in Ids'
        /\ \A s : s \in Seq(Ids) => s \in Seq(Ids')
    BY <2>1, <2>2, IdsGrow
  <2>4. frames' \in Seq([kind : Kinds, mod : Ids', next : Nat \ {0}])
    BY <1>3, <2>3 DEF CreateModuleForSource, Kinds, FirstUse
  <2> QED BY <1>u, <1>3, <2>3, <2>4 DEF CreateModuleForSource, TypeOK
<1>4. ASSUME ExecuteSingleCommand PROVE TypeOK'
  <2>1. NewModule(CommandLine, FALSE) \in ModuleRecord
    BY NewModuleType DEF Sources
  <2>2. modules' = Append(modules, NewModule(CommandLine, FALSE))
    BY <1>4 DEF ExecuteSingleCommand
  <2>3. /\ modules' \in Seq(ModuleRecord)
        /\ Len(modules) + 1 \in Ids'
        /\ \A s : s \in Seq(Ids) => s \in Seq(Ids')
    BY <2>1, <2>2, IdsGrow
  <2>4. frames' \in Seq([kind : Kinds, mod : Ids', next : Nat \ {0}])
    BY <1>4, <2>3 DEF ExecuteSingleCommand, Kinds, FirstUse
  <2>5. loading_module_stack' \in Seq(Ids')
    BY <1>u, <1>4, <2>3, AppendedProperties DEF ExecuteSingleCommand, TypeOK
  <2>6. public_modules' \in Seq(Ids') /\ created_modules' \in Seq(Ids')
    BY <1>u, <1>4, <2>3 DEF ExecuteSingleCommand, TypeOK
  <2>7. /\ external_packages' = external_packages /\ thrown' = thrown
        /\ result' = result /\ calls' = calls + 1
    BY <1>4 DEF ExecuteSingleCommand
  <2> QED BY <1>u, <2>3, <2>4, <2>5, <2>6, <2>7, SMTT(40) DEF TypeOK
<1>5. CASE CleanUp
  BY <1>u, <1>5, EmptySeq DEF CleanUp, TypeOK, Ids
<1>6. ASSUME NEW f \in Files, RecursiveImport(f) PROVE TypeOK'
  BY <1>u, <1>6 DEF RecursiveImport, TypeOK, Ids, Outcomes
<1>7. ASSUME NEW f \in Files, ImportCached(f) PROVE TypeOK'
  <2>1. PICK m \in PublicWith(f) : modules' = Include(m)
    BY <1>7 DEF ImportCached
  <2>2. Top.mod \in Ids /\ Current \in ModuleRecord /\ Len(frames) \in 1 .. Len(frames)
    BY <1>7, TopType DEF ImportCached, AtUse
  <2>7. m \in Nat
    BY <1>u, <1>0 DEF PublicWith, Elements, TypeOK, Ids
  <2>3. [Current EXCEPT !.includes = @ \cup {m}] \in ModuleRecord
    BY <2>2, <2>7 DEF ModuleRecord
  <2>4. modules' = [modules EXCEPT ![Top.mod] = [Current EXCEPT !.includes = @ \cup {m}]]
    BY <2>1 DEF Include, Current
  <2>5. modules' \in Seq(ModuleRecord) /\ Ids' = Ids
    BY <2>2, <2>3, <2>4, ModuleUpdate DEF Ids
  <2>6. frames' \in Seq(Frames(Len(modules)))
    BY <1>0, <1>7, <2>2, NextUseType DEF ImportCached
  <2> QED BY <1>u, <1>7, <2>5, <2>6 DEF ImportCached, TypeOK, Frames, Ids
<1>8. ASSUME NEW f \in Files, ImportLoad(f) PROVE TypeOK'
  <2>1. ImportFlag \in BOOLEAN
    BY <1>8, TopType DEF ImportLoad, AtUse, ImportFlag, ModuleRecord
  <2>2. StartLoad(f, ImportFlag)
    BY <1>8 DEF ImportLoad
  <2>3. /\ modules' \in Seq(ModuleRecord)
        /\ \A s : s \in Seq(Ids) => s \in Seq(Ids')
        /\ loading_module_stack' \in Seq(Ids')
        /\ public_modules' \in Seq(Ids')
        /\ frames' \in Seq(Frames(Len(modules')))
        /\ external_packages' \subseteq {PackageOf[g] : g \in Files}
    BY <2>1, <2>2, StartLoadType
  <2>4. created_modules' \in Seq(Ids')
    BY <1>u, <1>8, <2>3 DEF ImportLoad, TypeOK
  <2>5. frames' \in Seq([kind : Kinds, mod : Ids', next : Nat \ {0}])
    BY <2>3 DEF Frames, Ids
  <2> QED BY <1>u, <1>8, <2>3, <2>4, <2>5 DEF ImportLoad, TypeOK
<1>9. CASE RegisterSource
  <2>1. Top.mod \in Ids
    BY <1>9, TopType DEF RegisterSource, Parsed
  <2>2. created_modules' \in Seq(Ids)
    BY <1>u, <1>9, <2>1, AppendedProperties DEF RegisterSource, TypeOK
  <2> QED BY <1>u, <1>9, <2>2 DEF RegisterSource, TypeOK, Ids
<1>10. CASE Compile
  <2>1. Top.mod \in Ids /\ Current \in ModuleRecord
    BY <1>10, TopType DEF Compile, Parsed
  <2>2. [Current EXCEPT !.compiled = TRUE] \in ModuleRecord
    BY <2>1 DEF ModuleRecord
  <2>3. modules' = [modules EXCEPT ![Top.mod] = [Current EXCEPT !.compiled = TRUE]]
    BY <1>10 DEF Compile, Current
  <2>4. modules' \in Seq(ModuleRecord) /\ Ids' = Ids
    BY <2>1, <2>2, <2>3, ModuleUpdate DEF Ids
  <2> QED BY <1>u, <1>10, <2>4 DEF Compile, TypeOK
<1>11. CASE ReturnLoad
  <2>1. Top.mod \in Ids /\ Current \in ModuleRecord /\ Len(frames) \in Nat \ {0}
    BY <1>11, TopType DEF ReturnLoad, Finished, Parsed
  <2>2. public_modules' \in Seq(Ids)
    BY <1>u, <1>11, <2>1, AppendedProperties DEF ReturnLoad, Published, TypeOK
  <2>3. loading_module_stack' \in Seq(Ids)
    BY <1>u, <1>11, PopProperties DEF ReturnLoad, PoppedStack, TypeOK
  <2>4. CASE Len(frames) = 1
    <3>1. frames' = <<>> /\ modules' = modules
      BY <1>11, <2>4 DEF ReturnLoad
    <3>2. result' \in [ok : BOOLEAN, mod : Nat, analyse : BOOLEAN]
      <4>1. result' = [ok |-> TRUE, mod |-> Top.mod, analyse |-> Current.just_analyse]
        BY <1>11, <2>4 DEF ReturnLoad
      <4>2. Top.mod \in Nat /\ Current.just_analyse \in BOOLEAN
        BY <1>0, <2>1 DEF Ids, ModuleRecord
      <4> QED BY <4>1, <4>2
    <3> QED BY <1>u, <1>11, <2>2, <2>3, <3>1, <3>2, EmptySeq DEF ReturnLoad, TypeOK, Ids
  <2>5. CASE Len(frames) # 1
    <3> DEFINE caller == Len(frames) - 1
               callee == modules[frames[caller].mod]
    <3>1. /\ frames' = [Pop(frames) EXCEPT ![caller].next = @ + 1]
          /\ modules' = [modules EXCEPT ![frames[caller].mod].includes = @ \cup {Top.mod}]
          /\ result' = result
      BY <1>11, <2>5 DEF ReturnLoad
    <3>0. frames # <<>>
      BY <1>11 DEF ReturnLoad, Finished, Parsed, Idle
    <3>2. caller \in 1 .. Len(frames)
      <4>1. \A k \in Nat \ {0} : k # 1 => k - 1 \in 1 .. k
        OBVIOUS
      <4> QED BY <2>1, <2>5, <4>1
    <3>3. frames[caller].mod \in Ids
      <4>1. frames[caller] \in Frames(Len(modules))
        BY <1>0, <3>2, ElementOfSeq
      <4> QED BY <4>1 DEF Frames, Ids
    <3>4. callee \in ModuleRecord
      BY <1>u, <3>3, ElementOfSeq DEF Ids, TypeOK
    <3>5. [callee EXCEPT !.includes = @ \cup {Top.mod}] \in ModuleRecord
      BY <2>1, <3>4 DEF ModuleRecord, Ids
    <3>6. modules' = [modules EXCEPT ![frames[caller].mod] = [callee EXCEPT !.includes = @ \cup {Top.mod}]]
      BY <3>1
    <3>7. modules' \in Seq(ModuleRecord) /\ Ids' = Ids
      BY <3>3, <3>5, <3>6, ModuleUpdate DEF Ids
    <3>8. Pop(frames) \in Seq(Frames(Len(modules))) /\ caller \in 1 .. Len(Pop(frames))
      BY <1>0, <2>1, <2>5, <3>0, <3>2, PopProperties
    <3>9. frames' \in Seq(Frames(Len(modules)))
      BY <3>1, <3>8, NextUseType
    <3> QED BY <1>u, <1>11, <2>2, <2>3, <3>1, <3>7, <3>9 DEF ReturnLoad, TypeOK, Frames, Ids
  <2> QED BY <2>4, <2>5
<1>12. CASE ReturnOther
  <2>1. Top.mod \in Ids /\ Current \in ModuleRecord
    BY <1>12, TopType DEF ReturnOther, Finished, Parsed
  <2>2. result' \in [ok : BOOLEAN, mod : Nat, analyse : BOOLEAN]
    BY <1>12, <2>1 DEF ReturnOther, Ids, ModuleRecord
  <2> QED BY <1>u, <1>12, <2>2, EmptySeq DEF ReturnOther, TypeOK, Ids
<1>13. ASSUME NEW kind \in Failures, Fail(kind) PROVE TypeOK'
  BY <1>u, <1>13 DEF Fail, TypeOK, Ids, Outcomes
<1>14. CASE Unwind
  <2>1. Top.mod \in Ids /\ Current \in ModuleRecord /\ frames # <<>>
    BY <1>14, TopType DEF Unwind, Idle
  <2>2. [Current EXCEPT !.failed = thrown] \in ModuleRecord
    BY <1>u, <2>1 DEF ModuleRecord, TypeOK
  <2>3. modules' = [modules EXCEPT ![Top.mod] = [Current EXCEPT !.failed = thrown]]
    BY <1>14 DEF Unwind, Current
  <2>4. modules' \in Seq(ModuleRecord) /\ Ids' = Ids
    BY <2>1, <2>2, <2>3, ModuleUpdate DEF Ids
  <2>5. frames' \in Seq(Frames(Len(modules)))
    BY <1>0, <1>14, PopProperties DEF Unwind
  <2>6. loading_module_stack' \in Seq(Ids)
    BY <1>u, <1>14, PopProperties DEF Unwind, PoppedStack, TypeOK
  <2>7. result' \in [ok : BOOLEAN, mod : Nat, analyse : BOOLEAN]
    <3>1. result' = [NoResult EXCEPT !.mod = Top.mod] \/ result' = result
      BY <1>14 DEF Unwind
    <3>2. Top.mod \in Nat
      BY <1>0, <2>1 DEF Ids
    <3> QED BY <1>u, <3>1, <3>2 DEF TypeOK, NoResult
  <2> QED BY <1>u, <1>14, <2>4, <2>5, <2>6, <2>7 DEF Unwind, TypeOK, Frames, Ids, Outcomes
<1>15. CASE UNCHANGED loaderVars
  BY <1>u, <1>15 DEF loaderVars, TypeOK, Ids
<1> QED
  BY <1>1, <1>2, <1>3, <1>4, <1>5, <1>6, <1>7, <1>8, <1>9, <1>10, <1>11, <1>12, <1>13,
     <1>14, <1>15 DEF Next, Call, Progress

(* Module objects, activations, stacks and results always have their types:
   no index that the loader keeps is dangling. *)
THEOREM TypeCorrect == Spec => []TypeOK
<1> QED BY TypeInit, TypeNext, PTL DEF Spec
-----------------------------------------------------------------------------
(* The indices of the lists the loader keeps, read off TypeOK. *)
LEMMA Indices ==
    ASSUME TypeOK
    PROVE  /\ Len(modules) \in Nat /\ Ids = 1 .. Len(modules)
           /\ Len(frames) \in Nat /\ DOMAIN frames = 1 .. Len(frames)
           /\ \A i \in DOMAIN frames : frames[i].mod \in Ids /\ frames[i].kind \in Kinds
                                      /\ frames[i].next \in Nat \ {0}
           /\ Len(loading_module_stack) \in Nat
           /\ DOMAIN loading_module_stack = 1 .. Len(loading_module_stack)
           /\ \A j \in DOMAIN loading_module_stack : loading_module_stack[j] \in Ids
           /\ Len(public_modules) \in Nat
           /\ DOMAIN public_modules = 1 .. Len(public_modules)
           /\ \A i \in DOMAIN public_modules : public_modules[i] \in Ids
<1>1. Len(modules) \in Nat /\ Ids = 1 .. Len(modules)
  BY LenProperties DEF TypeOK, Ids
<1>2. /\ Len(frames) \in Nat /\ DOMAIN frames = 1 .. Len(frames)
      /\ \A i \in DOMAIN frames : frames[i] \in [kind : Kinds, mod : Ids, next : Nat \ {0}]
  <2>1. frames \in Seq([kind : Kinds, mod : Ids, next : Nat \ {0}])
    BY DEF TypeOK
  <2>2. Len(frames) \in Nat /\ DOMAIN frames = 1 .. Len(frames)
    BY <2>1, LenProperties
  <2>3. ASSUME NEW i \in 1 .. Len(frames)
        PROVE  frames[i] \in [kind : Kinds, mod : Ids, next : Nat \ {0}]
    BY <2>1, ElementOfSeq
  <2> QED BY <2>2, <2>3
<1>3. /\ Len(loading_module_stack) \in Nat
      /\ DOMAIN loading_module_stack = 1 .. Len(loading_module_stack)
      /\ \A j \in DOMAIN loading_module_stack : loading_module_stack[j] \in Ids
  BY LenProperties, ElementOfSeq DEF TypeOK
<1>4. /\ Len(public_modules) \in Nat
      /\ DOMAIN public_modules = 1 .. Len(public_modules)
      /\ \A i \in DOMAIN public_modules : public_modules[i] \in Ids
  BY LenProperties, ElementOfSeq DEF TypeOK
<1> QED BY <1>1, <1>2, <1>3, <1>4

(* The uses of a module are a sequence of files. *)
LEMMA UsesAreFiles ==
    ASSUME TypeOK, NEW m \in Ids
    PROVE  /\ modules[m].file \in Sources
           /\ Len(uses[modules[m].file]) \in Nat
           /\ DOMAIN uses[modules[m].file] = 1 .. Len(uses[modules[m].file])
<1>1. modules[m] \in ModuleRecord
  BY ElementOfSeq DEF TypeOK, Ids
<1>2. uses \in [Sources -> Seq(Files)]
  BY UsesAssumption DEF TypeOK
<1>3. modules[m].file \in Sources
  BY <1>1 DEF ModuleRecord
<1>4. uses[modules[m].file] \in Seq(Files)
  BY <1>2, <1>3
<1> QED BY <1>3, <1>4, LenProperties

(* Public modules that an action leaves as they are stay whole and ordered. *)
LEMMA PublicKeeps ==
    ASSUME LoaderInv,
           uses' = uses, public_modules' = public_modules,
           \A m \in Elements(public_modules) : /\ modules'[m].file = modules[m].file
                                               /\ modules'[m].failed = modules[m].failed
                                               /\ modules'[m].includes = modules[m].includes
    PROVE  /\ PublicWhole' /\ NoDuplicatePublic' /\ DependencyOrder'
           /\ AvailableFiles' = AvailableFiles
           /\ Elements(public_modules)' = Elements(public_modules)
           /\ Elements(public_modules) \subseteq Ids
           /\ \A g : {m \in Elements(public_modules) : modules'[m].file = g} = PublicWith(g)
<1>1. /\ \A i \in DOMAIN public_modules : public_modules[i] \in Ids
      /\ DOMAIN public_modules = 1 .. Len(public_modules) /\ Len(public_modules) \in Nat
  BY Indices DEF LoaderInv
<1>2. /\ Elements(public_modules) \subseteq Ids
      /\ \A i \in DOMAIN public_modules : public_modules[i] \in Elements(public_modules)
  BY <1>1 DEF Elements
<1>3. Elements(public_modules)' = Elements(public_modules)
  BY DEF Elements
<1>4. AvailableFiles' = AvailableFiles
  BY <1>3 DEF AvailableFiles
<1>5. \A g : {m \in Elements(public_modules) : modules'[m].file = g} = PublicWith(g)
  BY DEF PublicWith
<1>6. PublicWhole'
  <2>1. \A i \in DOMAIN public_modules : \A j \in 1 .. i - 1 : j \in DOMAIN public_modules
    <3>1. \A n \in Nat : \A i \in 1 .. n : \A j \in 1 .. i - 1 : j \in 1 .. n
      OBVIOUS
    <3> QED BY <1>1, <3>1, Zenon
  <2>2. ASSUME NEW i \in DOMAIN public_modules
        PROVE  /\ modules'[public_modules[i]].file \in Files
               /\ modules'[public_modules[i]].failed = "none"
               /\ \A u \in DOMAIN uses[modules'[public_modules[i]].file] :
                     \E j \in 1 .. i - 1 : modules'[public_modules[j]].file
                                            = uses[modules'[public_modules[i]].file][u]
    <3>1. /\ modules'[public_modules[i]].file = modules[public_modules[i]].file
          /\ modules'[public_modules[i]].failed = modules[public_modules[i]].failed
      BY <1>2
    <3>2. \A j \in 1 .. i - 1 : modules'[public_modules[j]].file = modules[public_modules[j]].file
      BY <1>2, <2>1
    <3>3. /\ modules[public_modules[i]].file \in Files
          /\ modules[public_modules[i]].failed = "none"
          /\ \A u \in DOMAIN uses[modules[public_modules[i]].file] :
                     \E j \in 1 .. i - 1 : modules[public_modules[j]].file
                                            = uses[modules[public_modules[i]].file][u]
      BY DEF LoaderInv, PublicWhole
    <3> QED BY <3>1, <3>2, <3>3, ZenonT(40)
  <2> QED BY <2>2, Zenon DEF PublicWhole
<1>7. NoDuplicatePublic'
  BY <1>2 DEF NoDuplicatePublic, LoaderInv
<1>8. DependencyOrder'
  BY <1>2 DEF DependencyOrder, LoaderInv
<1> QED BY <1>2, <1>3, <1>4, <1>5, <1>6, <1>7, <1>8

(* An action that changes no list, no file and no include keeps the invariant. *)
LEMMA QuietKeeps ==
    ASSUME LoaderInv, TypeOK',
           uses' = uses, frames' = frames, public_modules' = public_modules,
           loading_module_stack' = loading_module_stack,
           Len(modules') = Len(modules),
           \A m \in Ids : /\ modules'[m].file = modules[m].file
                          /\ modules'[m].failed = modules[m].failed
                          /\ modules'[m].includes = modules[m].includes,
           thrown' # "foreign" => thrown # "foreign",
           result'.ok => /\ result'.mod \in Ids
                         /\ modules[result'.mod].failed = "none"
                         /\ \A i \in DOMAIN frames : frames[i].mod # result'.mod
    PROVE  LoaderInv'
<1> USE DEF LoaderInv
<1>1. /\ Ids' = Ids
      /\ \A i \in DOMAIN frames : frames[i].mod \in Ids
      /\ \A j \in DOMAIN loading_module_stack : loading_module_stack[j] \in Ids
      /\ Elements(public_modules) \subseteq Ids
      /\ DOMAIN frames = 1 .. Len(frames) /\ Len(frames) \in Nat
  BY Indices DEF Ids, Elements
<1>2. /\ PublicWhole' /\ NoDuplicatePublic' /\ DependencyOrder'
      /\ AvailableFiles' = AvailableFiles
  BY <1>1, PublicKeeps
<1>3. CallChain'
  <2>1. ASSUME NEW i \in DOMAIN frames, i > 1
        PROVE  i - 1 \in DOMAIN frames /\ frames[i - 1].mod \in Ids /\ frames[i].mod \in Ids
    BY <1>1, <2>1
  <2>2. ASSUME NEW i \in DOMAIN frames, i > 1
        PROVE  /\ frames[i].kind = "load"
               /\ frames[i - 1].next \in DOMAIN uses[modules'[frames[i - 1].mod].file]
               /\ modules'[frames[i].mod].file = uses[modules'[frames[i - 1].mod].file][frames[i - 1].next]
    <3>1. /\ modules'[frames[i - 1].mod].file = modules[frames[i - 1].mod].file
          /\ modules'[frames[i].mod].file = modules[frames[i].mod].file
      BY <2>1, <2>2
    <3>2. /\ frames[i].kind = "load"
          /\ frames[i - 1].next \in DOMAIN uses[modules[frames[i - 1].mod].file]
          /\ modules[frames[i].mod].file = uses[modules[frames[i - 1].mod].file][frames[i - 1].next]
      BY <2>2, Zenon DEF CallChain
    <3> QED BY <3>1, <3>2
  <2>3. ASSUME NEW i \in DOMAIN frames
        PROVE  /\ modules'[frames[i].mod].failed = "none"
               /\ frames[i].kind = "load" => modules'[frames[i].mod].file \in Files
    BY <1>1, <2>3 DEF CallChain
  <2> QED BY <2>2, <2>3 DEF CallChain
<1>4. OwnModules'
  BY DEF OwnModules
<1>5. StillPrivate'
  BY <1>1 DEF StillPrivate, PublicWith
<1>6. UsesIncluded'
  BY <1>1, <1>2 DEF UsesIncluded
<1>8. KnownIds'
  BY <1>1 DEF KnownIds
<1>11. ActiveOnce'
  BY <1>1 DEF ActiveOnce
<1>12. Accounted'
  BY <1>1 DEF Accounted
<1>13. Aligned'
  BY <1>1 DEF Aligned
<1>14. FailedStaysPrivate'
  BY <1>1 DEF FailedStaysPrivate, KnownIds
<1> QED BY <1>2, <1>3, <1>4, <1>5, <1>6, <1>8, <1>11, <1>12, <1>13, <1>14

(* Opening an activation: what load_module, an import, a module from source and
   a command have in common. *)
LEMMA OpenedKeeps ==
    ASSUME LoaderInv, TypeOK',
           NEW f \in Sources, NEW analyse \in BOOLEAN, NEW kind \in Kinds,
           uses' = uses, public_modules' = public_modules, result' = result, thrown' = thrown,
           modules' = Append(modules, NewModule(f, analyse)),
           frames' = Append(frames, [kind |-> kind, mod |-> Len(modules) + 1, next |-> 1]),
           loading_module_stack' = IF kind = "source" THEN loading_module_stack
                                   ELSE Append(loading_module_stack, Len(modules) + 1),
           kind = "command" => f = CommandLine,
           kind = "load" => /\ f \in Files /\ PublicWith(f) = {}
                            /\ \A i \in DOMAIN frames :
                                  frames[i].kind = "load" => modules[frames[i].mod].file # f,
           Idle \/ (kind = "load" /\ AtUse(f))
    PROVE  LoaderInv'
<1> DEFINE N == Len(modules)
           n == Len(frames)
           d == Len(loading_module_stack)
           new == [kind |-> kind, mod |-> N + 1, next |-> 1]
<1>1. /\ N \in Nat /\ n \in Nat /\ d \in Nat /\ Ids = 1 .. N
      /\ DOMAIN frames = 1 .. n
      /\ DOMAIN loading_module_stack = 1 .. d
      /\ \A i \in 1 .. n : frames[i].mod \in Ids
      /\ \A j \in 1 .. d : loading_module_stack[j] \in Ids
  BY Indices DEF LoaderInv
<1>2. /\ Ids' = 1 .. N + 1
      /\ \A m \in Ids : modules'[m] = modules[m] /\ m \in Ids' /\ m # N + 1
      /\ \A m \in Ids' : m \in Ids \/ m = N + 1
      /\ modules'[N + 1] = NewModule(f, analyse)
  <2>1. NewModule(f, analyse) \in ModuleRecord
    BY NewModuleType
  <2>2. modules \in Seq(ModuleRecord)
    BY DEF LoaderInv, TypeOK
  <2>3. /\ Len(modules') = N + 1 /\ modules'[N + 1] = NewModule(f, analyse)
        /\ \A m \in 1 .. N : modules'[m] = modules[m]
    BY <2>1, <2>2, AppendedProperties
  <2>4. \A k \in Nat : \A m : (m \in 1 .. k => m \in 1 .. k + 1 /\ m # k + 1)
                              /\ (m \in 1 .. k + 1 => m \in 1 .. k \/ m = k + 1)
    OBVIOUS
  <2> QED BY <1>1, <2>3, <2>4 DEF Ids
<1>3. /\ DOMAIN frames' = 1 .. n + 1
      /\ Len(frames') = n + 1
      /\ frames'[n + 1] = new
      /\ \A i \in 1 .. n : frames'[i] = frames[i] /\ i \in 1 .. n + 1
      /\ \A i \in 1 .. n + 1 : i \in 1 .. n \/ i = n + 1
  <2>1. \A k \in Nat : \A m : (m \in 1 .. k => m \in 1 .. k + 1)
                              /\ (m \in 1 .. k + 1 => m \in 1 .. k \/ m = k + 1)
    OBVIOUS
  <2>2. frames \in Seq(Frames(N)) /\ new \in Frames(N + 1) /\ frames \in Seq(Frames(N + 1))
    <3>1. frames \in Seq(Frames(N))
      BY DEF LoaderInv, TypeOK, Frames, Ids
    <3>2. Frames(N) \subseteq Frames(N + 1)
      BY <1>1 DEF Frames
    <3>3. new \in Frames(N + 1)
      BY <1>1 DEF Frames
    <3> QED BY <3>1, <3>2, <3>3, SeqMonotonic
  <2>3. /\ Len(frames') = n + 1 /\ frames'[n + 1] = new
        /\ \A i \in 1 .. n : frames'[i] = frames[i]
        /\ frames' \in Seq(Frames(N + 1))
    BY <2>2, AppendedProperties
  <2> QED BY <1>1, <2>1, <2>3, LenProperties
<1>4. /\ \A j \in 1 .. d : loading_module_stack'[j] = loading_module_stack[j]
      /\ kind = "source" => loading_module_stack' = loading_module_stack
      /\ kind # "source" => /\ DOMAIN loading_module_stack' = 1 .. d + 1
                            /\ Len(loading_module_stack') = d + 1
                            /\ loading_module_stack'[d + 1] = N + 1
                            /\ \A j \in 1 .. d + 1 : j \in 1 .. d \/ j = d + 1
  <2>1. \A k \in Nat : \A m \in 1 .. k + 1 : m \in 1 .. k \/ m = k + 1
    OBVIOUS
  <2>2. loading_module_stack \in Seq(Nat) /\ N + 1 \in Nat
    <3>1. Ids \subseteq Nat
      BY <1>1
    <3> QED BY <1>1, <3>1, SeqMonotonic DEF LoaderInv, TypeOK
  <2>3. /\ Len(Append(loading_module_stack, N + 1)) = d + 1
        /\ Append(loading_module_stack, N + 1)[d + 1] = N + 1
        /\ \A j \in 1 .. d : Append(loading_module_stack, N + 1)[j] = loading_module_stack[j]
        /\ Append(loading_module_stack, N + 1) \in Seq(Nat)
    BY <2>2, AppendedProperties
  <2>4. DOMAIN Append(loading_module_stack, N + 1) = 1 .. d + 1
    BY <2>3, LenProperties
  <2>5. CASE kind = "source"
    BY <2>5
  <2>6. CASE kind # "source"
    <3>1. loading_module_stack' = Append(loading_module_stack, N + 1)
      BY <2>6
    <3> QED BY <1>1, <2>1, <2>3, <2>4, <2>6, <3>1
  <2> QED BY <2>5, <2>6
<1>5. /\ modules'[N + 1].file = f /\ modules'[N + 1].failed = "none"
      /\ modules'[N + 1].includes = {}
  BY <1>2 DEF NewModule
<1>6. n # 0 => kind = "load" /\ AtUse(f) /\ n \in 1 .. n /\ n >= 1
  <2>1. n # 0 => ~Idle
    BY DEF Idle
  <2> QED BY <1>1, <2>1
<1>7. /\ PublicWhole' /\ NoDuplicatePublic' /\ DependencyOrder'
      /\ AvailableFiles' = AvailableFiles
      /\ Elements(public_modules)' = Elements(public_modules)
      /\ Elements(public_modules) \subseteq Ids
      /\ \A g : {m \in Elements(public_modules) : modules'[m].file = g} = PublicWith(g)
  <2>1. Elements(public_modules) \subseteq Ids
    BY Indices DEF LoaderInv, Elements
  <2> QED BY <1>2, <2>1, PublicKeeps
<1> HIDE DEF N, n, d, new
<1>8. \A i \in 1 .. n + 1 : i > 1 => i - 1 \in 1 .. n
  BY <1>1
<1>9. CallChain'
  <2>1. ASSUME NEW i \in 1 .. n + 1, i > 1
        PROVE  /\ frames'[i].kind = "load"
               /\ frames'[i - 1].next \in DOMAIN uses[modules'[frames'[i - 1].mod].file]
               /\ modules'[frames'[i].mod].file = uses[modules'[frames'[i - 1].mod].file][frames'[i - 1].next]
    <3>1. i - 1 \in 1 .. n /\ frames'[i - 1] = frames[i - 1] /\ frames[i - 1].mod \in Ids
      BY <1>1, <1>3, <1>8, <2>1
    <3>2. modules'[frames'[i - 1].mod] = modules[frames[i - 1].mod]
      BY <1>2, <3>1
    <3>3. CASE i \in 1 .. n
      <4>1. frames'[i] = frames[i] /\ modules'[frames[i].mod] = modules[frames[i].mod]
        BY <1>1, <1>2, <1>3, <3>3
      <4>2. /\ frames[i].kind = "load"
            /\ frames[i - 1].next \in DOMAIN uses[modules[frames[i - 1].mod].file]
            /\ modules[frames[i].mod].file = uses[modules[frames[i - 1].mod].file][frames[i - 1].next]
        BY <1>1, <2>1, <3>3 DEF LoaderInv, CallChain
      <4> QED BY <3>1, <3>2, <4>1, <4>2, Zenon
    <3>4. CASE i = n + 1
      <4>1. n # 0 /\ i - 1 = n
        BY <1>1, <2>1, <3>4
      <4>2. kind = "load" /\ AtUse(f)
        BY <1>6, <4>1
      <4>3. frames[n].next \in DOMAIN uses[modules[frames[n].mod].file]
            /\ f = uses[modules[frames[n].mod].file][frames[n].next]
        BY <4>2 DEF AtUse, Top, Current, n
      <4>4. frames'[i].kind = "load" /\ frames'[i].mod = N + 1
        BY <1>3, <3>4, <4>2 DEF new
      <4> QED BY <1>5, <3>1, <3>2, <4>1, <4>3, <4>4
    <3> QED BY <1>3, <3>3, <3>4
  <2>2. ASSUME NEW i \in 1 .. n + 1
        PROVE  /\ modules'[frames'[i].mod].failed = "none"
               /\ frames'[i].kind = "load" => modules'[frames'[i].mod].file \in Files
    <3>1. CASE i \in 1 .. n
      <4>1. frames'[i] = frames[i] /\ modules'[frames[i].mod] = modules[frames[i].mod]
        BY <1>1, <1>2, <1>3, <3>1
      <4>2. /\ modules[frames[i].mod].failed = "none"
            /\ frames[i].kind = "load" => modules[frames[i].mod].file \in Files
        BY <1>1, <3>1, Zenon DEF LoaderInv, CallChain
      <4> QED BY <4>1, <4>2, Zenon
    <3>2. CASE i = n + 1
      BY <1>3, <1>5, <3>2 DEF new
    <3> QED BY <1>3, <3>1, <3>2
  <2> QED BY <1>3, <2>1, <2>2 DEF CallChain
<1>10. OwnModules'
  <2>1. ASSUME NEW i \in 1 .. n + 1, NEW j \in 1 .. n + 1, i < j
        PROVE  frames'[i].mod < frames'[j].mod
    <3>1. i \in 1 .. n
      BY <1>1, <2>1
    <3>2. CASE j \in 1 .. n
      BY <1>1, <1>3, <2>1, <3>1, <3>2 DEF LoaderInv, OwnModules
    <3>3. CASE j = n + 1
      BY <1>1, <1>3, <3>1, <3>3 DEF new
    <3> QED BY <1>3, <3>2, <3>3
  <2>2. ASSUME kind # "source", NEW i \in 1 .. d + 1, NEW j \in 1 .. d + 1, i < j
        PROVE  loading_module_stack'[i] < loading_module_stack'[j]
    <3>1. i \in 1 .. d
      BY <1>1, <2>2
    <3>2. CASE j \in 1 .. d
      BY <1>1, <1>4, <2>2, <3>1, <3>2 DEF LoaderInv, OwnModules
    <3>3. CASE j = d + 1
      BY <1>1, <1>4, <2>2, <3>1, <3>3
    <3> QED BY <1>4, <2>2, <3>2, <3>3
  <2>3. \A i, j \in DOMAIN loading_module_stack' :
           i < j => loading_module_stack'[i] < loading_module_stack'[j]
    BY <1>4, <2>2 DEF LoaderInv, OwnModules
  <2> QED BY <1>3, <2>1, <2>3 DEF OwnModules
<1>11. StillPrivate'
  <2>1. ASSUME NEW i \in 1 .. n + 1
        PROVE  /\ frames'[i].mod \notin Elements(public_modules)
               /\ frames'[i].kind = "load" => PublicWith(modules'[frames'[i].mod].file) = {}
               /\ \A m \in Ids' : frames'[i].mod \notin modules'[m].includes
               /\ result.ok => frames'[i].mod # result.mod
    <3>1. CASE i \in 1 .. n
      <4>1. frames'[i] = frames[i] /\ modules'[frames[i].mod] = modules[frames[i].mod]
        BY <1>1, <1>2, <1>3, <3>1
      <4>2. /\ frames[i].mod \notin Elements(public_modules)
            /\ frames[i].kind = "load" => PublicWith(modules[frames[i].mod].file) = {}
            /\ \A m \in Ids : frames[i].mod \notin modules[m].includes
            /\ result.ok => frames[i].mod # result.mod
        BY <1>1, <3>1 DEF LoaderInv, StillPrivate
      <4>3. \A m \in Ids' : frames[i].mod \notin modules'[m].includes
        BY <1>2, <1>5, <4>2
      <4> QED BY <4>1, <4>2, <4>3
    <3>2. CASE i = n + 1
      <4>1. frames'[i].mod = N + 1 /\ frames'[i].kind = kind /\ N + 1 \notin Ids
        BY <1>2, <1>3, <3>2 DEF new
      <4>2. \A m \in Ids' : N + 1 \notin modules'[m].includes
        BY <1>2, <1>5, <4>1 DEF LoaderInv, KnownIds
      <4>3. result.ok => N + 1 # result.mod
        BY <4>1 DEF LoaderInv, KnownIds
      <4>4. N + 1 \notin Elements(public_modules)
        BY <1>7, <4>1
      <4>5. kind = "load" => PublicWith(modules'[N + 1].file) = {}
        BY <1>5
      <4> QED BY <4>1, <4>2, <4>3, <4>4, <4>5
    <3> QED BY <1>3, <3>1, <3>2
  <2>2. \A g : {m \in Elements(public_modules') : modules'[m].file = g} = PublicWith(g)
    BY <1>7
  <2> QED BY <1>3, <1>7, <2>1, <2>2 DEF StillPrivate, PublicWith
<1>12. UsesIncluded'
  <2>1. ASSUME NEW i \in 1 .. n + 1
        PROVE  /\ \A u \in DOMAIN uses[modules'[frames'[i].mod].file] :
                     u < frames'[i].next => uses[modules'[frames'[i].mod].file][u] \in AvailableFiles
               /\ modules'[frames'[i].mod].includes \subseteq Elements(public_modules)
    <3>1. CASE i \in 1 .. n
      <4>1. frames'[i] = frames[i] /\ modules'[frames[i].mod] = modules[frames[i].mod]
        BY <1>1, <1>2, <1>3, <3>1
      <4> QED BY <1>1, <3>1, <4>1 DEF LoaderInv, UsesIncluded
    <3>2. CASE i = n + 1
      <4>1. frames'[i].mod = N + 1 /\ frames'[i].next = 1
        BY <1>3, <3>2 DEF new
      <4>2. N + 1 \in Ids' /\ TypeOK'
        BY <1>1, <1>2
      <4>3. uses[f] \in Seq(Files)
        BY UsesAssumption DEF LoaderInv, TypeOK
      <4>4. \A u \in DOMAIN uses[f] : ~(u < 1)
        BY <4>3, LenProperties
      <4> QED BY <1>5, <4>1, <4>4
    <3> QED BY <1>3, <3>1, <3>2
  <2> QED BY <1>3, <1>7, <2>1 DEF UsesIncluded
<1>13. KnownIds'
  <2>1. result.ok => result.mod \in Ids'
    BY <1>2 DEF LoaderInv, KnownIds
  <2>2. ASSUME NEW m \in Ids' PROVE modules'[m].includes \subseteq Ids'
    BY <1>2, <1>5 DEF LoaderInv, KnownIds
  <2> QED BY <2>1, <2>2 DEF KnownIds
<1>14. ActiveOnce'
  <2>1. ASSUME NEW i \in 1 .. n + 1, NEW j \in 1 .. n + 1,
               frames'[i].kind = "load", frames'[j].kind = "load",
               modules'[frames'[i].mod].file = modules'[frames'[j].mod].file
        PROVE  i = j
    <3>1. ASSUME NEW k \in 1 .. n
          PROVE  /\ frames'[k] = frames[k] /\ modules'[frames[k].mod] = modules[frames[k].mod]
                 /\ kind = "load" /\ frames[k].kind = "load" => modules[frames[k].mod].file # f
      BY <1>1, <1>2, <1>3
    <3>2. frames'[n + 1].kind = kind /\ modules'[frames'[n + 1].mod].file = f
      BY <1>3, <1>5 DEF new
    <3>3. CASE i \in 1 .. n /\ j \in 1 .. n
      <4>1. /\ frames[i].kind = "load" /\ frames[j].kind = "load"
            /\ modules[frames[i].mod].file = modules[frames[j].mod].file
        BY <2>1, <3>1, <3>3, Zenon
      <4> QED BY <1>1, <3>3, <4>1, Zenon DEF LoaderInv, ActiveOnce
    <3>4. ASSUME NEW k \in 1 .. n
          PROVE  ~(/\ frames'[k].kind = "load" /\ frames'[n + 1].kind = "load"
                   /\ modules'[frames'[k].mod].file = modules'[frames'[n + 1].mod].file)
      <4>1. /\ frames'[k].kind = frames[k].kind
            /\ modules'[frames'[k].mod].file = modules[frames[k].mod].file
        BY <3>1
      <4>2. kind = "load" /\ frames[k].kind = "load" => modules[frames[k].mod].file # f
        BY <3>1
      <4> QED BY <3>2, <4>1, <4>2
    <3>5. ~(i \in 1 .. n /\ j = n + 1) /\ ~(i = n + 1 /\ j \in 1 .. n)
      BY <2>1, <3>4, Zenon
    <3> QED BY <1>3, <3>3, <3>5
  <2>2. \A i, j \in DOMAIN frames' :
          /\ frames'[i].kind = "load" /\ frames'[j].kind = "load"
          /\ modules'[frames'[i].mod].file = modules'[frames'[j].mod].file
          => i = j
    <3>1. DOMAIN frames' = 1 .. n + 1
      BY <1>3
    <3>2. ASSUME NEW i \in DOMAIN frames', NEW j \in DOMAIN frames',
                 frames'[i].kind = "load", frames'[j].kind = "load",
                 modules'[frames'[i].mod].file = modules'[frames'[j].mod].file
          PROVE  i = j
      <4>1. i \in 1 .. n + 1 /\ j \in 1 .. n + 1
        BY <3>1
      <4> QED BY <2>1, <3>2, <4>1, Zenon
    <3> QED BY <3>2, Zenon
  <2> QED BY <2>2, Zenon DEF ActiveOnce
<1>15. Accounted'
  <2>1. ASSUME NEW j \in 1 .. d
        PROVE  LET m == loading_module_stack[j]
               IN \/ modules'[m].file = CommandLine
                  \/ modules'[m].failed = "foreign"
                  \/ \E i \in DOMAIN frames' : frames'[i].kind = "load" /\ frames'[i].mod = m
    <3>1. modules'[loading_module_stack[j]] = modules[loading_module_stack[j]]
      BY <1>1, <1>2
    <3>2. \/ modules[loading_module_stack[j]].file = CommandLine
          \/ modules[loading_module_stack[j]].failed = "foreign"
          \/ \E i \in 1 .. n : frames[i].kind = "load" /\ frames[i].mod = loading_module_stack[j]
      BY <1>1 DEF LoaderInv, Accounted
    <3> QED BY <1>3, <3>1, <3>2
  <2>2. kind # "source" =>
          \/ modules'[N + 1].file = CommandLine
          \/ \E i \in DOMAIN frames' : frames'[i].kind = "load" /\ frames'[i].mod = N + 1
    <3>1. n + 1 \in DOMAIN frames' /\ frames'[n + 1].kind = kind /\ frames'[n + 1].mod = N + 1
      BY <1>1, <1>3 DEF new
    <3> QED BY <1>5, <3>1 DEF Kinds
  <2>3. CASE kind = "source"
    BY <1>1, <1>4, <2>1, <2>3 DEF Accounted
  <2>4. CASE kind # "source"
    <3>1. ASSUME NEW j \in DOMAIN loading_module_stack'
          PROVE  LET m == loading_module_stack'[j]
                 IN \/ modules'[m].file = CommandLine
                    \/ modules'[m].failed = "foreign"
                    \/ \E i \in DOMAIN frames' : frames'[i].kind = "load" /\ frames'[i].mod = m
      <4>1. j \in 1 .. d \/ (j = d + 1 /\ loading_module_stack'[j] = N + 1)
        BY <1>4, <2>4
      <4>2. j \in 1 .. d => loading_module_stack'[j] = loading_module_stack[j]
        BY <1>4
      <4>3. CASE j \in 1 .. d
        BY <2>1, <4>2, <4>3
      <4>4. CASE ~(j \in 1 .. d)
        BY <2>2, <2>4, <4>1, <4>4
      <4> QED BY <4>3, <4>4
    <3> QED BY <3>1, Zenon DEF Accounted
  <2> QED BY <2>3, <2>4
<1>16. Aligned'
  <2>1. ASSUME thrown # "foreign", NEW i \in 1 .. n + 1, frames'[i].kind # "source"
        PROVE  /\ Len(loading_module_stack') > Len(frames') - i
               /\ loading_module_stack'[Len(loading_module_stack') - (Len(frames') - i)] = frames'[i].mod
    <3>1. CASE i \in 1 .. n
      <4>1. n # 0
        BY <3>1
      <4>2. Len(loading_module_stack') = d + 1 /\ frames'[i] = frames[i] /\ Len(frames') = n + 1
        BY <1>3, <1>4, <1>6, <3>1, <4>1
      <4>3. d > n - i /\ loading_module_stack[d - (n - i)] = frames[i].mod
        BY <1>1, <2>1, <3>1, <4>2 DEF LoaderInv, Aligned, n, d
      <4>4. /\ d - (n - i) \in 1 .. d
            /\ \A e, g : e = d + 1 /\ g = n + 1 => e - (g - i) = d - (n - i) /\ e > g - i
        BY <1>1, <3>1, <4>3
      <4>5. loading_module_stack'[d - (n - i)] = loading_module_stack[d - (n - i)]
        BY <1>4, <4>4
      <4>6. Len(loading_module_stack') > Len(frames') - i
            /\ Len(loading_module_stack') - (Len(frames') - i) = d - (n - i)
        BY <4>2, <4>4, Zenon
      <4> QED BY <4>2, <4>3, <4>5, <4>6, Zenon
    <3>2. CASE i = n + 1
      <4>1. kind # "source" /\ frames'[i].mod = N + 1
        BY <1>3, <2>1, <3>2 DEF new
      <4>2. \A e, g : e = d + 1 /\ g = n + 1 => e - (g - i) = d + 1 /\ e > g - i
        BY <1>1, <3>2
      <4>3. /\ Len(loading_module_stack') = d + 1 /\ loading_module_stack'[d + 1] = N + 1
            /\ Len(frames') = n + 1
        BY <1>3, <1>4, <4>1
      <4>4. Len(loading_module_stack') > Len(frames') - i
            /\ Len(loading_module_stack') - (Len(frames') - i) = d + 1
        BY <4>2, <4>3, Zenon
      <4> QED BY <4>1, <4>3, <4>4, Zenon
    <3> QED BY <1>3, <3>1, <3>2, Zenon
  <2> QED BY <1>3, <2>1, Zenon DEF Aligned
<1>17. FailedStaysPrivate'
  <2>1. result.ok => modules'[result.mod].failed = "none"
    BY <1>2 DEF LoaderInv, FailedStaysPrivate, KnownIds
  <2>2. ASSUME NEW m \in Ids', NEW k \in modules'[m].includes PROVE modules'[k].failed = "none"
    BY <1>2, <1>5 DEF LoaderInv, FailedStaysPrivate, KnownIds
  <2> QED BY <2>1, <2>2 DEF FailedStaysPrivate
<1> QED
  BY <1>7, <1>9, <1>10, <1>11, <1>12, <1>13, <1>14, <1>15, <1>16, <1>17 DEF LoaderInv

(* The innermost activation: its Module object is its own, and what is left
   when it returns. *)
LEMMA Innermost ==
    ASSUME LoaderInv, ~Idle
    PROVE  /\ Len(frames) \in Nat \ {0} /\ DOMAIN frames = 1 .. Len(frames)
           /\ Top = frames[Len(frames)] /\ Top.mod \in Ids
           /\ Top.mod \notin Elements(public_modules)
           /\ Current = modules[Top.mod] /\ Current.failed = "none"
           /\ Top.kind = "load" => Current.file \in Files /\ PublicWith(Current.file) = {}
           /\ Top.kind # "load" => Len(frames) = 1
           /\ \A m \in Ids : Top.mod \notin modules[m].includes
           /\ result.ok => result.mod # Top.mod
           /\ \A i \in 1 .. Len(frames) - 1 : frames[i].mod \in Ids /\ frames[i].mod # Top.mod
           /\ DOMAIN Pop(frames) = 1 .. Len(frames) - 1
           /\ Len(Pop(frames)) = Len(frames) - 1
           /\ \A i \in 1 .. Len(frames) - 1 : Pop(frames)[i] = frames[i]
<1>1. TypeOK
  BY DEF LoaderInv
<1>2. /\ Len(frames) \in Nat \ {0} /\ DOMAIN frames = 1 .. Len(frames)
      /\ Len(frames) \in DOMAIN frames
      /\ Top = frames[Len(frames)] /\ Top.mod \in Ids /\ Current = modules[Top.mod]
  BY <1>1, TopType, Indices DEF Top, Current
<1>3. /\ Current.failed = "none"
      /\ Top.kind = "load" => Current.file \in Files
      /\ Top.kind # "load" => ~(Len(frames) > 1)
  BY <1>2 DEF LoaderInv, CallChain
<1>4. /\ Top.mod \notin Elements(public_modules)
      /\ Top.kind = "load" => PublicWith(Current.file) = {}
      /\ \A m \in Ids : Top.mod \notin modules[m].includes
      /\ result.ok => result.mod # Top.mod
  BY <1>2 DEF LoaderInv, StillPrivate
<1>5. \A i \in 1 .. Len(frames) - 1 : i \in DOMAIN frames /\ i < Len(frames)
  BY <1>2
<1>6. \A i \in 1 .. Len(frames) - 1 : frames[i].mod < Top.mod /\ frames[i].mod \in Ids
  BY <1>1, <1>2, <1>5, Indices DEF LoaderInv, OwnModules
<1>7. Len(modules) \in Nat /\ Ids = 1 .. Len(modules)
  BY <1>1, Indices
<1>8. \A i \in 1 .. Len(frames) - 1 : frames[i].mod \in Ids /\ frames[i].mod # Top.mod
  BY <1>2, <1>6, <1>7
<1>9. frames \in Seq(Frames(Len(modules))) /\ frames # <<>>
  BY <1>1 DEF TypeOK, Frames, Ids, Idle
<1>10. /\ Pop(frames) \in Seq(Frames(Len(modules)))
       /\ Len(Pop(frames)) = Len(frames) - 1
       /\ \A i \in 1 .. Len(frames) - 1 : Pop(frames)[i] = frames[i]
  BY <1>9, PopProperties
<1>11. DOMAIN Pop(frames) = 1 .. Len(frames) - 1
  BY <1>10, LenProperties
<1>12. ~(Len(frames) > 1) => Len(frames) = 1
  BY <1>2
<1> QED BY <1>2, <1>3, <1>4, <1>8, <1>10, <1>11, <1>12

(* Unless an exception nobody handles is in flight, a load finds its own module
   on top of the loading stack and takes exactly that off. *)
LEMMA OwnEntry ==
    ASSUME LoaderInv, ~Idle, thrown # "foreign", Top.kind = "load"
    PROVE  LET d == Len(loading_module_stack)
           IN /\ d \in Nat \ {0}
              /\ DOMAIN loading_module_stack = 1 .. d
              /\ loading_module_stack[d] = Top.mod
              /\ DOMAIN PoppedStack = 1 .. d - 1
              /\ Len(PoppedStack) = d - 1
              /\ \A j \in 1 .. d - 1 : /\ PoppedStack[j] = loading_module_stack[j]
                                       /\ loading_module_stack[j] \in Ids
                                       /\ loading_module_stack[j] # Top.mod
<1> DEFINE d == Len(loading_module_stack)
<1>1. TypeOK
  BY DEF LoaderInv
<1>2. /\ d \in Nat /\ DOMAIN loading_module_stack = 1 .. d
      /\ \A j \in 1 .. d : loading_module_stack[j] \in Ids
      /\ Ids = 1 .. Len(modules) /\ Len(modules) \in Nat
  BY <1>1, Indices
<1>3. /\ Len(frames) \in Nat \ {0} /\ Len(frames) \in DOMAIN frames
      /\ Top = frames[Len(frames)] /\ Top.mod \in Ids
  BY <1>1, TopType DEF Top
<1>4. d > Len(frames) - Len(frames)
      /\ loading_module_stack[d - (Len(frames) - Len(frames))] = Top.mod
  BY <1>3 DEF LoaderInv, Aligned
<1>5. d > 0 /\ d - (Len(frames) - Len(frames)) = d
  BY <1>2, <1>3, <1>4
<1>6. loading_module_stack[d] = Top.mod
  BY <1>4, <1>5
<1>7. \A j \in 1 .. d - 1 : j \in DOMAIN loading_module_stack /\ j < d /\ d \in DOMAIN loading_module_stack
  BY <1>2, <1>5
<1>8. \A j \in 1 .. d - 1 : loading_module_stack[j] < Top.mod /\ loading_module_stack[j] \in Ids
  BY <1>2, <1>6, <1>7 DEF LoaderInv, OwnModules
<1>9. \A j \in 1 .. d - 1 : loading_module_stack[j] \in Ids /\ loading_module_stack[j] # Top.mod
  BY <1>2, <1>3, <1>8
<1>10. loading_module_stack \in Seq(Ids) /\ loading_module_stack # <<>>
  BY <1>1, <1>5, EmptySeq DEF TypeOK
<1>11. /\ PoppedStack \in Seq(Ids) /\ Len(PoppedStack) = d - 1
       /\ \A j \in 1 .. d - 1 : PoppedStack[j] = loading_module_stack[j]
  BY <1>10, PopProperties DEF PoppedStack
<1>12. DOMAIN PoppedStack = 1 .. d - 1
  BY <1>11, LenProperties
<1>13. d \in Nat \ {0}
  BY <1>2, <1>5
<1> QED BY <1>2, <1>6, <1>9, <1>11, <1>12, <1>13

(* The parser got through all uses of the innermost module: all are public. *)
LEMMA ParsedUses ==
    ASSUME LoaderInv, Parsed
    PROVE  /\ \A u \in DOMAIN uses[Current.file] : uses[Current.file][u] \in AvailableFiles
           /\ Current.includes \subseteq Elements(public_modules)
<1>1. /\ ~Idle /\ Top.next > Len(uses[Current.file])
  BY DEF Parsed
<1>2. /\ Len(frames) \in DOMAIN frames /\ Top = frames[Len(frames)] /\ Top.mod \in Ids
      /\ Current = modules[Top.mod]
  BY <1>1, TopType DEF LoaderInv, Top, Current
<1>3. /\ \A u \in DOMAIN uses[Current.file] : u < Top.next => uses[Current.file][u] \in AvailableFiles
      /\ Current.includes \subseteq Elements(public_modules)
  BY <1>2 DEF LoaderInv, UsesIncluded
<1>4. Top.next \in Nat
  BY <1>2, Indices DEF LoaderInv
<1>5. /\ Len(uses[Current.file]) \in Nat
      /\ DOMAIN uses[Current.file] = 1 .. Len(uses[Current.file])
  BY <1>2, UsesAreFiles DEF LoaderInv
<1>6. \A u \in DOMAIN uses[Current.file] : u < Top.next
  BY <1>1, <1>4, <1>5
<1> QED BY <1>3, <1>6

(* Returning from activations leaves the outer ones chained and distinct. *)
LEMMA OuterKeep ==
    ASSUME LoaderInv, TypeOK', uses' = uses, Len(modules') = Len(modules),
           NEW k \in Nat, k <= Len(frames),
           Len(frames') = k, DOMAIN frames' = 1 .. k,
           \A i \in 1 .. k : /\ frames'[i].kind = frames[i].kind
                             /\ frames'[i].mod = frames[i].mod
                             /\ i < k => frames'[i].next = frames[i].next
                             /\ modules'[frames[i].mod].failed = "none",
           \A m \in Ids : modules'[m].file = modules[m].file
    PROVE  CallChain' /\ ActiveOnce'
<1>1. /\ Len(frames) \in Nat /\ DOMAIN frames = 1 .. Len(frames)
      /\ \A i \in DOMAIN frames : frames[i].mod \in Ids
  BY Indices DEF LoaderInv
<1>2. \A i \in 1 .. k : /\ i \in DOMAIN frames
                        /\ i > 1 => i - 1 \in 1 .. k /\ i - 1 < k /\ i - 1 \in DOMAIN frames
  BY <1>1
<1>3. \A i \in 1 .. k : /\ frames[i].mod \in Ids /\ frames'[i].mod = frames[i].mod
                        /\ frames'[i].kind = frames[i].kind
                        /\ modules'[frames[i].mod].file = modules[frames[i].mod].file
  BY <1>1, <1>2
<1>4. ASSUME NEW i \in 1 .. k, i > 1
      PROVE  /\ frames'[i].kind = "load"
             /\ frames'[i - 1].next \in DOMAIN uses[modules'[frames'[i - 1].mod].file]
             /\ modules'[frames'[i].mod].file = uses[modules'[frames'[i - 1].mod].file][frames'[i - 1].next]
  <2>1. i - 1 \in 1 .. k /\ i - 1 < k /\ i \in DOMAIN frames
    BY <1>2, <1>4
  <2>2. frames'[i - 1].next = frames[i - 1].next
    BY <2>1
  <2>3. /\ modules'[frames'[i - 1].mod].file = modules[frames[i - 1].mod].file
        /\ modules'[frames'[i].mod].file = modules[frames[i].mod].file
        /\ frames'[i].kind = frames[i].kind
    BY <1>3, <2>1
  <2>4. /\ frames[i].kind = "load"
        /\ frames[i - 1].next \in DOMAIN uses[modules[frames[i - 1].mod].file]
        /\ modules[frames[i].mod].file = uses[modules[frames[i - 1].mod].file][frames[i - 1].next]
    BY <1>4, <2>1, Zenon DEF LoaderInv, CallChain
  <2> QED BY <2>2, <2>3, <2>4
<1>5. ASSUME NEW i \in 1 .. k
      PROVE  /\ modules'[frames'[i].mod].failed = "none"
             /\ frames'[i].kind = "load" => modules'[frames'[i].mod].file \in Files
  <2>1. i \in DOMAIN frames /\ modules'[frames[i].mod].failed = "none"
    BY <1>2
  <2>2. /\ frames'[i].mod = frames[i].mod /\ frames'[i].kind = frames[i].kind
        /\ modules'[frames[i].mod].file = modules[frames[i].mod].file
    BY <1>3
  <2>3. frames[i].kind = "load" => modules[frames[i].mod].file \in Files
    BY <2>1, Zenon DEF LoaderInv, CallChain
  <2> QED BY <2>1, <2>2, <2>3
<1>6. CallChain'
  BY <1>4, <1>5 DEF CallChain
<1>7. ASSUME NEW i \in DOMAIN frames', NEW j \in DOMAIN frames',
             frames'[i].kind = "load", frames'[j].kind = "load",
             modules'[frames'[i].mod].file = modules'[frames'[j].mod].file
      PROVE  i = j
  <2>1. i \in 1 .. k /\ j \in 1 .. k /\ i \in DOMAIN frames /\ j \in DOMAIN frames
    BY <1>2
  <2>2. /\ frames[i].kind = "load" /\ frames[j].kind = "load"
        /\ modules[frames[i].mod].file = modules[frames[j].mod].file
    BY <1>3, <1>7, <2>1
  <2> QED BY <2>1, <2>2, Zenon DEF LoaderInv, ActiveOnce
<1>8. ActiveOnce'
  BY <1>7, Zenon DEF ActiveOnce
<1> QED BY <1>6, <1>8

(* A load that leaves the loading stack leaves the rest of it accounted for. *)
LEMMA PoppedKeeps ==
    ASSUME LoaderInv, TypeOK', ~Idle, thrown # "foreign", Top.kind = "load",
           Len(modules') = Len(modules),
           loading_module_stack' = PoppedStack,
           Len(frames') = Len(frames) - 1, DOMAIN frames' = 1 .. Len(frames) - 1,
           \A i \in 1 .. Len(frames) - 1 : /\ frames'[i].kind = frames[i].kind
                                           /\ frames'[i].mod = frames[i].mod,
           \A m \in Ids : /\ modules'[m].file = modules[m].file
                          /\ m # Top.mod => modules'[m].failed = modules[m].failed
    PROVE  OwnModules' /\ Accounted' /\ Aligned'
<1> DEFINE n == Len(frames)
           d == Len(loading_module_stack)
<1>1. /\ n \in Nat \ {0} /\ DOMAIN frames = 1 .. n
      /\ \A i \in 1 .. n - 1 : frames[i].mod \in Ids
      /\ Top = frames[n]
  BY Innermost
<1>2. /\ d \in Nat \ {0} /\ DOMAIN loading_module_stack = 1 .. d
      /\ loading_module_stack[d] = Top.mod
      /\ DOMAIN loading_module_stack' = 1 .. d - 1
      /\ Len(loading_module_stack') = d - 1
      /\ \A j \in 1 .. d - 1 : /\ loading_module_stack'[j] = loading_module_stack[j]
                               /\ loading_module_stack[j] \in Ids
                               /\ loading_module_stack[j] # Top.mod
  BY OwnEntry
<1> HIDE DEF n, d
<1>3. /\ \A i \in 1 .. n - 1 : i \in DOMAIN frames
      /\ \A j \in 1 .. d - 1 : j \in DOMAIN loading_module_stack
      /\ \A i \in 1 .. n : i \in 1 .. n - 1 \/ i = n
  BY <1>1, <1>2
<1>4. OwnModules'
  <2>1. \A i, j \in 1 .. n - 1 : i < j => frames'[i].mod < frames'[j].mod
    BY <1>3 DEF LoaderInv, OwnModules, n
  <2>2. \A i, j \in 1 .. d - 1 : i < j => loading_module_stack'[i] < loading_module_stack'[j]
    BY <1>2, <1>3 DEF LoaderInv, OwnModules
  <2>3. DOMAIN frames' = 1 .. n - 1
    BY DEF n
  <2> QED BY <1>2, <2>1, <2>2, <2>3 DEF OwnModules
<1>5. Accounted'
  <2>1. ASSUME NEW j \in 1 .. d - 1
        PROVE  LET m == loading_module_stack'[j]
               IN \/ modules'[m].file = CommandLine
                  \/ modules'[m].failed = "foreign"
                  \/ \E i \in DOMAIN frames' : frames'[i].kind = "load" /\ frames'[i].mod = m
    <3>1. PICK m \in Ids : m = loading_module_stack[j] /\ m = loading_module_stack'[j] /\ m # Top.mod
      BY <1>2
    <3>2. \/ modules[m].file = CommandLine
          \/ modules[m].failed = "foreign"
          \/ \E i \in DOMAIN frames : frames[i].kind = "load" /\ frames[i].mod = m
      <4>1. j \in DOMAIN loading_module_stack /\ m = loading_module_stack[j]
        BY <1>3, <3>1
      <4> QED BY <4>1, Zenon DEF LoaderInv, Accounted
    <3>3. ASSUME NEW i \in DOMAIN frames, frames[i].kind = "load", frames[i].mod = m
          PROVE  i \in DOMAIN frames' /\ frames'[i].kind = "load" /\ frames'[i].mod = m
      <4>1. i # n
        BY <1>1, <3>1, <3>3
      <4>2. i \in 1 .. n - 1
        BY <1>1, <1>3, <4>1
      <4> QED BY <3>3, <4>2 DEF n
    <3>4. modules'[m].file = modules[m].file /\ modules'[m].failed = modules[m].failed
      BY <3>1
    <3> QED BY <3>1, <3>2, <3>3, <3>4
  <2> QED BY <1>2, <2>1 DEF Accounted
<1>6. Aligned'
  <2>1. ASSUME NEW i \in 1 .. n - 1, frames'[i].kind # "source"
        PROVE  /\ Len(loading_module_stack') > Len(frames') - i
               /\ loading_module_stack'[Len(loading_module_stack') - (Len(frames') - i)] = frames'[i].mod
    <3>1. frames[i].kind # "source" /\ i \in DOMAIN frames /\ frames'[i].mod = frames[i].mod
      BY <1>3, <2>1 DEF n
    <3>2. d > n - i /\ loading_module_stack[d - (n - i)] = frames[i].mod
      BY <3>1, Zenon DEF LoaderInv, Aligned, n, d
    <3>3. /\ d - (n - i) \in 1 .. d - 1
          /\ \A e, g : e = d - 1 /\ g = n - 1 => e > g - i /\ e - (g - i) = d - (n - i)
      BY <1>1, <1>2, <3>2
    <3>4. Len(frames') = n - 1
      BY DEF n
    <3>5. Len(loading_module_stack') > Len(frames') - i
          /\ Len(loading_module_stack') - (Len(frames') - i) = d - (n - i)
      BY <1>2, <3>3, <3>4, Zenon
    <3>6. loading_module_stack'[d - (n - i)] = loading_module_stack[d - (n - i)]
      BY <1>2, <3>3
    <3> QED BY <3>1, <3>2, <3>5, <3>6, Zenon
  <2>2. DOMAIN frames' = 1 .. n - 1
    BY DEF n
  <2> QED BY <2>1, <2>2, Zenon DEF Aligned
<1> QED BY <1>4, <1>5, <1>6

LEMMA CleanUpKeeps ==
    ASSUME LoaderInv, TypeOK', CleanUp, uses' = uses
    PROVE  LoaderInv'
<1>1. /\ frames' = <<>> /\ frames = <<>> /\ public_modules' = <<>> /\ modules' = modules
      /\ loading_module_stack' = loading_module_stack /\ result' = result
  BY DEF CleanUp, Idle
<1>2. DOMAIN frames = {} /\ DOMAIN public_modules' = {} /\ Ids' = Ids
  BY <1>1 DEF Ids
<1>3. CallChain' /\ StillPrivate' /\ UsesIncluded' /\ ActiveOnce' /\ Aligned' /\ OwnModules'
  BY <1>1, <1>2 DEF CallChain, StillPrivate, UsesIncluded, ActiveOnce, Aligned, OwnModules, LoaderInv
<1>4. PublicWhole' /\ NoDuplicatePublic' /\ DependencyOrder'
  BY <1>2 DEF PublicWhole, NoDuplicatePublic, DependencyOrder
<1>5. KnownIds' /\ FailedStaysPrivate' /\ Accounted'
  BY <1>1, <1>2 DEF KnownIds, FailedStaysPrivate, Accounted, LoaderInv
<1> QED BY <1>3, <1>4, <1>5 DEF LoaderInv

LEMMA ReturnOtherKeeps ==
    ASSUME LoaderInv, TypeOK', ReturnOther, uses' = uses
    PROVE  LoaderInv'
<1>1. ~Idle /\ Top.kind # "load"
  BY DEF ReturnOther, Finished, Parsed
<1>2. /\ frames' = <<>> /\ public_modules' = public_modules /\ modules' = modules
      /\ loading_module_stack' = loading_module_stack
      /\ result' = [ok |-> TRUE, mod |-> Top.mod, analyse |-> Current.just_analyse]
  BY DEF ReturnOther
<1>3. /\ Len(frames) = 1 /\ DOMAIN frames = 1 .. 1 /\ frames[1].kind # "load"
      /\ Top.mod \in Ids /\ modules[Top.mod].failed = "none"
  BY <1>1, Innermost
<1>4. DOMAIN frames' = {} /\ Ids' = Ids
  BY <1>2 DEF Ids
<1>5. CallChain' /\ StillPrivate' /\ UsesIncluded' /\ ActiveOnce' /\ Aligned'
  BY <1>4 DEF CallChain, StillPrivate, UsesIncluded, ActiveOnce, Aligned
<1>6. OwnModules'
  BY <1>2, <1>4 DEF OwnModules, LoaderInv
<1>7. PublicWhole' /\ NoDuplicatePublic' /\ DependencyOrder'
  BY <1>2, PublicKeeps
<1>8. KnownIds' /\ FailedStaysPrivate'
  BY <1>2, <1>3, <1>4 DEF KnownIds, FailedStaysPrivate, LoaderInv
<1>9. Accounted'
  <2>1. \A i \in DOMAIN frames : frames[i].kind # "load"
    BY <1>3
  <2> QED BY <1>2, <2>1 DEF Accounted, LoaderInv
<1> QED BY <1>5, <1>6, <1>7, <1>8, <1>9 DEF LoaderInv

(* Publishing the module of a finished load: it is the first of its file, whole,
   and comes after everything it includes. *)
LEMMA PublishKeeps ==
    ASSUME LoaderInv, Parsed, Top.kind = "load",
           uses' = uses, public_modules' = Published(Top.mod),
           \A m \in Ids : /\ modules'[m].file = modules[m].file
                          /\ modules'[m].failed = modules[m].failed,
           \A m \in Elements(public_modules) \cup {Top.mod} :
               modules'[m].includes = modules[m].includes
    PROVE  /\ PublicWhole' /\ NoDuplicatePublic' /\ DependencyOrder'
           /\ Elements(public_modules)' = Elements(public_modules) \cup {Top.mod}
           /\ AvailableFiles' = AvailableFiles \cup {Current.file}
<1> DEFINE p == Len(public_modules)
           t == Top.mod
<1>0. ~Idle
  BY DEF Parsed
<1>1. /\ p \in Nat /\ DOMAIN public_modules = 1 .. p
      /\ \A i \in 1 .. p : public_modules[i] \in Ids
  BY Indices DEF LoaderInv
<1>2. /\ t \in Ids /\ t \notin Elements(public_modules)
      /\ Current = modules[t] /\ modules[t].failed = "none" /\ modules[t].file \in Files
      /\ PublicWith(modules[t].file) = {}
  BY <1>0, Innermost
<1>3. /\ \A u \in DOMAIN uses[modules[t].file] : uses[modules[t].file][u] \in AvailableFiles
      /\ modules[t].includes \subseteq Elements(public_modules)
  BY <1>2, ParsedUses
<1>4. /\ DOMAIN public_modules' = 1 .. p + 1
      /\ public_modules'[p + 1] = t
      /\ \A i \in 1 .. p : public_modules'[i] = public_modules[i]
  <2>1. public_modules \in Seq(Ids)
    BY DEF LoaderInv, TypeOK
  <2>2. /\ public_modules' \in Seq(Ids) /\ Len(public_modules') = p + 1
        /\ public_modules'[p + 1] = t
        /\ \A i \in 1 .. p : public_modules'[i] = public_modules[i]
    BY <1>2, <2>1, AppendedProperties DEF Published
  <2> QED BY <2>2, LenProperties
<1> HIDE DEF p, t
<1>5. /\ \A i \in 1 .. p + 1 : i \in 1 .. p \/ i = p + 1
      /\ \A i \in 1 .. p : i \in 1 .. p + 1
      /\ \A i \in 1 .. p : \A j \in 1 .. i - 1 : j \in 1 .. p
      /\ p + 1 \in 1 .. p + 1 /\ p + 1 - 1 = p
  BY <1>1
<1>6. /\ \A i \in 1 .. p : public_modules[i] \in Elements(public_modules)
      /\ \A m \in Elements(public_modules) : \E i \in 1 .. p : public_modules[i] = m
  BY <1>1 DEF Elements
<1>7. Elements(public_modules)' = Elements(public_modules) \cup {t}
  BY <1>1, <1>4, <1>5 DEF Elements
<1>8. AvailableFiles' = AvailableFiles \cup {modules[t].file}
  <2>1. \A m \in Elements(public_modules) \cup {t} : modules'[m].file = modules[m].file
    BY <1>1, <1>2, <1>6
  <2> QED BY <1>7, <2>1 DEF AvailableFiles
<1>9. \A u \in DOMAIN uses[modules[t].file] :
         \E j \in 1 .. p : modules[public_modules[j]].file = uses[modules[t].file][u]
  BY <1>3, <1>6 DEF AvailableFiles
<1>10. \A j \in 1 .. p : modules'[public_modules'[j]].file = modules[public_modules[j]].file
  BY <1>1, <1>4
<1>11. ASSUME NEW i \in 1 .. p + 1
       PROVE  /\ modules'[public_modules'[i]].file \in Files
              /\ modules'[public_modules'[i]].failed = "none"
              /\ \A u \in DOMAIN uses[modules'[public_modules'[i]].file] :
                    \E j \in 1 .. i - 1 : modules'[public_modules'[j]].file
                                           = uses[modules'[public_modules'[i]].file][u]
  <2>1. CASE i \in 1 .. p
    <3>1. /\ modules'[public_modules'[i]].file = modules[public_modules[i]].file
          /\ modules'[public_modules'[i]].failed = modules[public_modules[i]].failed
      BY <1>1, <1>4, <2>1
    <3>2. /\ modules[public_modules[i]].file \in Files
          /\ modules[public_modules[i]].failed = "none"
          /\ \A u \in DOMAIN uses[modules[public_modules[i]].file] :
                \E j \in 1 .. i - 1 : modules[public_modules[j]].file
                                       = uses[modules[public_modules[i]].file][u]
      BY <1>1, <2>1 DEF LoaderInv, PublicWhole
    <3>3. ASSUME NEW u \in DOMAIN uses[modules[public_modules[i]].file]
          PROVE  \E j \in 1 .. i - 1 : modules'[public_modules'[j]].file
                                         = uses[modules[public_modules[i]].file][u]
      <4>1. PICK j \in 1 .. i - 1 : modules[public_modules[j]].file
                                      = uses[modules[public_modules[i]].file][u]
        BY <3>2
      <4>2. j \in 1 .. p
        BY <1>5, <2>1, <4>1
      <4>3. modules'[public_modules'[j]].file = modules[public_modules[j]].file
        BY <1>10, <4>2
      <4> QED BY <4>1, <4>3
    <3> QED BY <3>1, <3>2, <3>3
  <2>2. CASE i = p + 1
    <3>1. public_modules'[i] = t
      BY <1>4, <2>2
    <3>2. modules'[t].file = modules[t].file /\ modules'[t].failed = "none"
      BY <1>2
    <3>3. i - 1 = p
      BY <1>1, <2>2
    <3>4. ASSUME NEW u \in DOMAIN uses[modules[t].file]
          PROVE  \E j \in 1 .. i - 1 : modules'[public_modules'[j]].file = uses[modules[t].file][u]
      <4>1. PICK j \in 1 .. p : modules[public_modules[j]].file = uses[modules[t].file][u]
        BY <1>9
      <4>2. modules'[public_modules'[j]].file = modules[public_modules[j]].file /\ j \in 1 .. i - 1
        BY <1>10, <3>3, <4>1
      <4> QED BY <4>1, <4>2
    <3>5. /\ modules'[public_modules'[i]].file = modules[t].file
          /\ modules'[public_modules'[i]].failed = "none"
      BY <3>1, <3>2
    <3> QED BY <1>2, <3>4, <3>5
  <2> QED BY <1>5, <2>1, <2>2
<1>12. PublicWhole'
  <2>1. DOMAIN public_modules' = 1 .. p + 1
    BY <1>4
  <2>2. ASSUME NEW i \in DOMAIN public_modules'
        PROVE  /\ modules'[public_modules'[i]].file \in Files
               /\ modules'[public_modules'[i]].failed = "none"
               /\ \A u \in DOMAIN uses[modules'[public_modules'[i]].file] :
                     \E j \in 1 .. i - 1 : modules'[public_modules'[j]].file
                                            = uses[modules'[public_modules'[i]].file][u]
    BY <1>11, <2>1, Zenon
  <2> QED BY <2>2, Zenon DEF PublicWhole
<1>13. \A j \in 1 .. p : modules'[public_modules'[j]].file # modules'[t].file
  BY <1>1, <1>2, <1>6, <1>10 DEF PublicWith
<1>14. NoDuplicatePublic'
  <2>1. \A i, j \in 1 .. p : modules[public_modules[i]].file = modules[public_modules[j]].file => i = j
    BY <1>1 DEF LoaderInv, NoDuplicatePublic
  <2>2. ASSUME NEW i \in DOMAIN public_modules', NEW j \in DOMAIN public_modules',
               modules'[public_modules'[i]].file = modules'[public_modules'[j]].file
        PROVE  i = j
    <3>1. /\ i \in 1 .. p \/ (i = p + 1 /\ public_modules'[i] = t)
          /\ j \in 1 .. p \/ (j = p + 1 /\ public_modules'[j] = t)
      BY <1>4, <1>5
    <3>2. CASE i \in 1 .. p /\ j \in 1 .. p
      BY <1>10, <2>1, <2>2, <3>2, Zenon
    <3>3. CASE ~(i \in 1 .. p /\ j \in 1 .. p)
      <4>1. i = p + 1 /\ j = p + 1
        BY <1>13, <2>2, <3>1, <3>3, Zenon
      <4> QED BY <4>1
    <3> QED BY <3>2, <3>3
  <2> QED BY <2>2, Zenon DEF NoDuplicatePublic
<1>15. DependencyOrder'
  <2>1. ASSUME NEW i \in 1 .. p + 1, NEW m \in modules'[public_modules'[i]].includes
        PROVE  \E j \in 1 .. i - 1 : public_modules'[j] = m
    <3>1. CASE i \in 1 .. p
      <4>1. modules'[public_modules'[i]].includes = modules[public_modules[i]].includes
        BY <1>4, <1>6, <3>1
      <4>2. PICK j \in 1 .. i - 1 : public_modules[j] = m
        BY <1>1, <2>1, <3>1, <4>1 DEF LoaderInv, DependencyOrder
      <4> QED BY <1>4, <1>5, <3>1, <4>2
    <3>2. CASE i = p + 1
      <4>1. modules'[t].includes = modules[t].includes /\ public_modules'[i] = t
        BY <1>4, <3>2 DEF t
      <4>2. PICK j \in 1 .. p : public_modules[j] = m
        BY <1>3, <1>6, <2>1, <4>1
      <4>3. j \in 1 .. i - 1 /\ public_modules'[j] = m
        BY <1>1, <1>4, <3>2, <4>2
      <4> QED BY <4>3, Zenon
    <3> QED BY <1>5, <3>1, <3>2
  <2> QED BY <1>4, <2>1 DEF DependencyOrder
<1> QED BY <1>2, <1>7, <1>8, <1>12, <1>14, <1>15 DEF t

(* A load that somebody outside asked for returns its module. *)
LEMMA OuterReturnKeeps ==
    ASSUME LoaderInv, TypeOK', uses' = uses, ReturnLoad, Len(frames) = 1
    PROVE  LoaderInv'
<1>1. /\ Parsed /\ Top.kind = "load" /\ ~Idle /\ thrown = "none"
  BY DEF ReturnLoad, Finished, Parsed
<1>2. /\ frames' = <<>> /\ modules' = modules /\ loading_module_stack' = PoppedStack
      /\ public_modules' = Published(Top.mod)
      /\ result' = [ok |-> TRUE, mod |-> Top.mod, analyse |-> Current.just_analyse]
  BY DEF ReturnLoad
<1>3. Top.mod \in Ids /\ modules[Top.mod].failed = "none"
  BY <1>1, Innermost
<1>4. DOMAIN frames' = {} /\ Len(frames') = 0 /\ Ids' = Ids
  BY <1>2 DEF Ids
<1>5. CallChain' /\ StillPrivate' /\ UsesIncluded' /\ ActiveOnce'
  BY <1>4 DEF CallChain, StillPrivate, UsesIncluded, ActiveOnce
<1>6. PublicWhole' /\ NoDuplicatePublic' /\ DependencyOrder'
  BY <1>1, <1>2, PublishKeeps
<1>7. OwnModules' /\ Accounted' /\ Aligned'
  <2>1. Len(frames) - 1 = 0 /\ \A i \in 1 .. Len(frames) - 1 : FALSE
    OBVIOUS
  <2>2. DOMAIN frames' = 1 .. Len(frames) - 1
    BY <1>4, <2>1
  <2> QED BY <1>1, <1>2, <1>4, <2>1, <2>2, PoppedKeeps
<1>8. KnownIds' /\ FailedStaysPrivate'
  BY <1>2, <1>3, <1>4 DEF KnownIds, FailedStaysPrivate, LoaderInv
<1> QED BY <1>5, <1>6, <1>7, <1>8 DEF LoaderInv

(* A load that an import asked for: the importing module includes it. *)
LEMMA InnerReturnKeeps ==
    ASSUME LoaderInv, TypeOK', uses' = uses, ReturnLoad, Len(frames) # 1
    PROVE  LoaderInv'
<1> DEFINE n == Len(frames)
           k == Len(frames) - 1
           c == frames[Len(frames) - 1].mod
           t == Top.mod
<1>1. /\ Parsed /\ Top.kind = "load" /\ ~Idle /\ thrown = "none"
  BY DEF ReturnLoad, Finished, Parsed
<1>2. /\ frames' = [Pop(frames) EXCEPT ![k].next = @ + 1]
      /\ modules' = [modules EXCEPT ![c].includes = @ \cup {t}]
      /\ loading_module_stack' = PoppedStack
      /\ public_modules' = Published(t) /\ result' = result
  BY DEF ReturnLoad
<1>3. /\ n \in Nat \ {0} /\ DOMAIN frames = 1 .. n
      /\ Top = frames[n] /\ t \in Ids /\ t \notin Elements(public_modules)
      /\ Current = modules[t] /\ modules[t].failed = "none"
      /\ \A m \in Ids : t \notin modules[m].includes
      /\ result.ok => result.mod # t
      /\ \A i \in 1 .. k : frames[i].mod \in Ids /\ frames[i].mod # t
      /\ DOMAIN Pop(frames) = 1 .. k /\ Len(Pop(frames)) = k
      /\ \A i \in 1 .. k : Pop(frames)[i] = frames[i]
  BY <1>1, Innermost
<1>4. /\ k \in 1 .. k /\ k \in Nat /\ k <= n /\ k >= 1 /\ k + 1 = n
      /\ \A i \in 1 .. k : i \in 1 .. n /\ i \in DOMAIN frames /\ i # n
      /\ n \in DOMAIN frames /\ n > 1 /\ n - 1 = k
  <2>1. \A z \in Nat \ {0} : z # 1 =>
           /\ z - 1 \in 1 .. z - 1 /\ z - 1 \in Nat /\ z - 1 <= z /\ z - 1 >= 1
           /\ z - 1 + 1 = z /\ z > 1 /\ z \in 1 .. z
           /\ \A i \in 1 .. z - 1 : i \in 1 .. z /\ i # z
    OBVIOUS
  <2>2. n \in Nat \ {0} /\ n # 1
    BY <1>3
  <2> QED BY <1>3, <2>1, <2>2, Zenon
<1>5. c \in Ids /\ c # t
  BY <1>3, <1>4
<1>6. /\ DOMAIN frames' = 1 .. k /\ Len(frames') = k
      /\ \A i \in 1 .. k : /\ frames'[i].kind = frames[i].kind
                           /\ frames'[i].mod = frames[i].mod
                           /\ i < k => frames'[i].next = frames[i].next
      /\ frames'[k].next = frames[k].next + 1
  <2>1. frames[k] \in Frames(Len(modules))
    <3>1. frames \in Seq(Frames(Len(modules)))
      BY DEF LoaderInv, TypeOK, Frames, Ids
    <3> QED BY <1>4, <3>1, ElementOfSeq
  <2>2. frames' = [Pop(frames) EXCEPT ![k] = [frames[k] EXCEPT !.next = @ + 1]]
    BY <1>2, <1>3, <1>4
  <2>3. DOMAIN frames' = 1 .. k
    BY <1>3, <2>2
  <2>4. Len(frames') = k
    <3>1. frames' \in Seq([kind : Kinds, mod : Ids', next : Nat \ {0}])
      BY DEF TypeOK
    <3>2. Len(frames') \in Nat /\ 1 .. Len(frames') = 1 .. k
      BY <2>3, <3>1, LenProperties
    <3>3. \A y, z \in Nat : 1 .. y = 1 .. z => y = z
      OBVIOUS
    <3> QED BY <1>4, <3>2, <3>3
  <2>5. \A i \in 1 .. k : frames'[i] = IF i = k THEN [frames[k] EXCEPT !.next = @ + 1] ELSE frames[i]
    BY <1>3, <1>4, <2>2
  <2>6. \A i \in 1 .. k : i # k => frames'[i] = frames[i]
    BY <2>5
  <2>7. frames'[k] = [frames[k] EXCEPT !.next = @ + 1]
    BY <1>4, <2>5
  <2>8. /\ frames'[k].kind = frames[k].kind /\ frames'[k].mod = frames[k].mod
        /\ frames'[k].next = frames[k].next + 1
    BY <2>1, <2>7 DEF Frames
  <2>9. \A i \in 1 .. k : i < k => i # k
    <3>1. \A z \in Nat : \A i \in 1 .. z : i < z => i # z
      OBVIOUS
    <3> QED BY <1>4, <3>1
  <2> QED BY <2>3, <2>4, <2>6, <2>8, <2>9
<1>7. /\ Len(modules') = Len(modules) /\ Ids' = Ids
      /\ \A m \in Ids : /\ modules'[m].file = modules[m].file
                        /\ modules'[m].failed = modules[m].failed
                        /\ m # c => modules'[m].includes = modules[m].includes
      /\ modules'[c].includes = modules[c].includes \cup {t}
  <2>1. modules \in Seq(ModuleRecord)
    BY DEF LoaderInv, TypeOK
  <2>2. modules[c] \in ModuleRecord /\ c \in 1 .. Len(modules) /\ DOMAIN modules = 1 .. Len(modules)
    BY <1>5, <2>1, ElementOfSeq, LenProperties DEF Ids
  <2>3. modules' = [modules EXCEPT ![c] = [modules[c] EXCEPT !.includes = @ \cup {t}]]
    BY <1>2
  <2>4. [modules[c] EXCEPT !.includes = @ \cup {t}] \in ModuleRecord
    <3>1. t \in Nat
      BY <1>3, Indices DEF LoaderInv
    <3> HIDE DEF c, t
    <3> QED BY <2>2, <3>1 DEF ModuleRecord
  <2>5. Len(modules') = Len(modules)
    BY <1>5, <2>3, <2>4, ModuleUpdate DEF LoaderInv
  <2>6. \A m \in Ids : m # c => modules'[m] = modules[m]
    BY <2>2, <2>3 DEF Ids
  <2>7. modules'[c] = [modules[c] EXCEPT !.includes = @ \cup {t}]
    BY <2>2, <2>3
  <2>8. /\ modules'[c].file = modules[c].file
        /\ modules'[c].failed = modules[c].failed
        /\ modules'[c].includes = modules[c].includes \cup {t}
    BY <2>2, <2>7 DEF ModuleRecord
  <2> QED BY <2>5, <2>6, <2>8 DEF Ids
<1>8. /\ c \notin Elements(public_modules)
      /\ \A i \in 1 .. k : frames[i].mod \notin Elements(public_modules)
      /\ Elements(public_modules) \subseteq Ids
  BY <1>3, <1>4, Indices DEF LoaderInv, StillPrivate, Elements
<1>9. /\ PublicWhole' /\ NoDuplicatePublic' /\ DependencyOrder'
      /\ Elements(public_modules)' = Elements(public_modules) \cup {t}
      /\ AvailableFiles' = AvailableFiles \cup {modules[t].file}
  <2>1. \A m \in Elements(public_modules) \cup {t} : modules'[m].includes = modules[m].includes
    BY <1>3, <1>5, <1>7, <1>8
  <2> QED BY <1>1, <1>2, <1>3, <1>7, <2>1, PublishKeeps
<1>10. OwnModules' /\ Accounted' /\ Aligned'
  BY <1>1, <1>2, <1>6, <1>7, PoppedKeeps
<1>11. \A i \in 1 .. k : modules[frames[i].mod].failed = "none"
  BY <1>4 DEF LoaderInv, CallChain
<1>12. CallChain' /\ ActiveOnce'
  <2>1. \A i \in 1 .. k : modules'[frames[i].mod].failed = "none"
    BY <1>3, <1>7, <1>11
  <2> QED BY <1>4, <1>6, <1>7, <2>1, OuterKeep
<1> HIDE DEF n, k, c, t
<1>13. StillPrivate'
  <2>1. ASSUME NEW i \in 1 .. k
        PROVE  /\ frames'[i].mod \notin Elements(public_modules)'
               /\ frames'[i].kind = "load" =>
                     {m \in Elements(public_modules)' :
                         modules'[m].file = modules'[frames'[i].mod].file} = {}
               /\ \A m \in Ids' : frames'[i].mod \notin modules'[m].includes
               /\ result'.ok => frames'[i].mod # result'.mod
    <3>1. /\ i \in DOMAIN frames /\ frames[i].mod \in Ids /\ frames[i].mod # t
          /\ frames'[i].mod = frames[i].mod /\ frames'[i].kind = frames[i].kind
          /\ modules'[frames[i].mod].file = modules[frames[i].mod].file
      BY <1>3, <1>4, <1>6, <1>7
    <3>2. /\ frames[i].mod \notin Elements(public_modules)
          /\ frames[i].kind = "load" => PublicWith(modules[frames[i].mod].file) = {}
          /\ \A m \in Ids : frames[i].mod \notin modules[m].includes
          /\ result.ok => frames[i].mod # result.mod
      BY <3>1 DEF LoaderInv, StillPrivate
    <3>3. \A m \in Ids' : frames[i].mod \notin modules'[m].includes
      BY <1>7, <3>1, <3>2
    <3>4. frames[i].kind = "load" => modules[frames[i].mod].file # modules[t].file
      <4>1. frames[n].kind = "load" /\ frames[n].mod = t /\ i # n
        BY <1>1, <1>3, <1>4 DEF t
      <4> QED BY <1>4, <3>1, <4>1 DEF LoaderInv, ActiveOnce
    <3>5. frames[i].kind = "load" =>
             {m \in Elements(public_modules)' : modules'[m].file = modules[frames[i].mod].file} = {}
      <4>1. \A m \in Elements(public_modules) : modules'[m].file = modules[m].file
        BY <1>7, <1>8
      <4>2. modules'[t].file = modules[t].file
        BY <1>3, <1>7
      <4> QED BY <1>9, <3>2, <3>4, <4>1, <4>2 DEF PublicWith
    <3> QED BY <1>2, <1>9, <3>1, <3>2, <3>3, <3>5
  <2>2. DOMAIN frames' = 1 .. k
    BY <1>6
  <2> QED BY <2>1, <2>2 DEF StillPrivate, PublicWith
<1>14. UsesIncluded'
  <2>1. ASSUME NEW i \in 1 .. k
        PROVE  /\ \A u \in DOMAIN uses[modules'[frames'[i].mod].file] :
                     u < frames'[i].next => uses[modules'[frames'[i].mod].file][u] \in AvailableFiles'
               /\ modules'[frames'[i].mod].includes \subseteq Elements(public_modules)'
    <3>1. /\ i \in DOMAIN frames /\ frames[i].mod \in Ids
          /\ frames'[i].mod = frames[i].mod
          /\ modules'[frames[i].mod].file = modules[frames[i].mod].file
      BY <1>3, <1>4, <1>6, <1>7
    <3>2. /\ \A u \in DOMAIN uses[modules[frames[i].mod].file] :
                u < frames[i].next => uses[modules[frames[i].mod].file][u] \in AvailableFiles
          /\ modules[frames[i].mod].includes \subseteq Elements(public_modules)
      BY <3>1 DEF LoaderInv, UsesIncluded
    <3>3. modules'[frames[i].mod].includes \subseteq Elements(public_modules)'
      BY <1>7, <1>9, <3>1, <3>2
    <3>4. ASSUME NEW u \in DOMAIN uses[modules[frames[i].mod].file], u < frames'[i].next
          PROVE  uses[modules[frames[i].mod].file][u] \in AvailableFiles'
      <4>1. CASE i # k
        <5>1. frames'[i].next = frames[i].next
          BY <1>4, <1>6, <4>1
        <5> QED BY <1>9, <3>2, <3>4, <5>1
      <4>2. CASE i = k
        <5>1. frames'[i].next = frames[k].next + 1 /\ frames[k].next \in Nat
          BY <1>4, <1>6, <4>2, Indices DEF LoaderInv
        <5>2. u \in Nat
          BY <3>1, UsesAreFiles DEF LoaderInv
        <5>3. u < frames[k].next \/ u = frames[k].next
          BY <3>4, <5>1, <5>2
        <5>4. modules[t].file = uses[modules[frames[k].mod].file][frames[k].next]
          BY <1>3, <1>4 DEF LoaderInv, CallChain, t
        <5> QED BY <1>9, <3>2, <4>2, <5>3, <5>4
      <4> QED BY <4>1, <4>2
    <3> QED BY <3>1, <3>3, <3>4
  <2>2. DOMAIN frames' = 1 .. k
    BY <1>6
  <2> QED BY <2>1, <2>2, Zenon DEF UsesIncluded
<1>15. KnownIds'
  BY <1>2, <1>3, <1>5, <1>7 DEF KnownIds, LoaderInv
<1>16. FailedStaysPrivate'
  <2>1. result'.ok => modules'[result'.mod].failed = "none"
    BY <1>2, <1>7 DEF FailedStaysPrivate, KnownIds, LoaderInv
  <2>2. ASSUME NEW m \in Ids', NEW j \in modules'[m].includes PROVE modules'[j].failed = "none"
    <3>1. j = t \/ j \in modules[m].includes
      BY <1>5, <1>7
    <3>2. CASE j = t
      BY <1>3, <1>7, <3>2
    <3>3. CASE j \in modules[m].includes
      <4>1. j \in Ids /\ modules[j].failed = "none"
        BY <1>7, <3>3 DEF FailedStaysPrivate, KnownIds, LoaderInv
      <4> QED BY <1>7, <4>1
    <3> QED BY <3>1, <3>2, <3>3
  <2> QED BY <2>1, <2>2 DEF FailedStaysPrivate
<1> QED
  BY <1>9, <1>10, <1>12, <1>13, <1>14, <1>15, <1>16 DEF LoaderInv

(* An import of a public module. *)
LEMMA ImportCachedKeeps ==
    ASSUME LoaderInv, TypeOK', uses' = uses, NEW f \in Files, ImportCached(f)
    PROVE  LoaderInv'
<1> DEFINE n == Len(frames)
           t == Top.mod
<1>1. ~Idle /\ thrown = "none" /\ AtUse(f)
  BY DEF ImportCached, AtUse
<1>2. PICK p \in PublicWith(f) : modules' = Include(p)
  BY DEF ImportCached
<1>3. /\ frames' = [frames EXCEPT ![n].next = @ + 1]
      /\ loading_module_stack' = loading_module_stack /\ public_modules' = public_modules
      /\ thrown' = thrown /\ result' = result
  BY DEF ImportCached
<1>4. /\ n \in Nat \ {0} /\ DOMAIN frames = 1 .. n
      /\ Top = frames[n] /\ t \in Ids /\ t \notin Elements(public_modules)
      /\ Current = modules[t] /\ modules[t].failed = "none"
      /\ \A i \in 1 .. n - 1 : frames[i].mod \in Ids /\ frames[i].mod # t
  BY <1>1, Innermost
<1>5. /\ n \in 1 .. n /\ n \in Nat /\ n <= n
      /\ \A i \in 1 .. n : i < n => i # n
      /\ \A i \in 1 .. n : i # n => i \in 1 .. n - 1
  <2>1. \A z \in Nat \ {0} : /\ z \in 1 .. z /\ z \in Nat /\ z <= z
                             /\ \A i \in 1 .. z : i < z => i # z
                             /\ \A i \in 1 .. z : i # z => i \in 1 .. z - 1
    OBVIOUS
  <2> QED BY <1>4, <2>1, Zenon
<1>6. p \in Ids /\ p \in Elements(public_modules) /\ modules[p].file = f /\ modules[p].failed = "none"
  <2>1. p \in Elements(public_modules) /\ modules[p].file = f
    BY <1>2 DEF PublicWith
  <2>2. PICK i \in DOMAIN public_modules : public_modules[i] = p
    BY <2>1 DEF Elements
  <2> QED BY <2>1, <2>2, Indices DEF LoaderInv, PublicWhole
<1>7. /\ DOMAIN frames' = 1 .. n /\ Len(frames') = n
      /\ \A i \in 1 .. n : /\ frames'[i].kind = frames[i].kind
                           /\ frames'[i].mod = frames[i].mod
                           /\ i < n => frames'[i].next = frames[i].next
      /\ frames'[n].next = frames[n].next + 1
  <2>1. frames \in Seq(Frames(Len(modules)))
    BY DEF LoaderInv, TypeOK, Frames, Ids
  <2>2. frames[n] \in Frames(Len(modules))
    BY <1>5, <2>1, ElementOfSeq
  <2>3. frames' = [frames EXCEPT ![n] = [frames[n] EXCEPT !.next = @ + 1]]
    BY <1>3
  <2>4. [frames[n] EXCEPT !.next = @ + 1] \in Frames(Len(modules))
    BY <2>2 DEF Frames
  <2>5. Len(frames') = n /\ DOMAIN frames' = 1 .. n
    BY <1>5, <2>1, <2>3, <2>4, ExceptSeq, LenProperties
  <2>6. \A i \in 1 .. n : i # n => frames'[i] = frames[i]
    BY <1>4, <2>3
  <2>7. frames'[n] = [frames[n] EXCEPT !.next = @ + 1]
    BY <1>4, <1>5, <2>3
  <2>8. /\ frames'[n].kind = frames[n].kind /\ frames'[n].mod = frames[n].mod
        /\ frames'[n].next = frames[n].next + 1
    BY <2>2, <2>7 DEF Frames
  <2> QED BY <1>5, <2>5, <2>6, <2>8
<1>8. /\ Len(modules') = Len(modules) /\ Ids' = Ids
      /\ \A m \in Ids : /\ modules'[m].file = modules[m].file
                        /\ modules'[m].failed = modules[m].failed
                        /\ m # t => modules'[m].includes = modules[m].includes
      /\ modules'[t].includes = modules[t].includes \cup {p}
  <2>1. modules \in Seq(ModuleRecord)
    BY DEF LoaderInv, TypeOK
  <2>2. modules[t] \in ModuleRecord /\ t \in 1 .. Len(modules) /\ DOMAIN modules = 1 .. Len(modules)
    BY <1>4, <2>1, ElementOfSeq, LenProperties DEF Ids
  <2>3. modules' = [modules EXCEPT ![t] = [modules[t] EXCEPT !.includes = @ \cup {p}]]
    BY <1>2 DEF Include
  <2>4. [modules[t] EXCEPT !.includes = @ \cup {p}] \in ModuleRecord
    <3>1. p \in Nat
      BY <1>6, Indices DEF LoaderInv
    <3> HIDE DEF t
    <3> QED BY <2>2, <3>1 DEF ModuleRecord
  <2>5. Len(modules') = Len(modules)
    BY <1>4, <2>3, <2>4, ModuleUpdate DEF LoaderInv
  <2>6. \A m \in Ids : m # t => modules'[m] = modules[m]
    BY <2>2, <2>3 DEF Ids
  <2>7. modules'[t] = [modules[t] EXCEPT !.includes = @ \cup {p}]
    BY <2>2, <2>3
  <2>8. /\ modules'[t].file = modules[t].file
        /\ modules'[t].failed = modules[t].failed
        /\ modules'[t].includes = modules[t].includes \cup {p}
    BY <2>2, <2>7 DEF ModuleRecord
  <2> QED BY <2>5, <2>6, <2>8 DEF Ids
<1>9. /\ PublicWhole' /\ NoDuplicatePublic' /\ DependencyOrder'
      /\ AvailableFiles' = AvailableFiles
      /\ Elements(public_modules)' = Elements(public_modules)
      /\ \A g : {m \in Elements(public_modules) : modules'[m].file = g} = PublicWith(g)
  <2>1. Elements(public_modules) \subseteq Ids
    BY Indices DEF LoaderInv, Elements
  <2> QED BY <1>3, <1>4, <1>8, <2>1, PublicKeeps
<1>10. \A i \in 1 .. n : frames[i].mod \in Ids
  BY <1>4, <1>5
<1>11. CallChain' /\ ActiveOnce'
  <2>1. \A i \in 1 .. n : modules'[frames[i].mod].failed = "none"
    BY <1>4, <1>8, <1>10 DEF LoaderInv, CallChain
  <2> QED BY <1>5, <1>7, <1>8, <2>1, OuterKeep
<1> HIDE DEF n, t
<1>12. OwnModules'
  <2>1. \A i, j \in 1 .. n : i < j => frames'[i].mod < frames'[j].mod
    BY <1>4, <1>7 DEF LoaderInv, OwnModules
  <2> QED BY <1>3, <1>7, <2>1 DEF LoaderInv, OwnModules
<1>13. StillPrivate'
  <2>1. ASSUME NEW i \in 1 .. n
        PROVE  /\ frames'[i].mod \notin Elements(public_modules)
               /\ frames'[i].kind = "load" =>
                     {m \in Elements(public_modules) :
                         modules'[m].file = modules'[frames'[i].mod].file} = {}
               /\ \A m \in Ids' : frames'[i].mod \notin modules'[m].includes
               /\ result.ok => frames'[i].mod # result.mod
    <3>1. /\ frames'[i].mod = frames[i].mod /\ frames'[i].kind = frames[i].kind
          /\ modules'[frames[i].mod].file = modules[frames[i].mod].file
      BY <1>7, <1>8, <1>10
    <3>2. /\ frames[i].mod \notin Elements(public_modules)
          /\ frames[i].kind = "load" => PublicWith(modules[frames[i].mod].file) = {}
          /\ \A m \in Ids : frames[i].mod \notin modules[m].includes
          /\ result.ok => frames[i].mod # result.mod
      BY <1>4 DEF LoaderInv, StillPrivate
    <3>3. \A m \in Ids' : frames[i].mod \notin modules'[m].includes
      BY <1>6, <1>8, <3>2
    <3> QED BY <1>9, <3>1, <3>2, <3>3
  <2> QED BY <1>3, <1>7, <1>9, <2>1 DEF StillPrivate, PublicWith
<1>14. UsesIncluded'
  <2>1. ASSUME NEW i \in 1 .. n
        PROVE  /\ \A u \in DOMAIN uses[modules'[frames'[i].mod].file] :
                     u < frames'[i].next => uses[modules'[frames'[i].mod].file][u] \in AvailableFiles
               /\ modules'[frames'[i].mod].includes \subseteq Elements(public_modules)
    <3>1. /\ frames'[i].mod = frames[i].mod /\ frames[i].mod \in Ids
          /\ modules'[frames[i].mod].file = modules[frames[i].mod].file
      BY <1>7, <1>8, <1>10
    <3>2. /\ \A u \in DOMAIN uses[modules[frames[i].mod].file] :
                u < frames[i].next => uses[modules[frames[i].mod].file][u] \in AvailableFiles
          /\ modules[frames[i].mod].includes \subseteq Elements(public_modules)
      BY <1>4 DEF LoaderInv, UsesIncluded
    <3>3. modules'[frames[i].mod].includes \subseteq Elements(public_modules)
      BY <1>6, <1>8, <3>1, <3>2
    <3>4. ASSUME NEW u \in DOMAIN uses[modules[frames[i].mod].file], u < frames'[i].next
          PROVE  uses[modules[frames[i].mod].file][u] \in AvailableFiles
      <4>1. CASE i # n
        <5>1. i < n
          BY <1>4, <4>1
        <5> QED BY <1>7, <3>2, <3>4, <5>1
      <4>2. CASE i = n
        <5>1. frames'[i].next = frames[n].next + 1 /\ frames[n].next \in Nat
          BY <1>4, <1>5, <1>7, <4>2, Indices DEF LoaderInv
        <5>2. u \in Nat
          BY <3>1, UsesAreFiles DEF LoaderInv
        <5>3. u < frames[n].next \/ u = frames[n].next
          BY <3>4, <5>1, <5>2
        <5>4. f = uses[modules[frames[n].mod].file][frames[n].next]
          BY <1>1, <1>4 DEF AtUse, t
        <5>5. f \in AvailableFiles
          BY <1>6 DEF AvailableFiles
        <5> QED BY <3>2, <4>2, <5>3, <5>4, <5>5
      <4> QED BY <4>1, <4>2
    <3> QED BY <3>1, <3>3, <3>4
  <2> QED BY <1>7, <1>9, <2>1 DEF UsesIncluded
<1>15. KnownIds'
  BY <1>3, <1>6, <1>8 DEF KnownIds, LoaderInv
<1>16. FailedStaysPrivate'
  <2>1. result'.ok => modules'[result'.mod].failed = "none"
    BY <1>3, <1>8 DEF FailedStaysPrivate, KnownIds, LoaderInv
  <2>2. ASSUME NEW m \in Ids', NEW j \in modules'[m].includes PROVE modules'[j].failed = "none"
    <3>1. j = p \/ j \in modules[m].includes
      BY <1>8
    <3>2. CASE j = p
      BY <1>6, <1>8, <3>2
    <3>3. CASE j \in modules[m].includes
      <4>1. j \in Ids /\ modules[j].failed = "none"
        BY <1>8, <3>3 DEF FailedStaysPrivate, KnownIds, LoaderInv
      <4> QED BY <1>8, <4>1
    <3> QED BY <3>1, <3>2, <3>3
  <2> QED BY <2>1, <2>2 DEF FailedStaysPrivate
<1>17. \A j \in DOMAIN loading_module_stack : loading_module_stack[j] \in Ids
  BY Indices DEF LoaderInv
<1>18. Accounted'
  <2>1. ASSUME NEW j \in DOMAIN loading_module_stack
        PROVE  LET m == loading_module_stack[j]
               IN \/ modules'[m].file = CommandLine
                  \/ modules'[m].failed = "foreign"
                  \/ \E i \in DOMAIN frames' : frames'[i].kind = "load" /\ frames'[i].mod = m
    <3>1. \/ modules[loading_module_stack[j]].file = CommandLine
          \/ modules[loading_module_stack[j]].failed = "foreign"
          \/ \E i \in 1 .. n : frames[i].kind = "load" /\ frames[i].mod = loading_module_stack[j]
      BY <1>4 DEF LoaderInv, Accounted
    <3> QED BY <1>7, <1>8, <1>17, <3>1
  <2> QED BY <1>3, <2>1 DEF Accounted
<1>19. Aligned'
  <2>1. ASSUME NEW i \in 1 .. n, frames'[i].kind # "source"
        PROVE  /\ Len(loading_module_stack) > n - i
               /\ loading_module_stack[Len(loading_module_stack) - (n - i)] = frames'[i].mod
    BY <1>1, <1>4, <1>7, <2>1 DEF LoaderInv, Aligned, n
  <2>2. DOMAIN frames' = 1 .. n /\ Len(frames') = n
    BY <1>7
  <2> QED BY <1>3, <2>1, <2>2 DEF Aligned
<1> QED
  BY <1>9, <1>11, <1>12, <1>13, <1>14, <1>15, <1>16, <1>18, <1>19 DEF LoaderInv

(* An exception leaves the innermost activation. *)
LEMMA UnwindKeeps ==
    ASSUME LoaderInv, TypeOK', uses' = uses, Unwind
    PROVE  LoaderInv'
<1> DEFINE n == Len(frames)
           k == Len(frames) - 1
           t == Top.mod
<1>1. ~Idle /\ thrown # "none"
  BY DEF Unwind
<1>2. /\ modules' = [modules EXCEPT ![t].failed = thrown] /\ frames' = Pop(frames)
      /\ loading_module_stack' = IF Top.kind = "load" /\ thrown \in CaughtByLoad
                                 THEN PoppedStack ELSE loading_module_stack
      /\ thrown' = IF n = 1 THEN "none" ELSE IF thrown = "file" THEN "kaba" ELSE thrown
      /\ result' = IF n = 1 THEN [NoResult EXCEPT !.mod = t] ELSE result
      /\ public_modules' = public_modules
  BY DEF Unwind
<1>3. /\ n \in Nat \ {0} /\ DOMAIN frames = 1 .. n
      /\ Top = frames[n] /\ t \in Ids /\ t \notin Elements(public_modules)
      /\ Current = modules[t] /\ modules[t].failed = "none"
      /\ Top.kind # "load" => n = 1
      /\ \A m \in Ids : t \notin modules[m].includes
      /\ result.ok => result.mod # t
      /\ \A i \in 1 .. k : frames[i].mod \in Ids /\ frames[i].mod # t
      /\ DOMAIN frames' = 1 .. k /\ Len(frames') = k
      /\ \A i \in 1 .. k : frames'[i] = frames[i]
  BY <1>1, <1>2, Innermost
<1>4. /\ k \in Nat /\ k <= n /\ k + 1 = n
      /\ \A i \in 1 .. k : i \in 1 .. n
      /\ \A i \in 1 .. n : i # n => i \in 1 .. k
  <2>1. \A z \in Nat \ {0} : /\ z - 1 \in Nat /\ z - 1 <= z /\ z - 1 + 1 = z
                             /\ \A i \in 1 .. z - 1 : i \in 1 .. z
                             /\ \A i \in 1 .. z : i # z => i \in 1 .. z - 1
    OBVIOUS
  <2> QED BY <1>3, <2>1, Zenon
<1>5. /\ Len(modules') = Len(modules) /\ Ids' = Ids
      /\ \A m \in Ids : /\ modules'[m].file = modules[m].file
                        /\ modules'[m].includes = modules[m].includes
                        /\ m # t => modules'[m].failed = modules[m].failed
      /\ modules'[t].failed = thrown
  <2>1. modules \in Seq(ModuleRecord) /\ thrown \in Outcomes
    BY DEF LoaderInv, TypeOK
  <2>2. modules[t] \in ModuleRecord /\ t \in 1 .. Len(modules) /\ DOMAIN modules = 1 .. Len(modules)
    BY <1>3, <2>1, ElementOfSeq, LenProperties DEF Ids
  <2>3. modules' = [modules EXCEPT ![t] = [modules[t] EXCEPT !.failed = thrown]]
    BY <1>2
  <2>4. [modules[t] EXCEPT !.failed = thrown] \in ModuleRecord
    <3> HIDE DEF t
    <3> QED BY <2>1, <2>2 DEF ModuleRecord
  <2>5. Len(modules') = Len(modules)
    BY <1>3, <2>3, <2>4, ModuleUpdate DEF LoaderInv
  <2>6. \A m \in Ids : m # t => modules'[m] = modules[m]
    BY <2>2, <2>3 DEF Ids
  <2>7. modules'[t] = [modules[t] EXCEPT !.failed = thrown]
    BY <2>2, <2>3
  <2>8. /\ modules'[t].file = modules[t].file
        /\ modules'[t].includes = modules[t].includes
        /\ modules'[t].failed = thrown
    BY <2>2, <2>7 DEF ModuleRecord
  <2> QED BY <2>5, <2>6, <2>8 DEF Ids
<1>6. /\ PublicWhole' /\ NoDuplicatePublic' /\ DependencyOrder'
      /\ AvailableFiles' = AvailableFiles
      /\ Elements(public_modules)' = Elements(public_modules)
      /\ \A g : {m \in Elements(public_modules) : modules'[m].file = g} = PublicWith(g)
  <2>1. Elements(public_modules) \subseteq Ids
    BY Indices DEF LoaderInv, Elements
  <2> QED BY <1>2, <1>3, <1>5, <2>1, PublicKeeps
<1>7. CallChain' /\ ActiveOnce'
  <2>1. \A i \in 1 .. k : modules'[frames[i].mod].failed = "none"
    BY <1>3, <1>4, <1>5 DEF LoaderInv, CallChain
  <2> QED BY <1>3, <1>4, <1>5, <2>1, OuterKeep
<1>8. OwnModules' /\ Accounted' /\ Aligned'
  <2>1. CASE Top.kind = "load" /\ thrown \in CaughtByLoad
    <3>1. thrown # "foreign" /\ loading_module_stack' = PoppedStack
      BY <1>2, <2>1 DEF CaughtByLoad
    <3> QED BY <1>1, <1>3, <1>5, <2>1, <3>1, PoppedKeeps
  <2>2. CASE ~(Top.kind = "load" /\ thrown \in CaughtByLoad)
    <3>1. loading_module_stack' = loading_module_stack
      BY <1>2, <2>2
    <3>2. thrown = "foreign" \/ Top.kind # "load"
      BY <1>1, <2>2 DEF LoaderInv, TypeOK, Outcomes, CaughtByLoad
    <3> HIDE DEF n, k, t
    <3>3. OwnModules'
      <4>1. \A i, j \in 1 .. k : i < j => frames'[i].mod < frames'[j].mod
        BY <1>3, <1>4 DEF LoaderInv, OwnModules
      <4> QED BY <1>3, <3>1, <4>1 DEF LoaderInv, OwnModules
    <3>4. Accounted'
      <4>1. ASSUME NEW j \in DOMAIN loading_module_stack
            PROVE  LET m == loading_module_stack[j]
                   IN \/ modules'[m].file = CommandLine
                      \/ modules'[m].failed = "foreign"
                      \/ \E i \in DOMAIN frames' : frames'[i].kind = "load" /\ frames'[i].mod = m
        <5>1. PICK m \in Ids : m = loading_module_stack[j]
          BY Indices DEF LoaderInv
        <5>2. \/ modules[m].file = CommandLine
              \/ modules[m].failed = "foreign"
              \/ \E i \in 1 .. n : frames[i].kind = "load" /\ frames[i].mod = m
          BY <1>3, <5>1 DEF LoaderInv, Accounted
        <5>3. CASE m = t
          <6>1. modules[m].failed # "foreign"
            BY <1>3, <5>3
          <6>2. CASE thrown = "foreign"
            BY <1>5, <5>1, <5>3, <6>2
          <6>3. CASE thrown # "foreign"
            <7>1. n = 1 /\ frames[n].kind # "load"
              BY <1>3, <3>2, <6>3
            <7>2. \A i \in 1 .. n : frames[i].kind # "load"
              BY <7>1
            <7>3. modules[m].file = CommandLine
              BY <5>2, <6>1, <7>2
            <7> QED BY <1>5, <5>1, <7>3
          <6> QED BY <6>2, <6>3
        <5>4. CASE m # t
          <6>1. modules'[m].file = modules[m].file /\ modules'[m].failed = modules[m].failed
            BY <1>5, <5>4
          <6>2. ASSUME NEW i \in 1 .. n, frames[i].kind = "load", frames[i].mod = m
                PROVE  i \in DOMAIN frames' /\ frames'[i].kind = "load" /\ frames'[i].mod = m
            <7>1. i # n
              BY <1>3, <5>4, <6>2 DEF t
            <7> QED BY <1>3, <1>4, <6>2, <7>1
          <6> QED BY <5>1, <5>2, <6>1, <6>2
        <5> QED BY <5>3, <5>4
      <4> QED BY <3>1, <4>1 DEF Accounted
    <3>5. Aligned'
      <4>1. CASE n = 1
        <5>1. DOMAIN frames' = {}
          BY <1>3, <1>4, <4>1
        <5> QED BY <5>1 DEF Aligned
      <4>2. CASE n # 1
        <5>1. thrown = "foreign"
          BY <1>3, <3>2, <4>2
        <5>2. thrown' = "foreign"
          BY <1>2, <4>2, <5>1
        <5> QED BY <5>2 DEF Aligned
      <4> QED BY <4>1, <4>2
    <3> QED BY <3>3, <3>4, <3>5
  <2> QED BY <2>1, <2>2
<1>9. result'.ok => result' = result
  BY <1>2 DEF NoResult
<1> HIDE DEF n, k, t
<1>10. StillPrivate'
  <2>1. ASSUME NEW i \in 1 .. k
        PROVE  /\ frames'[i].mod \notin Elements(public_modules)
               /\ frames'[i].kind = "load" =>
                     {m \in Elements(public_modules) :
                         modules'[m].file = modules'[frames'[i].mod].file} = {}
               /\ \A m \in Ids' : frames'[i].mod \notin modules'[m].includes
               /\ result'.ok => frames'[i].mod # result'.mod
    <3>1. /\ frames'[i] = frames[i] /\ i \in DOMAIN frames
          /\ modules'[frames[i].mod].file = modules[frames[i].mod].file
      BY <1>3, <1>4, <1>5
    <3>2. /\ frames[i].mod \notin Elements(public_modules)
          /\ frames[i].kind = "load" => PublicWith(modules[frames[i].mod].file) = {}
          /\ \A m \in Ids : frames[i].mod \notin modules[m].includes
          /\ result.ok => frames[i].mod # result.mod
      BY <3>1 DEF LoaderInv, StillPrivate
    <3>3. \A m \in Ids' : frames[i].mod \notin modules'[m].includes
      BY <1>5, <3>2
    <3> QED BY <1>6, <1>9, <3>1, <3>2, <3>3
  <2> QED BY <1>2, <1>3, <1>6, <2>1 DEF StillPrivate, PublicWith
<1>11. UsesIncluded'
  <2>1. ASSUME NEW i \in 1 .. k
        PROVE  /\ \A u \in DOMAIN uses[modules'[frames'[i].mod].file] :
                     u < frames'[i].next => uses[modules'[frames'[i].mod].file][u] \in AvailableFiles
               /\ modules'[frames'[i].mod].includes \subseteq Elements(public_modules)
    <3>1. /\ frames'[i] = frames[i] /\ i \in DOMAIN frames
          /\ modules'[frames[i].mod].file = modules[frames[i].mod].file
          /\ modules'[frames[i].mod].includes = modules[frames[i].mod].includes
      BY <1>3, <1>4, <1>5
    <3> QED BY <3>1 DEF LoaderInv, UsesIncluded
  <2> QED BY <1>3, <1>6, <2>1 DEF UsesIncluded
<1>12. KnownIds'
  BY <1>5, <1>9 DEF KnownIds, LoaderInv
<1>13. FailedStaysPrivate'
  <2>1. result'.ok => modules'[result'.mod].failed = "none"
    BY <1>3, <1>5, <1>9 DEF FailedStaysPrivate, KnownIds, LoaderInv
  <2>2. ASSUME NEW m \in Ids', NEW j \in modules'[m].includes PROVE modules'[j].failed = "none"
    <3>1. j \in Ids /\ modules[j].failed = "none" /\ j # t
      BY <1>3, <1>5 DEF FailedStaysPrivate, KnownIds, LoaderInv
    <3> QED BY <1>5, <3>1
  <2> QED BY <2>1, <2>2 DEF FailedStaysPrivate
<1> QED
  BY <1>6, <1>7, <1>8, <1>10, <1>11, <1>12, <1>13 DEF LoaderInv

(* The load that was asked for, or an import, of a file that is not public. *)
LEMMA StartLoadKeeps ==
    ASSUME LoaderInv, TypeOK', uses' = uses, result' = result, thrown' = thrown,
           NEW f \in Files, NEW analyse \in BOOLEAN, StartLoad(f, analyse),
           PublicWith(f) = {},
           Idle \/ (AtUse(f) /\ ~OnLoadingStack(f))
    PROVE  LoaderInv'
<1>1. \A i \in DOMAIN frames : frames[i].kind = "load" => modules[frames[i].mod].file # f
  <2>1. ASSUME NEW i \in DOMAIN frames, frames[i].kind = "load"
        PROVE  modules[frames[i].mod].file # f
    <3>1. ~Idle
      BY <2>1, Indices DEF LoaderInv, Idle
    <3>2. thrown = "none" /\ ~OnLoadingStack(f)
      BY <3>1 DEF AtUse
    <3>3. /\ Len(loading_module_stack) > Len(frames) - i
          /\ loading_module_stack[Len(loading_module_stack) - (Len(frames) - i)] = frames[i].mod
      BY <2>1, <3>2 DEF LoaderInv, Aligned
    <3>4. Len(loading_module_stack) - (Len(frames) - i) \in DOMAIN loading_module_stack
      <4>1. /\ Len(loading_module_stack) \in Nat /\ Len(frames) \in Nat
            /\ i \in 1 .. Len(frames)
            /\ DOMAIN loading_module_stack = 1 .. Len(loading_module_stack)
        BY Indices DEF LoaderInv
      <4>2. \A d, n \in Nat : \A j \in 1 .. n : d > n - j => d - (n - j) \in 1 .. d
        OBVIOUS
      <4> QED BY <3>3, <4>1, <4>2
    <3>5. frames[i].mod \in Elements(loading_module_stack)
      BY <3>3, <3>4 DEF Elements
    <3> QED BY <3>2, <3>5 DEF OnLoadingStack
  <2> QED BY <2>1
<1>2. /\ public_modules' = public_modules
      /\ modules' = Append(modules, NewModule(f, analyse))
      /\ frames' = Append(frames, [kind |-> "load", mod |-> Len(modules) + 1, next |-> 1])
      /\ loading_module_stack' = Append(loading_module_stack, Len(modules) + 1)
  BY DEF StartLoad, FirstUse
<1>3. f \in Sources /\ "load" \in Kinds
  BY DEF Sources, Kinds
<1>4. \A kind : kind = "load" => kind # "source" /\ kind # "command"
  OBVIOUS
<1> QED BY <1>1, <1>2, <1>3, <1>4, OpenedKeeps

LEMMA LoaderInit == Init => LoaderInv
<1> SUFFICES ASSUME Init PROVE LoaderInv
  OBVIOUS
<1>1. TypeOK
  BY TypeInit
<1>2. /\ DOMAIN frames = {} /\ DOMAIN public_modules = {} /\ DOMAIN loading_module_stack = {}
      /\ Ids = {} /\ ~result.ok
  BY DEF Init, Ids, NoResult
<1> QED
  BY <1>1, <1>2 DEF LoaderInv, CallChain, OwnModules, StillPrivate, UsesIncluded, PublicWhole,
     KnownIds, NoDuplicatePublic, DependencyOrder, ActiveOnce, Accounted, Aligned,
     FailedStaysPrivate

(* Every action of the loader keeps the three bookkeepings in agreement. *)
LEMMA LoaderNext == LoaderInv /\ [Next]_loaderVars => LoaderInv'
<1> SUFFICES ASSUME LoaderInv, [Next]_loaderVars PROVE LoaderInv'
  OBVIOUS
<1> USE ModesAssumption
<1>t. TypeOK /\ TypeOK'
  BY TypeNext DEF LoaderInv
<1>u. uses' = uses
  BY DEF Next, Call, Progress, Fail, loaderVars
<1>r. /\ result.ok => /\ result.mod \in Ids /\ modules[result.mod].failed = "none"
                      /\ \A i \in DOMAIN frames : frames[i].mod # result.mod
      /\ Elements(public_modules) \subseteq Ids
  BY Indices DEF LoaderInv, KnownIds, FailedStaysPrivate, StillPrivate, Elements
<1>1. ASSUME NEW f \in Files, NEW analyse \in Modes, LoadCached(f, analyse) PROVE LoaderInv'
  <2>1. PICK m \in PublicWith(f) : result' = [ok |-> TRUE, mod |-> m, analyse |-> analyse]
    BY <1>1 DEF LoadCached
  <2>2. m \in Ids /\ m \in Elements(public_modules)
    BY <1>r DEF PublicWith
  <2>3. modules[m].failed = "none"
    <3>1. PICK i \in DOMAIN public_modules : public_modules[i] = m
      BY <2>2 DEF Elements
    <3> QED BY <3>1 DEF LoaderInv, PublicWhole
  <2>4. \A i \in DOMAIN frames : frames[i].mod # m
    BY <2>2 DEF LoaderInv, StillPrivate
  <2> QED BY <1>1, <1>t, <1>u, <2>1, <2>2, <2>3, <2>4, QuietKeeps DEF LoadCached
<1>2. ASSUME NEW f \in Files, NEW analyse \in Modes, LoadModule(f, analyse) PROVE LoaderInv'
  <2>1. /\ Idle /\ PublicWith(f) = {} /\ StartLoad(f, analyse)
        /\ thrown' = thrown /\ result' = result
    BY <1>2 DEF LoadModule
  <2> QED BY <1>t, <1>u, <2>1, StartLoadKeeps
<1>3. ASSUME NEW f \in Files, NEW analyse \in Modes, CreateModuleForSource(f, analyse)
      PROVE  LoaderInv'
  <2>1. /\ Idle /\ public_modules' = public_modules /\ result' = result /\ thrown' = thrown
        /\ modules' = Append(modules, NewModule(f, analyse))
        /\ frames' = <<[kind |-> "source", mod |-> Len(modules) + 1, next |-> 1]>>
        /\ loading_module_stack' = loading_module_stack
    BY <1>3 DEF CreateModuleForSource, FirstUse
  <2>2. frames' = Append(frames, [kind |-> "source", mod |-> Len(modules) + 1, next |-> 1])
    BY <2>1 DEF Idle
  <2>3. f \in Sources /\ "source" \in Kinds /\ analyse \in BOOLEAN
    BY <1>3 DEF Sources, Kinds
  <2>4. \A kind : kind = "source" => kind # "load" /\ kind # "command"
    OBVIOUS
  <2> QED BY <1>t, <1>u, <2>1, <2>2, <2>3, <2>4, OpenedKeeps
<1>4. ASSUME ExecuteSingleCommand PROVE LoaderInv'
  <2>1. /\ Idle /\ public_modules' = public_modules /\ result' = result /\ thrown' = thrown
        /\ modules' = Append(modules, NewModule(CommandLine, FALSE))
        /\ frames' = <<[kind |-> "command", mod |-> Len(modules) + 1, next |-> 1]>>
        /\ loading_module_stack' = Append(loading_module_stack, Len(modules) + 1)
    BY <1>4 DEF ExecuteSingleCommand, FirstUse
  <2>2. frames' = Append(frames, [kind |-> "command", mod |-> Len(modules) + 1, next |-> 1])
    BY <2>1 DEF Idle
  <2>3. CommandLine \in Sources /\ "command" \in Kinds
    BY DEF Sources, Kinds
  <2>4. \A kind : kind = "command" => kind # "load" /\ kind # "source"
    OBVIOUS
  <2> QED BY <1>t, <1>u, <2>1, <2>2, <2>3, <2>4, OpenedKeeps
<1>5. CASE CleanUp
  BY <1>5, <1>t, <1>u, CleanUpKeeps
<1>6. ASSUME NEW f \in Files, RecursiveImport(f) PROVE LoaderInv'
  <2>1. thrown = "none"
    BY <1>6 DEF RecursiveImport, AtUse
  <2> QED BY <1>6, <1>r, <1>t, <1>u, <2>1, QuietKeeps DEF RecursiveImport
<1>7. ASSUME NEW f \in Files, ImportCached(f) PROVE LoaderInv'
  BY <1>7, <1>t, <1>u, ImportCachedKeeps
<1>8. ASSUME NEW f \in Files, ImportLoad(f) PROVE LoaderInv'
  <2>1. /\ AtUse(f) /\ ~OnLoadingStack(f) /\ PublicWith(f) = {} /\ StartLoad(f, ImportFlag)
        /\ thrown' = thrown /\ result' = result
    BY <1>8 DEF ImportLoad
  <2>2. PICK analyse \in BOOLEAN : analyse = ImportFlag
    BY <1>t, <2>1, TopType DEF AtUse, ImportFlag, ModuleRecord
  <2>3. StartLoad(f, analyse)
    BY <2>1, <2>2
  <2> QED BY <1>t, <1>u, <2>1, <2>3, StartLoadKeeps
<1>9. CASE RegisterSource
  BY <1>9, <1>r, <1>t, <1>u, QuietKeeps DEF RegisterSource
<1>10. CASE Compile
  <2>1. Top.mod \in Ids /\ Current \in ModuleRecord
    BY <1>10, <1>t, TopType DEF Compile, Parsed
  <2>2. modules' = [modules EXCEPT ![Top.mod] = [Current EXCEPT !.compiled = TRUE]]
    BY <1>10 DEF Compile, Current
  <2>3. [Current EXCEPT !.compiled = TRUE] \in ModuleRecord
    BY <2>1 DEF ModuleRecord
  <2>4. Len(modules') = Len(modules)
    BY <1>t, <2>1, <2>2, <2>3, ModuleUpdate
  <2>5. modules \in Seq(ModuleRecord) /\ Ids = DOMAIN modules
    BY <1>t, LenProperties DEF TypeOK, Ids
  <2>6. \A m \in Ids : m # Top.mod => modules'[m] = modules[m]
    BY <2>2, <2>5
  <2>7. modules'[Top.mod] = [Current EXCEPT !.compiled = TRUE]
    BY <2>1, <2>2, <2>5
  <2>8. /\ modules'[Top.mod].file = modules[Top.mod].file
        /\ modules'[Top.mod].failed = modules[Top.mod].failed
        /\ modules'[Top.mod].includes = modules[Top.mod].includes
    BY <2>1, <2>7 DEF ModuleRecord, Current
  <2>9. \A m \in Ids : /\ modules'[m].file = modules[m].file
                       /\ modules'[m].failed = modules[m].failed
                       /\ modules'[m].includes = modules[m].includes
    BY <2>6, <2>8
  <2> QED BY <1>10, <1>r, <1>t, <1>u, <2>4, <2>9, QuietKeeps DEF Compile
<1>11. CASE ReturnLoad
  BY <1>11, <1>t, <1>u, OuterReturnKeeps, InnerReturnKeeps
<1>12. CASE ReturnOther
  BY <1>12, <1>t, <1>u, ReturnOtherKeeps
<1>13. ASSUME NEW kind \in Failures, Fail(kind) PROVE LoaderInv'
  <2>1. thrown = "none"
    BY <1>13 DEF Fail
  <2> QED BY <1>13, <1>r, <1>t, <1>u, <2>1, QuietKeeps DEF Fail
<1>14. CASE Unwind
  BY <1>14, <1>t, <1>u, UnwindKeeps
<1>15. CASE UNCHANGED loaderVars
  BY <1>15, <1>r, <1>t, <1>u, QuietKeeps DEF loaderVars
<1> QED
  BY <1>1, <1>2, <1>3, <1>4, <1>5, <1>6, <1>7, <1>8, <1>9, <1>10, <1>11, <1>12, <1>13,
     <1>14, <1>15 DEF Next, Call, Progress

(* The call stack, the global loading stack and the list of public modules
   agree on every path, for all files, uses and bounds. *)
THEOREM LoaderInvariant == Spec => []LoaderInv
<1> QED BY LoaderInit, LoaderNext, PTL DEF Spec

(* No file is public twice. *)
THEOREM PublicOnce == Spec => []NoDuplicatePublic
<1>1. LoaderInv => NoDuplicatePublic
  BY DEF LoaderInv
<1> QED BY <1>1, LoaderInvariant, PTL

(* A module is public only after everything it includes. *)
THEOREM IncludedFirst == Spec => []DependencyOrder
<1>1. LoaderInv => DependencyOrder
  BY DEF LoaderInv
<1> QED BY <1>1, LoaderInvariant, PTL

(* A "recursive import" is a real one, or the aftermath of an exception that no
   handler of the loader knows. *)
THEOREM RecursionIsReal == Spec => NoFalseRecursion
<1>1. ASSUME LoaderInv, NEW f \in Files, RecursiveImport(f)
      PROVE  \/ \E i \in DOMAIN frames :
                   frames[i].kind = "load" /\ modules[frames[i].mod].file = f
             \/ \E m \in Ids : modules[m].file = f /\ modules[m].failed = "foreign"
  <2>1. PICK m \in Elements(loading_module_stack) : modules[m].file = f
    BY <1>1 DEF RecursiveImport, OnLoadingStack
  <2>2. PICK j \in DOMAIN loading_module_stack : loading_module_stack[j] = m
    BY DEF Elements
  <2>3. m \in Ids
    BY <1>1, <2>2, Indices DEF LoaderInv
  <2>4. modules[m].file # CommandLine
    BY <2>1, CommandLineAssumption
  <2> QED BY <1>1, <2>1, <2>2, <2>3, <2>4 DEF LoaderInv, Accounted
<1>2. LoaderInv =>
        [\A f \in Files : RecursiveImport(f) =>
          \/ \E i \in DOMAIN frames :
                frames[i].kind = "load" /\ modules[frames[i].mod].file = f
          \/ \E m \in Ids : modules[m].file = f /\ modules[m].failed = "foreign"]_loaderVars
  BY <1>1
<1> QED BY <1>2, LoaderInvariant, PTL DEF NoFalseRecursion

(* The loader implements the registry: a step of the loader publishes one file
   whose uses are public, empties the registry, or does not touch it. *)
LEMMA RegistryStep ==
    LoaderInv /\ LoaderInv' /\ [Next]_loaderVars
    => [Registry!RegistryNext]_<<uses, AvailableFiles>>
<1> SUFFICES ASSUME LoaderInv, LoaderInv', [Next]_loaderVars
             PROVE  [Registry!RegistryNext]_<<uses, AvailableFiles>>
  OBVIOUS
<1>t. TypeOK
  BY DEF LoaderInv
<1>u. uses' = uses
  BY DEF Next, Call, Progress, Fail, loaderVars
<1>e. Elements(public_modules) \subseteq Ids
  BY <1>t, Indices DEF Elements
<1>1. CASE ReturnLoad
  <2>1. /\ Parsed /\ Top.kind = "load" /\ ~Idle
        /\ public_modules' = Published(Top.mod)
    BY <1>1 DEF ReturnLoad, Finished, Parsed
  <2>2. /\ Top.mod \in Ids /\ Current = modules[Top.mod] /\ Current.file \in Files
        /\ PublicWith(Current.file) = {}
    BY <2>1, Innermost
  <2>3. \A u \in DOMAIN uses[Current.file] : uses[Current.file][u] \in AvailableFiles
    BY <2>1, ParsedUses
  <2>4. Current.file \notin AvailableFiles
    BY <2>2 DEF AvailableFiles, PublicWith
  <2>5. AvailableFiles' = AvailableFiles \cup {Current.file}
    <3>1. Elements(public_modules)' = Elements(public_modules) \cup {Top.mod}
      <4>1. public_modules \in Seq(Ids)
        BY <1>t DEF TypeOK
      <4>2. /\ Len(public_modules') = Len(public_modules) + 1
            /\ public_modules'[Len(public_modules) + 1] = Top.mod
            /\ \A i \in 1 .. Len(public_modules) : public_modules'[i] = public_modules[i]
            /\ public_modules' \in Seq(Ids)
        BY <2>1, <2>2, <4>1, AppendedProperties DEF Published
      <4>3. /\ DOMAIN public_modules = 1 .. Len(public_modules)
            /\ DOMAIN public_modules' = 1 .. Len(public_modules) + 1
            /\ Len(public_modules) \in Nat
        BY <4>1, <4>2, LenProperties
      <4>4. \A z \in Nat : \A i : i \in 1 .. z + 1 <=> i \in 1 .. z \/ i = z + 1
        OBVIOUS
      <4> QED BY <4>2, <4>3, <4>4 DEF Elements
    <3>2. \A m \in Ids : modules'[m].file = modules[m].file
      <4>1. modules \in Seq(ModuleRecord) /\ DOMAIN modules = Ids
        BY <1>t, LenProperties DEF TypeOK, Ids
      <4>2. CASE Len(frames) = 1
        BY <1>1, <4>2 DEF ReturnLoad
      <4>3. CASE Len(frames) # 1
        <5>1. PICK c : modules' = [modules EXCEPT ![c].includes = @ \cup {Top.mod}]
          BY <1>1, <4>3 DEF ReturnLoad
        <5>2. \A m \in Ids : m # c => modules'[m] = modules[m]
          BY <4>1, <5>1
        <5>3. c \in Ids => modules'[c] = [modules[c] EXCEPT !.includes = @ \cup {Top.mod}]
          BY <4>1, <5>1
        <5>4. c \in Ids => modules[c] \in ModuleRecord
          BY <4>1, ElementOfSeq DEF Ids
        <5>5. c \in Ids => modules'[c].file = modules[c].file
          BY <5>3, <5>4 DEF ModuleRecord
        <5> QED BY <5>2, <5>5
      <4> QED BY <4>2, <4>3
    <3> QED BY <1>e, <2>2, <3>1, <3>2 DEF AvailableFiles
  <2>6. Registry!Publish(Current.file)
    BY <2>3, <2>4, <2>5 DEF Registry!Publish, Registry!UsedBy
  <2> QED BY <1>u, <2>2, <2>6 DEF Registry!RegistryNext
<1>2. CASE CleanUp
  <2>1. AvailableFiles' = {}
    BY <1>2 DEF CleanUp, AvailableFiles, Elements
  <2> QED BY <1>u, <2>1 DEF Registry!RegistryNext, Registry!Reset
<1>3. CASE ~ReturnLoad /\ ~CleanUp
  <2>1. public_modules' = public_modules
    BY <1>3 DEF Next, Call, Progress, LoadCached, LoadModule, CreateModuleForSource,
       ExecuteSingleCommand, RecursiveImport, ImportCached, ImportLoad, StartLoad,
       RegisterSource, Compile, ReturnOther, Unwind, Fail, loaderVars
  <2>2. \A m \in Ids : modules'[m].file = modules[m].file
    <3>1. modules \in Seq(ModuleRecord) /\ DOMAIN modules = Ids
      BY <1>t, LenProperties DEF TypeOK, Ids
    <3>2. \A m \in Ids : modules[m] \in ModuleRecord
      BY <3>1, ElementOfSeq DEF Ids
    <3>3. CASE modules' = modules
      BY <3>3
    <3>4. ASSUME NEW r, modules' = Append(modules, r) PROVE \A m \in Ids : modules'[m] = modules[m]
      BY <3>1, <3>4 DEF Ids
    <3>5. ASSUME NEW c, NEW v, modules' = [modules EXCEPT ![c].includes = v]
          PROVE  \A m \in Ids : modules'[m].file = modules[m].file
      BY <3>1, <3>2, <3>5 DEF ModuleRecord
    <3>6. ASSUME NEW c, NEW v, modules' = [modules EXCEPT ![c].compiled = v]
          PROVE  \A m \in Ids : modules'[m].file = modules[m].file
      BY <3>1, <3>2, <3>6 DEF ModuleRecord
    <3>7. ASSUME NEW c, NEW v, modules' = [modules EXCEPT ![c].failed = v]
          PROVE  \A m \in Ids : modules'[m].file = modules[m].file
      BY <3>1, <3>2, <3>7 DEF ModuleRecord
    <3>8. \/ modules' = modules
          \/ \E r : modules' = Append(modules, r)
          \/ \E c, v : modules' = [modules EXCEPT ![c].includes = v]
          \/ \E c, v : modules' = [modules EXCEPT ![c].compiled = v]
          \/ \E c, v : modules' = [modules EXCEPT ![c].failed = v]
      BY <1>3 DEF Next, Call, Progress, LoadCached, LoadModule, CreateModuleForSource,
         ExecuteSingleCommand, RecursiveImport, ImportCached, Include, ImportLoad, StartLoad,
         RegisterSource, Compile, ReturnOther, Unwind, Fail, loaderVars
    <3> QED BY <3>3, <3>4, <3>5, <3>6, <3>7, <3>8
  <2>3. AvailableFiles' = AvailableFiles
    BY <1>e, <2>1, <2>2 DEF AvailableFiles, Elements
  <2> QED BY <1>u, <2>3
<1> QED BY <1>1, <1>2, <1>3

(* The loader, with all its recursion and error paths, is a registry of files
   loaded in dependency order. *)
THEOREM LoaderImplementsRegistry == Spec => RegistryRefinement
<1>1. Init => Registry!RegistryInit
  <2>1. Init => Elements(public_modules) = {}
    BY DEF Init, Elements
  <2> QED BY <2>1 DEF AvailableFiles, Registry!RegistryInit
<1>2. Spec => []LoaderInv
  BY LoaderInvariant
<1> QED
  BY <1>1, <1>2, RegistryStep, PTL DEF Spec, RegistryRefinement, Registry!RegistrySpec
=============================================================================
