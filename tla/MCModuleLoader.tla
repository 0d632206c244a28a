--------------------------- MODULE MCModuleLoader ---------------------------
(* Small file systems for ModuleLoader: three files and the command line. *)
EXTENDS ModuleLoader, TLC

CONSTANTS a, b, c, cmd, p, none

(* a uses b and c, c uses b, the command uses a: a diamond with a package. *)
DiamondUses == (a :> <<b, c>>) @@ (b :> <<>>) @@ (c :> <<b>>) @@ (cmd :> <<c>>)
(* a and b use each other, c uses a. *)
CyclicUses == (a :> <<b>>) @@ (b :> <<c, a>>) @@ (c :> <<>>) @@ (cmd :> <<a>>)

(* a uses itself, b uses a after c. *)
SelfUses == (a :> <<a>>) @@ (b :> <<c, a>>) @@ (c :> <<>>) @@ (cmd :> <<b>>)

UsesOfFiles == {DiamondUses, CyclicUses, SelfUses}

Packages == (a :> none) @@ (b :> p) @@ (c :> p)
=============================================================================
