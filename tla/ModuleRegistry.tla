--------------------------- MODULE ModuleRegistry ---------------------------
(***************************************************************************)
(* What a Context promises about the modules it has loaded: a set of files *)
(* that grows by one file at a time, a file only after all the files it    *)
(* uses, and that clean_up empties.                                        *)
(***************************************************************************)
EXTENDS Sequences

CONSTANT Files

VARIABLES
    uses,           \* uses[f]: the files that f imports
    available       \* the files whose modules are public

UsedBy(f) == {uses[f][i] : i \in DOMAIN uses[f]}

RegistryInit == available = {}

Publish(f) ==
    /\ f \notin available
    /\ UsedBy(f) \subseteq available
    /\ available' = available \cup {f}

Reset == available' = {}

RegistryNext == UNCHANGED uses /\ ((\E f \in Files : Publish(f)) \/ Reset)

RegistrySpec == RegistryInit /\ [][RegistryNext]_<<uses, available>>
=============================================================================
