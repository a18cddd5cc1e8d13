--------------------------- MODULE MCModuleInstall ---------------------------
(* A small instance of ModuleInstall for TLC: a depends on nothing, then   *)
(* on b; b depends on c; c on nothing.                                     *)
EXTENDS ModuleInstall, TLC

CONSTANTS a, b, c

Chain == (a :> <<{}, {b}>>) @@ (b :> <<{c}, {c}>>) @@ (c :> <<{}, {}>>)
=============================================================================
