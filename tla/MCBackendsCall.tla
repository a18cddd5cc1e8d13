--------------------------- MODULE MCBackendsCall ---------------------------
(* Small instances of BackendsCall for TLC. *)
EXTENDS BackendsCall
CONSTANTS b1, b2

TwoBackends    == <<b1, b2>>
OneTwice       == <<b1, b1>>
FirstIsEndless == {1}
=============================================================================
