---------------------------- MODULE MC_Compilation ----------------------------
(* Modules with a declaration in front of, between and behind functions.   *)
EXTENDS Compilation

MCModules == {<<TRUE>>, <<TRUE, FALSE, TRUE>>, <<FALSE, TRUE, TRUE>>, <<FALSE>>}
=============================================================================
