-------------------------- MODULE MC_DefUseRegistry --------------------------
(***************************************************************************)
(* An instruction of up to three operands next to one of a single operand, *)
(* over two registers: every sequence of edits.                            *)
(***************************************************************************)
EXTENDS DefUseRegistry, TLC

CONSTANTS i1, i2, a, b

MCInstructions == {i1, i2}
MCRegs == {a, b}
MCAddresses == {[base |-> r, index |-> r] : r \in MCRegs}
MCRoom == i1 :> 3 @@ i2 :> 1
MCOpcodes == i1 :> {"STORE", "CALL", "PHI", "TARGET"} @@ i2 :> {"ADD"}
Symmetry == Permutations(MCRegs)
=============================================================================
