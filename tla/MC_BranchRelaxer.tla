--------------------------- MODULE MC_BranchRelaxer ---------------------------
(* Streams of up to MaxItems items whose byte strings end next to the limits  *)
(* of the short forms: on x86-64 a jump over 124 bytes and a short branch     *)
(* fits and no longer does when that branch grows, 127 bytes are the last     *)
(* that fit forwards and one too many backwards; 4084 and 4092 do the same    *)
(* for RISC-V.                                                                *)
EXTENDS BranchRelaxer, TLC

CONSTANTS a, b

MCLabels == {a, b}
MCDataSizes == [e \in Encodings |-> IF e = X86 THEN {124, 127} ELSE {4084, 4092}]
MCSymmetry == Permutations(MCLabels)
=============================================================================
