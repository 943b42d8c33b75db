--------------------------- MODULE MC_CodeSection ---------------------------
(***************************************************************************)
(* Streams of up to four nodes with two labels: every order of emits,      *)
(* alignments and jumps back to a label, with the section laid out, patched *)
(* and written to again at any point.                                      *)
(***************************************************************************)
EXTENDS CodeSection, TLC

CONSTANTS l1, l2

MCLabels == {l1, l2}
MCRuns == {<<1>>, <<1, 2>>, <<2, 1>>}
MCFixups == {<<3, 3, 3, 3>>}
Symmetry == Permutations(MCLabels)
=============================================================================
