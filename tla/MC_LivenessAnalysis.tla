------------------------ MODULE MC_LivenessAnalysis ------------------------
(* Every control flow graph on NumBlocks blocks, each block one of three   *)
(* bodies over two registers: nothing, a use of r with an update of s in   *)
(* place, and a copy of s to r and back.                                   *)
EXTENDS LivenessAnalysis

CONSTANTS r, s

I(rd, wr) == [reads |-> rd, writes |-> wr]

MCRegs == {r, s}
MCBodies == { << >>,
              <<I({r, s}, {s})>>,
              <<I({s}, {r}), I({r}, {s})>> }

=============================================================================
