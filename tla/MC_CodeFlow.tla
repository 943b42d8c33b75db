---------------------------- MODULE MC_CodeFlow ----------------------------
(* Functions of NumBlocks blocks that end in every way a block can end,    *)
(* with code after a terminator too (the verifier only warns of it).       *)
EXTENDS CodeFlow

Mov == I("MOV", << >>)
Jump(b) == I("JMP", <<b>>)
Branch(t, f) == I("BR_COND", <<t, f>>)
Ret == I("RET", << >>)

MCBodies ==
    { << >>, <<Mov>>, <<Ret>>, <<I("CALL", << >>), I("THROW", << >>)>> }
    \cup {<<Mov, Jump(b)>> : b \in Blocks}
    \cup {<<Ret, Jump(b)>> : b \in Blocks}
    \cup {<<I("CALL indirect", << >>), Branch(t, f)>> : t \in Blocks, f \in Blocks}
    \cup {<<Jump(b), Jump(1)>> : b \in Blocks}

\* Blocks that end in one way only, for one question each.
MCTryBodies == {<<Mov, Ret>>, <<Mov>>} \cup {<<I("TRY", <<t, f>>)>> : t \in Blocks, f \in Blocks}

MCBranchBodies == {<<Ret>>, <<Mov>>} \cup {<<Branch(t, f)>> : t \in Blocks, f \in Blocks}
MCCallBodies == {<<Ret>>, <<Mov>>} \cup {<<I("CALL indirect", << >>), Jump(b)>> : b \in Blocks}
=============================================================================
