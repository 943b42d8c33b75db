-------------------------- MODULE MC_SsaConstruction --------------------------
(***************************************************************************)
(* Functions of four blocks: every graph in which the entry is no target   *)
(* and a block has two successors at most, unreachable blocks included,    *)
(* with bodies that define, update, copy and load two registers.           *)
(***************************************************************************)
EXTENDS SsaConstruction

W(v) == Reg(Base(v), "W")
R(v) == Reg(Base(v), "R")

Nothing == <<>>
Define == <<Op("def", <<W(1)>>)>>
Update == <<Op("f", <<W(1), R(1), R(2)>>)>>
Other == <<Op("load", <<W(1), Mem(<<Base(1), Base(2)>>)>>), Move(W(2), R(1))>>

Leaves == <<Op("end", <<R(1), R(2)>>)>>
MCBodies ==
    {<<Nothing, Update, Other, Leaves>>, <<Define, Update, Other, Leaves>>,
     <<Nothing, Define, Define, Leaves \o Update>>, <<Define, Other, Nothing, Leaves \o Update>>,
     <<Define, Other, Other, Leaves>>, <<Nothing, Define \o Other, Update, Update \o Other>>}

Targets(b) == {t \in SUBSET (2 .. 4) : Cardinality(t) <= 2}
Graphs == {<<s1, s2, s3, s4>> : s1 \in Targets(1) \ {{}}, s2 \in Targets(2), s3 \in Targets(3), s4 \in {{}, {2}}}

\* A function takes one argument.
MCPrograms == {[succ |-> g, body |-> b, params |-> {2}] : g \in Graphs, b \in MCBodies}

\* A loop whose head is the entry.
EntryLoop == {[succ |-> <<{1, 2}, {}>>, body |-> <<Update, Leaves>>, params |-> {1, 2}]}
=============================================================================
