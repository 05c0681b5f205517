----------------------------- MODULE MCPrograms -----------------------------
(* Model checking values for ProgramMachine: every event program, a data    *)
(* cache of two ways, with and without its replacement module.              *)
EXTENDS ProgramMachine

E == INSTANCE EventPrograms WITH MaxTags <- 3, MaxWords <- 8, MaxPasses <- 2

MCPrograms == E!LsuPrograms
MCUnmapped == {E!Unmapped}
MCAdr      == 0 .. E!Unmapped + LINE - 1

On    == {TRUE}
OnOff == BOOLEAN
NoOps == {}
Aligned == {FALSE}
=============================================================================
